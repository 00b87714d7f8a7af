--------------------------- MODULE ChildDemosProofs ---------------------------
(***************************************************************************)
(* Proofs about the C demos that fork a child and wait for it: for every   *)
(* number of allocations, limit, set of namespaces, number of children,    *)
(* system calls and signals, and however the two processes, the kernel and *)
(* whoever sends SIGKILL interleave.                                       *)
(***************************************************************************)
EXTENDS MCChildDemos, FiniteSetTheorems, TLAPS

-----------------------------------------------------------------------------
(***************************************************************************)
(* syscall_tracer: the tracer's count of stops against the kernel's.       *)
(***************************************************************************)
NoGarbage == \A k \in DOMAIN printed : printed[k] # "garbage"
GarbageLast == \A k \in DOMAIN printed : printed[k] = "garbage" => k = Len(printed)

\* Between two stops, and after a stop that the tracer has dealt with.
InStep == (in_syscall <=> mode = "kernel") /\ Len(printed) = entered

\* At a system-call stop the tracer has not judged: it is one stop behind.
OneBehind ==
    /\ in_syscall <=> mode = "user"
    /\ Len(printed) = IF in_syscall THEN entered ELSE entered - 1

TracerTypes ==
    /\ child \in {"none", "running", "stopped", "zombie", "reaped"}
    /\ mode \in {"user", "kernel"} /\ in_syscall \in BOOLEAN /\ reported \in BOOLEAN
    /\ traced \in BOOLEAN /\ nochld \in BOOLEAN
    /\ entered \in Nat /\ printed \in Seq({"nr", "garbage"})

\* A child that has not asked to be traced, or was refused: the tracer is at its first
\* waitpid for as long as there is such a child, and what it stores then stays.
Untraced ==
    /\ mode = "user" /\ entered = 0
    /\ child = "none" => pc \in {"fork", "failed", "none"} /\ stop = "none" /\ reported
    /\ child \in {"running", "stopped", "zombie"} =>
        /\ pc = "wait0"
        /\ reported <=> child # "zombie"
        /\ stop \in IF child = "running" THEN {"none", "job"}
                   ELSE IF child = "stopped" THEN {"job"} ELSE {"exited", "killed"}
    /\ child = "reaped" =>
        /\ reported /\ pc \in {"wait0", "resume", "wait", "judge", "done"}
        /\ pc = "wait0" => nochld
        /\ nochld \/ status \in {"exited", "killed"}
    /\ pc = "wait0" \/ child # "reaped" => status = "none" /\ printed = <<>> /\ ~in_syscall
    /\ pc \notin {"wait0", "fork", "failed", "none"} =>
        status \in {"exited", "killed", "syscall", "signal"}
    /\ pc = "done" => status = "exited"
    /\ printed # <<>> => nochld /\ status = "syscall" /\ Len(printed) = 1

Traced ==
    /\ child # "none" /\ stop \notin {"none", "job"}
    /\ child = "running" => pc = "wait" /\ reported /\ InStep /\ NoGarbage
    /\ child = "stopped" =>
        /\ stop \in {"syscall", "signal"} /\ NoGarbage
        /\ pc \in IF reported THEN {"resume", "judge"} ELSE {"wait0", "wait"}
        /\ pc = "wait0" => stop = "signal"
        /\ pc = "judge" => status = stop
        /\ IF stop = "signal" \/ pc = "resume" THEN InStep ELSE OneBehind
    /\ child = "zombie" =>
        /\ ~reported /\ stop \in {"exited", "killed"}
        /\ stop = "exited" => pc = "wait" /\ InStep /\ NoGarbage
        /\ stop = "killed" =>
            /\ pc \in {"wait0", "resume", "wait", "judge"} /\ GarbageLast
            /\ pc = "judge" => status \in {"syscall", "signal"} /\ NoGarbage
    /\ child = "reaped" =>
        /\ reported /\ stop \in {"exited", "killed"} /\ status = stop
        /\ stop = "exited" => pc \in {"judge", "done"} /\ InStep /\ NoGarbage
        /\ stop = "killed" => pc \in {"resume", "wait", "judge"} /\ GarbageLast

TracerInv == TracerTypes /\ IF traced THEN Traced ELSE Untraced

\* Tracer and tracee start in step, or are not run at all.
LEMMA TracerInit == (Tracer!Idle \/ Tracer!Init) /\ nochld \in BOOLEAN => TracerInv
<1> SUFFICES ASSUME Tracer!Idle \/ Tracer!Init, nochld \in BOOLEAN PROVE TracerInv
  OBVIOUS
<1>0. printed = <<>>
  BY DEF Tracer!Idle, Tracer!Init, Tracer!Start
<1>1. printed \in Seq({"nr", "garbage"}) /\ Len(printed) = 0 /\ NoGarbage
  BY <1>0 DEF NoGarbage
<1>2. /\ child = "none" /\ ~traced /\ traced \in BOOLEAN /\ mode = "user" /\ stop = "none" /\ reported /\ entered = 0
      /\ pc \in {"fork", "none"} /\ status = "none" /\ ~in_syscall /\ reported \in BOOLEAN /\ in_syscall \in BOOLEAN
  BY DEF Tracer!Idle, Tracer!Init, Tracer!Start
<1> QED
  BY <1>1, <1>2 DEF TracerInv, Untraced, TracerTypes

\* A line more: all is as before but for the last.
LEMMA Lines ==
  ASSUME TracerTypes, NEW line \in {"nr", "garbage"}, printed' = Append(printed, line)
  PROVE  /\ printed' \in Seq({"nr", "garbage"}) /\ Len(printed') = Len(printed) + 1
         /\ NoGarbage => GarbageLast'
         /\ NoGarbage /\ line = "nr" => NoGarbage'
  BY DEF TracerTypes, NoGarbage, GarbageLast

\* The program stops, goes on or ends before it is traced.
LEMMA UntracedStep ==
  ASSUME TracerInv, UNCHANGED Tracer!tracer,
         Tracer!RaiseStop \/ Tracer!Continue \/ Tracer!ExitUntraced
  PROVE  TracerInv'
<1> USE DEF Tracer!tracer
<1>1. CASE Tracer!RaiseStop
  <2>1. ~traced /\ printed = <<>> /\ pc = "wait0" /\ ~in_syscall /\ mode = "user" /\ entered = 0
    BY <1>1 DEF Tracer!RaiseStop, TracerInv, Untraced, Traced
  <2>2. Len(printed) = 0 /\ NoGarbage' /\ printed' = printed
    BY <2>1 DEF NoGarbage
  <2>3. TracerTypes'
    BY <1>1 DEF Tracer!RaiseStop, TracerInv, TracerTypes
  <2>4. CASE traced'
    BY <1>1, <2>1, <2>2, <2>3, <2>4 DEF Tracer!RaiseStop, TracerInv, Traced, InStep
  <2>5. CASE ~traced'
    BY <1>1, <2>1, <2>3, <2>5 DEF Tracer!RaiseStop, TracerInv, Untraced
  <2> QED
    BY <2>4, <2>5
<1>2. CASE Tracer!Continue \/ Tracer!ExitUntraced
  <2>1. ~traced
    BY <1>2 DEF Tracer!Continue, Tracer!ExitUntraced, TracerInv, Traced
  <2>2. TracerTypes' /\ ~traced'
    BY <1>2, <2>1
    DEF Tracer!Continue, Tracer!ExitUntraced, Tracer!End, TracerInv, TracerTypes
  <2>3. Untraced'
    BY <1>2, <2>1
    DEF Tracer!Continue, Tracer!ExitUntraced, Tracer!End, TracerInv, TracerTypes, Untraced
  <2> QED
    BY <2>2, <2>3 DEF TracerInv
<1> QED
  BY <1>1, <1>2

\* The traced program: it stops once more, or ends, only while it runs.
LEMMA TracedStep ==
  ASSUME TracerInv, UNCHANGED Tracer!tracer,
         \/ Tracer!EnterSyscall \/ Tracer!LeaveSyscall \/ Tracer!ExitGroup
         \/ Tracer!Signal \/ Tracer!Fault
  PROVE  TracerInv'
<1> USE DEF Traced, TracerTypes, Tracer!tracer, InStep, OneBehind, NoGarbage,
            GarbageLast, Tracer!Stop, Tracer!End, Tracer!Runs
<1>0. traced /\ TracerTypes /\ Traced /\ (traced' /\ TracerTypes' /\ Traced' => TracerInv')
  BY DEF TracerInv, Tracer!EnterSyscall, Tracer!LeaveSyscall, Tracer!ExitGroup, Tracer!Signal,
         Tracer!Fault
<1>2. CASE Tracer!EnterSyscall
  <2>1. /\ child = "running" /\ child' = "stopped" /\ stop' = "syscall" /\ ~reported'
        /\ mode = "user" /\ mode' = "kernel" /\ entered' = entered + 1 /\ traced'
        /\ reported' \in BOOLEAN /\ UNCHANGED <<nochld, pc, status, in_syscall, printed>>
    BY <1>0, <1>2 DEF Tracer!EnterSyscall
  <2>2. TracerTypes' /\ pc = "wait" /\ InStep /\ NoGarbage'
    BY <1>0, <2>1
  <2>3. OneBehind'
    BY <2>1, <2>2
  <2> HIDE DEF TracerTypes, OneBehind, NoGarbage, InStep
  <2> QED
    BY <1>0, <2>1, <2>2, <2>3
<1>3. CASE Tracer!LeaveSyscall
  BY <1>0, <1>3 DEF Tracer!LeaveSyscall
<1>4. CASE Tracer!ExitGroup
  BY <1>0, <1>4 DEF Tracer!ExitGroup
<1>5. CASE Tracer!Signal
  BY <1>0, <1>5 DEF Tracer!Signal
<1>6. CASE Tracer!Fault
  BY <1>0, <1>6 DEF Tracer!Fault
<1> QED
  BY <1>2, <1>3, <1>4, <1>5, <1>6

\* SIGKILL ends the child wherever it is, and the tracer has not noticed yet.
LEMMA TraceeKilled ==
  ASSUME TracerInv, Tracer!Kill, UNCHANGED Tracer!tracer
  PROVE  TracerInv'
<1> USE DEF Tracer!Kill, Tracer!End, Tracer!tracer
<1>1. TracerTypes' /\ traced' = traced
  BY DEF TracerInv, TracerTypes
<1>2. CASE traced
  BY <1>1, <1>2 DEF TracerInv, Traced, TracerTypes, InStep, OneBehind, NoGarbage, GarbageLast
<1>3. CASE ~traced
  BY <1>1, <1>3 DEF TracerInv, Untraced, TracerTypes
<1> QED
  BY <1>1, <1>2, <1>3

\* The tracer of a traced child: what waitpid has told it is what it judges.
LEMMA TracerTraced ==
  ASSUME TracerInv, traced, Tracer!Tracer
  PROVE  TracerInv'
<1> USE DEF Traced, TracerTypes, Tracer!tracee, InStep, OneBehind, NoGarbage,
            GarbageLast, Tracer!Goto
<1>0. TracerTypes /\ Traced /\ nochld' = nochld
      /\ (traced' /\ TracerTypes' /\ Traced' => TracerInv')
  BY DEF TracerInv, Tracer!Tracer
<1>1. CASE Tracer!Fork
  BY <1>0, <1>1 DEF Tracer!Fork
<1>2. CASE Tracer!FirstWait
  BY <1>0, <1>2 DEF Tracer!FirstWait, Tracer!WaitPid
<1>3. CASE Tracer!Resume
  BY <1>0, <1>3 DEF Tracer!Resume, Tracer!Resumed
<1>4. CASE Tracer!Wait
  BY <1>0, <1>4 DEF Tracer!Wait, Tracer!WaitPid
<1>5. CASE Tracer!PrintEntry
  <2> HIDE DEF NoGarbage, GarbageLast
  <2>1. /\ pc = "judge" /\ pc' = "resume" /\ status = "syscall" /\ ~in_syscall /\ in_syscall'
        /\ IF child = "reaped" /\ printed # <<>> THEN UNCHANGED printed
           ELSE printed' = Append(printed, IF child = "stopped" THEN "nr" ELSE "garbage")
        /\ UNCHANGED <<Tracer!tracee, status>>
    BY <1>5 DEF Tracer!PrintEntry, Tracer!Judge, Tracer!IsSyscallStop
  <2>2. NoGarbage /\ child \in {"stopped", "zombie"}
    BY <1>0, <2>1
  <2>3. CASE child = "stopped"
    <3>1. printed' \in Seq({"nr", "garbage"}) /\ Len(printed') = Len(printed) + 1 /\ NoGarbage'
      BY <1>0, <2>1, <2>2, <2>3, Lines
    <3> QED
      BY <1>0, <2>1, <2>3, <3>1
  <2>4. CASE child = "zombie"
    <3>1. printed' \in Seq({"nr", "garbage"}) /\ GarbageLast'
      BY <1>0, <2>1, <2>2, <2>4, Lines
    <3> QED
      BY <1>0, <2>1, <2>4, <3>1
  <2> QED
    BY <2>2, <2>3, <2>4
<1>6. CASE Tracer!PassExit
  BY <1>0, <1>6 DEF Tracer!PassExit, Tracer!Judge, Tracer!IsSyscallStop
<1>7. CASE Tracer!PrintTotal
  BY <1>0, <1>7 DEF Tracer!PrintTotal, Tracer!Judge, Tracer!IsExited
<1>8. CASE Tracer!IgnoreStatus
  BY <1>0, <1>8 DEF Tracer!IgnoreStatus, Tracer!Judge, Tracer!IsExited, Tracer!IsSyscallStop
<1>9. QED
  BY <1>1, <1>2, <1>3, <1>4, <1>5, <1>6, <1>7, <1>8 DEF Tracer!Tracer

\* The tracer of a child that is not traced: it has nothing to judge but one status.
LEMMA TracerUntraced ==
  ASSUME TracerInv, ~traced, Tracer!Tracer
  PROVE  TracerInv'
<1> USE DEF Untraced, TracerTypes, Tracer!tracee, Tracer!Goto
<1>0. TracerTypes /\ Untraced /\ nochld' = nochld
      /\ (~traced' /\ TracerTypes' /\ Untraced' => TracerInv')
  BY DEF TracerInv, Tracer!Tracer
<1>1. CASE Tracer!Fork
  BY <1>0, <1>1 DEF Tracer!Fork
<1>2. CASE Tracer!FirstWait
  BY <1>0, <1>2 DEF Tracer!FirstWait, Tracer!WaitPid, Tracer!Statuses
<1>3. CASE Tracer!Resume
  BY <1>0, <1>3 DEF Tracer!Resume, Tracer!Resumed
<1>4. CASE Tracer!Wait
  BY <1>0, <1>4 DEF Tracer!Wait, Tracer!WaitPid, Tracer!Statuses
<1>5. CASE Tracer!PrintEntry
  <2>1. /\ pc = "judge" /\ pc' = "resume" /\ status = "syscall" /\ in_syscall'
        /\ child = "reaped"
        /\ \/ printed # <<>> /\ printed' = printed
           \/ printed = <<>> /\ printed' = Append(printed, "garbage")
        /\ UNCHANGED <<Tracer!tracee, status>>
    BY <1>0, <1>5 DEF Tracer!PrintEntry, Tracer!Judge, Tracer!IsSyscallStop
  <2>2. nochld /\ printed' \in Seq({"nr", "garbage"}) /\ Len(printed') = 1
    <3>1. Append(<<>>, "garbage") \in Seq({"nr", "garbage"}) /\ Len(Append(<<>>, "garbage")) = 1
      OBVIOUS
    <3>2. printed # <<>> \/ printed' = Append(<<>>, "garbage")
      BY <2>1
    <3>3. nochld
      BY <1>0, <2>1
    <3> QED
      BY <1>0, <2>1, <3>1, <3>2, <3>3
  <2> QED
    BY <1>0, <2>1, <2>2
<1>6. CASE Tracer!PassExit
  BY <1>0, <1>6 DEF Tracer!PassExit, Tracer!Judge, Tracer!IsSyscallStop
<1>7. CASE Tracer!PrintTotal
  BY <1>0, <1>7 DEF Tracer!PrintTotal, Tracer!Judge, Tracer!IsExited
<1>8. CASE Tracer!IgnoreStatus
  BY <1>0, <1>8 DEF Tracer!IgnoreStatus, Tracer!Judge, Tracer!IsExited, Tracer!IsSyscallStop
<1>9. QED
  BY <1>1, <1>2, <1>3, <1>4, <1>5, <1>6, <1>7, <1>8 DEF Tracer!Tracer

\* Every step of tracer and tracee.
LEMMA TracerNext ==
  ASSUME TracerInv, Tracer!Next
  PROVE  TracerInv'
<1>1. CASE Tracer!Tracer
  BY <1>1, TracerTraced, TracerUntraced
<1>2. CASE Tracer!Tracee
  BY <1>2, UntracedStep, TracedStep DEF Tracer!Tracee
<1>3. CASE Tracer!Kill /\ UNCHANGED Tracer!tracer
  BY <1>3, TraceeKilled
<1> QED
  BY <1>1, <1>2, <1>3 DEF Tracer!Next

\* What the tracer counts is then right whenever it waits or reads the registers.
LEMMA TracerInvInStep == TracerInv => Tracer!TracerInStep
<1> SUFFICES ASSUME TracerInv PROVE Tracer!TracerInStep
  OBVIOUS
<1>1. CASE traced
  BY <1>1 DEF TracerInv, Traced, TracerTypes, Tracer!TracerInStep, InStep, OneBehind, NoGarbage,
              GarbageLast
<1>2. CASE ~traced
  <2>1. pc = "done" => printed = <<>>
    BY <1>2 DEF TracerInv, Untraced
  <2>2. Len(<<>>) = 0 /\ DOMAIN <<>> = {}
    OBVIOUS
  <2>3. \A k \in DOMAIN printed : printed # <<>> /\ (Len(printed) = 1 => k = Len(printed))
    <3>1. DOMAIN printed = 1..Len(printed)
      BY DEF TracerInv, TracerTypes
    <3> QED
      BY <2>2, <3>1
  <2> QED
    BY <1>2, <2>1, <2>2, <2>3 DEF TracerInv, Untraced, Tracer!TracerInStep
<1> QED
  BY <1>1, <1>2

-----------------------------------------------------------------------------
(***************************************************************************)
(* cgroup_demo: where the two processes are, and what that says of the     *)
(* cgroup and its limit.                                                   *)
(***************************************************************************)
Fates == {None, Running, Killed} \cup {Exited(c) : c \in 0..2}

Machine ==
    /\ nochld \in BOOLEAN
    /\ at = [w \in Who |-> at[w]]
    /\ fate \in [Who -> Fates]

\* What a process can have come to, one thing apart from the other.
LEMMA FateValues ==
  /\ None \in Fates /\ Running \in Fates /\ Killed \in Fates
  /\ Running # None /\ Killed # None /\ Killed # Running
  /\ None[1] = "none" /\ Running[1] = "running" /\ Killed[1] = "killed"
  /\ \A c \in 0..2 : /\ Exited(c) \in Fates /\ Exited(c) # None /\ Exited(c) # Running
                     /\ Exited(c)[1] = "exited" /\ Exited(c)[2] = c
  /\ \A c, d \in 0..2 : Exited(c) = Exited(d) => c = d
  /\ 0 \in 0..2 /\ 1 \in 0..2 /\ 2 \in 0..2
  BY DEF Fates, None, Running, Killed, Exited

\* A process that has exited does not run, and has not been killed.
LEMMA ExitedValues ==
  ASSUME NEW f \in Fates
  PROVE  f[1] = "exited" => f # Running /\ f[2] \in 0..2 /\ f = Exited(f[2])
  BY FateValues DEF Fates

(***************************************************************************)
(* What a step does to the two processes: one goes on to another place, or *)
(* comes to an end, or the parent forks.                                   *)
(***************************************************************************)
Other(w) == IF w = "parent" THEN "child" ELSE "parent"

MovesTo(w, l) ==
    /\ Machine' /\ fate' = fate
    /\ at'[w] = l /\ at'[Other(w)] = at[Other(w)]

EndsAs(w, f) ==
    /\ Machine' /\ at' = at
    /\ fate'[w] = f /\ fate'[Other(w)] = fate[Other(w)]

Forks(first, next) ==
    /\ Machine'
    /\ at'["parent"] = next /\ at'["child"] = first
    /\ fate'["parent"] = fate["parent"] /\ fate'["child"] = Running

\* A process goes on to another line.
LEMMA MoveEffect ==
  ASSUME Machine, NEW w \in Who, NEW l,
         at' = [at EXCEPT ![w] = l], UNCHANGED <<fate, nochld>>
  PROVE  MovesTo(w, l)
  BY DEF Machine, Who, MovesTo, Other

\* A process ends.
LEMMA EndEffect ==
  ASSUME Machine, NEW w \in Who, NEW f \in Fates,
         fate' = [fate EXCEPT ![w] = f], UNCHANGED <<at, nochld>>
  PROVE  EndsAs(w, f)
  BY DEF Machine, Who, EndsAs, Other

\* The parent goes on, and its child starts.
LEMMA ForkEffect ==
  ASSUME Machine, NEW first, NEW next,
         at' = [parent |-> next, child |-> first],
         fate' = [fate EXCEPT !["child"] = Running], UNCHANGED nochld
  PROVE  Forks(first, next)
  BY FateValues DEF Machine, Who, Forks

CgroupInv ==
    /\ Machine
    /\ made \in BOOLEAN /\ limited \in BOOLEAN /\ joined \in BOOLEAN /\ charge \in Nat
    \* the limit is there whenever the cgroup is, from LimitMemory on
    /\ at["parent"] \notin {"banner", "mkdir", "memory.max"} => (made => limited)
    /\ joined => made /\ limited /\ fate["child"] = Running /\ at["child"] # "join"
    /\ Runs("child", "malloc") \/ Runs("child", "memset") => joined
    /\ charge > 0 => joined /\ charge <= MEM_MAX
    \* the child
    /\ fate["child"] # None =>
        at["parent"] \in {"waiting", "wait", "stats", "rmdir", "return"}
    /\ at["parent"] \in {"stats", "rmdir", "return"} =>
        fate["child"] # Running /\ verdict = fate["child"]
    /\ at["child"] # "command"
    \* the end
    /\ at["parent"] = "return" /\ made => other # "none"
    /\ fate["parent"] = Exited(0) => at["parent"] = "return"
    /\ NoChildLeft

\* The fates of cgroup_demo are those of the machine here.
LEMMA CgroupFates ==
  /\ Cgroup!None = None /\ Cgroup!Running = Running /\ Cgroup!Killed = Killed
  /\ \A c : Cgroup!Exited(c) = Exited(c)
  BY DEF Cgroup!None, Cgroup!Running, Cgroup!Killed, Cgroup!Exited, None, Running, Killed, Exited

\* What the steps of the machine mean in cgroup_demo.
LEMMA CgroupMachine ==
  ASSUME Machine, UNCHANGED Cgroup!setting
  PROVE  /\ \A w \in Who : \A l : Cgroup!Goto(w, l) => MovesTo(w, l)
         /\ \A w \in Who, c \in 0..2 : Cgroup!Exit(w, c) => EndsAs(w, Exited(c))
         /\ \A w \in Who : Cgroup!Kill(w) => EndsAs(w, Killed) /\ fate[w] = Running
         /\ \A f, n : Cgroup!Fork(f, n) => Forks(f, n)
         /\ \A w, l : Cgroup!Runs(w, l) <=> Runs(w, l)
<1> USE DEF Cgroup!setting
<1>1. ASSUME NEW w \in Who, NEW l, Cgroup!Goto(w, l) PROVE MovesTo(w, l)
  BY <1>1, MoveEffect DEF Cgroup!Goto
<1>2. ASSUME NEW w \in Who, NEW c \in 0..2, Cgroup!Exit(w, c) PROVE EndsAs(w, Exited(c))
  BY <1>2, EndEffect, FateValues, CgroupFates DEF Cgroup!Exit
<1>3. ASSUME NEW w \in Who, Cgroup!Kill(w) PROVE EndsAs(w, Killed) /\ fate[w] = Running
  BY <1>3, EndEffect, FateValues, CgroupFates DEF Cgroup!Kill
<1>4. ASSUME NEW f, NEW n, Cgroup!Fork(f, n) PROVE Forks(f, n)
  BY <1>4, ForkEffect, CgroupFates DEF Cgroup!Fork
<1>5. QED
  BY <1>1, <1>2, <1>3, <1>4, CgroupFates DEF Runs, Cgroup!Runs

\* Whatever another run has left, the demo starts without a child.
LEMMA CgroupInit == Cgroup!Init => CgroupInv
<1> SUFFICES ASSUME Cgroup!Init PROVE CgroupInv
  OBVIOUS
<1>1. Machine /\ at["parent"] = "banner" /\ at["child"] = "none"
      /\ fate["parent"] = Running /\ fate["child"] = None
  <2>1. /\ at = [parent |-> "banner", child |-> "none"]
        /\ fate = [parent |-> Running, child |-> None] /\ nochld \in BOOLEAN
    BY CgroupFates DEF Cgroup!Init, Cgroup!StdioInit
  <2> QED
    BY <2>1, FateValues DEF Machine, Who
<1>2. /\ made \in BOOLEAN /\ limited \in BOOLEAN /\ ~joined /\ joined \in BOOLEAN
      /\ charge = 0 /\ verdict = None
  BY CgroupFates DEF Cgroup!Init
<1> QED
  BY <1>1, <1>2, FateValues DEF CgroupInv, Runs, HasExited, NoChildLeft

\* The parent only prints and goes on, which takes no promise with it.
LEMMA CgroupSays ==
  ASSUME CgroupInv, UNCHANGED Cgroup!setting, NEW from, NEW next, Cgroup!Say(from, next),
         \/ from = "banner" /\ next = "mkdir"
         \/ from = "pids.max" /\ next = "announce" /\ made
         \/ from = "announce" /\ next = "fork"
         \/ from = "waiting" /\ next = "wait"
         \/ from = "stats" /\ next = "rmdir"
  PROVE  CgroupInv'
<1>1. Machine
  BY DEF CgroupInv
<1>2. /\ at["parent"] = from /\ MovesTo("parent", next)
      /\ UNCHANGED <<made, limited, joined, charge, other, verdict>>
  BY <1>1, CgroupMachine DEF Cgroup!Say, Cgroup!cgroup, Cgroup!local, Who, Runs
<1> QED
  BY <1>2 DEF CgroupInv, Runs, HasExited, NoChildLeft, Other, MovesTo

\* The parent gives up before it has forked.
LEMMA CgroupFails ==
  ASSUME CgroupInv, UNCHANGED Cgroup!setting,
         NEW l \in {"mkdir", "memory.max", "pids.max", "fork"}, Cgroup!Fails(l)
  PROVE  CgroupInv'
<1>1. Machine
  BY DEF CgroupInv
<1>2. /\ at["parent"] = l /\ EndsAs("parent", Exited(1))
      /\ UNCHANGED <<made, limited, joined, charge, other, verdict>>
  BY <1>1, CgroupMachine DEF Cgroup!Fails, Cgroup!cgroup, Cgroup!local, Who, Runs
<1> QED
  BY <1>2, FateValues DEF CgroupInv, Runs, HasExited, NoChildLeft, Other, EndsAs

\* The parent's steps that may change the cgroup, and its fork and wait.
LEMMA CgroupParent ==
  ASSUME CgroupInv, UNCHANGED Cgroup!setting, Cgroup!Parent
  PROVE  CgroupInv'
<1> USE DEF Cgroup!cgroup, Cgroup!local, Who, Runs, Other
<1>1. Machine
  BY DEF CgroupInv
<1>2. CASE Cgroup!Banner \/ Cgroup!Announce \/ Cgroup!Waiting \/ Cgroup!show_stats
  BY <1>2, CgroupSays
  DEF Cgroup!Banner, Cgroup!Announce, Cgroup!Waiting, Cgroup!show_stats
<1>3. CASE Cgroup!MakeCgroup
  <2>1. CASE Cgroup!Fails("mkdir")
    BY <2>1, CgroupFails
  <2>2. CASE ~Cgroup!Fails("mkdir")
    <3>1. /\ at["parent"] = "mkdir" /\ MovesTo("parent", "memory.max")
          /\ made' = TRUE /\ limited' = (made /\ limited)
          /\ UNCHANGED <<joined, charge, other, verdict>>
      BY <1>1, <1>3, <2>2, CgroupMachine DEF Cgroup!MakeCgroup
    <3> QED
      BY <3>1 DEF CgroupInv, HasExited, NoChildLeft, MovesTo
  <2> QED
    BY <2>1, <2>2
<1>4. CASE Cgroup!LimitMemory
  <2>1. CASE Cgroup!Fails("memory.max")
    BY <2>1, CgroupFails
  <2>2. CASE ~Cgroup!Fails("memory.max")
    <3>1. /\ at["parent"] = "memory.max" /\ MovesTo("parent", "pids.max")
          /\ limited' = TRUE
          /\ UNCHANGED <<made, joined, charge, other, verdict>>
      BY <1>1, <1>4, <2>2, CgroupMachine DEF Cgroup!LimitMemory
    <3> QED
      BY <3>1 DEF CgroupInv, HasExited, NoChildLeft, MovesTo
  <2> QED
    BY <2>1, <2>2
<1>5. CASE Cgroup!LimitPids
  BY <1>5, CgroupSays, CgroupFails DEF Cgroup!LimitPids
<1>6. CASE Cgroup!ForkChild
  <2>1. CASE Cgroup!Fails("fork")
    BY <2>1, CgroupFails
  <2>2. CASE ~Cgroup!Fails("fork")
    <3>1. /\ at["parent"] = "fork" /\ Forks("join", "waiting")
          /\ UNCHANGED <<made, limited, joined, charge, other, verdict>>
          /\ fate["parent"] = Running
      BY <1>1, <1>6, <2>2, CgroupMachine DEF Cgroup!ForkChild
    <3> QED
      BY <3>1, FateValues DEF CgroupInv, HasExited, NoChildLeft, Forks
  <2> QED
    BY <2>1, <2>2
<1>7. CASE Cgroup!WaitChild
  <2>1. /\ at["parent"] = "wait" /\ fate["child"] # Running
        /\ UNCHANGED <<made, limited, joined, charge, other>>
        /\ \/ EndsAs("parent", Exited(1)) /\ UNCHANGED verdict
           \/ MovesTo("parent", "stats") /\ verdict' = fate["child"]
    BY <1>1, <1>7, CgroupMachine, CgroupFates, FateValues
    DEF Cgroup!WaitChild, Cgroup!ChildWaitable
  <2>2. CASE EndsAs("parent", Exited(1)) /\ UNCHANGED verdict
    BY <2>1, <2>2, FateValues DEF CgroupInv, HasExited, NoChildLeft, EndsAs
  <2>3. CASE MovesTo("parent", "stats") /\ verdict' = fate["child"]
    BY <2>1, <2>3 DEF CgroupInv, HasExited, NoChildLeft, MovesTo
  <2> QED
    BY <2>1, <2>2, <2>3
<1>8. CASE Cgroup!cleanup
  <2>1. /\ at["parent"] = "rmdir" /\ MovesTo("parent", "return")
        /\ UNCHANGED <<joined, charge, other, verdict>>
        /\ \/ made' = FALSE /\ limited' = FALSE /\ ~joined
           \/ UNCHANGED <<made, limited>> /\ (~made \/ joined \/ other # "none")
    BY <1>1, <1>8, CgroupMachine DEF Cgroup!cleanup, Cgroup!Populated, Cgroup!OtherInside
  <2>2. ~joined
    BY <2>1 DEF CgroupInv
  <2>3. CASE made' = FALSE /\ limited' = FALSE
    BY <2>1, <2>2, <2>3, FateValues DEF CgroupInv, HasExited, NoChildLeft, MovesTo
  <2>4. CASE UNCHANGED <<made, limited>> /\ (~made \/ other # "none")
    BY <2>1, <2>2, <2>4, FateValues DEF CgroupInv, HasExited, NoChildLeft, MovesTo
  <2> QED
    BY <2>1, <2>2, <2>3, <2>4
<1>9. CASE Cgroup!Return
  <2>1. /\ at["parent"] = "return" /\ EndsAs("parent", Exited(0))
        /\ UNCHANGED <<made, limited, joined, charge, other, verdict>>
    BY <1>1, <1>9, CgroupMachine, FateValues DEF Cgroup!Return
  <2> QED
    BY <2>1, FateValues DEF CgroupInv, HasExited, NoChildLeft, EndsAs
<1>10. QED
  BY <1>2, <1>3, <1>4, <1>5, <1>6, <1>7, <1>8, <1>9 DEF Cgroup!Parent

\* The child ends: it leaves the cgroup.
LEMMA CgroupChildEnds ==
  ASSUME CgroupInv, NEW f \in {Exited(0), Exited(1), Killed}, EndsAs("child", f),
         fate["child"] = Running, ~joined', charge' = 0, joined' \in BOOLEAN,
         UNCHANGED <<made, limited, other, verdict>>
  PROVE  CgroupInv'
  BY FateValues DEF CgroupInv, Runs, HasExited, NoChildLeft, Other, EndsAs

\* The child joins, allocates up to the limit, and ends.
LEMMA CgroupChild ==
  ASSUME CgroupInv, UNCHANGED Cgroup!setting, Cgroup!Child
  PROVE  CgroupInv'
<1> USE DEF Cgroup!cgroup, Cgroup!local, Who, Runs, Other
<1>1. Machine
  BY DEF CgroupInv
<1>2. CASE Cgroup!Join
  <2>1. /\ Runs("child", "join")
        /\ UNCHANGED <<made, limited, charge, other, verdict>>
        /\ \/ made /\ joined' = TRUE /\ MovesTo("child", "malloc")
           \/ EndsAs("child", Exited(1)) /\ UNCHANGED joined
    BY <1>1, <1>2, CgroupMachine, FateValues DEF Cgroup!Join
  <2>2. CASE made /\ joined' = TRUE /\ MovesTo("child", "malloc")
    BY <2>1, <2>2, FateValues DEF CgroupInv, HasExited, NoChildLeft, MovesTo
  <2>3. CASE EndsAs("child", Exited(1)) /\ UNCHANGED joined
    BY <2>1, <2>3, FateValues DEF CgroupInv, HasExited, NoChildLeft, EndsAs
  <2> QED
    BY <2>1, <2>2, <2>3
<1>3. CASE Cgroup!Allocate
  <2>1. /\ Runs("child", "malloc")
        /\ UNCHANGED <<made, limited, joined, charge, other, verdict>>
        /\ MovesTo("child", "memset") \/ MovesTo("child", "exit")
    BY <1>1, <1>3, CgroupMachine DEF Cgroup!Allocate
  <2> QED
    BY <2>1 DEF CgroupInv, HasExited, NoChildLeft, MovesTo
<1>4. CASE Cgroup!Touch
  <2>1. /\ Runs("child", "memset") /\ MovesTo("child", "malloc")
        /\ charge' \in {charge, charge + 1} /\ (limited /\ joined => charge' <= MEM_MAX)
        /\ UNCHANGED <<made, limited, joined, other, verdict>>
    BY <1>1, <1>4, CgroupMachine DEF Cgroup!Touch, Cgroup!Charges
  <2> QED
    BY <2>1 DEF CgroupInv, HasExited, NoChildLeft, MovesTo
<1>5. CASE Cgroup!OomKill
  <2>1. CASE Cgroup!Kill("child") /\ Cgroup!Leaves /\ UNCHANGED other
    <3>1. /\ EndsAs("child", Killed) /\ fate["child"] = Running
          /\ joined' = FALSE /\ charge' = 0 /\ UNCHANGED <<made, limited, other, verdict>>
      BY <1>1, <1>5, <2>1, CgroupMachine DEF Cgroup!Leaves, Cgroup!OomKill
    <3> QED
      BY <3>1, CgroupChildEnds
  <2>2. CASE ~(Cgroup!Kill("child") /\ Cgroup!Leaves /\ UNCHANGED other)
    <3>1. /\ UNCHANGED <<at, fate, nochld, made, limited, joined, charge, verdict>>
          /\ other' # "none"
      BY <1>5, <2>2
      DEF Cgroup!OomKill, Cgroup!OtherAfter, Cgroup!processes, Cgroup!setting
    <3> QED
      BY <3>1 DEF CgroupInv, Machine, HasExited, NoChildLeft
  <2> QED
    BY <2>1, <2>2
<1>6. CASE Cgroup!ChildExit
  <2>1. /\ EndsAs("child", Exited(0)) /\ fate["child"] = Running
        /\ joined' = FALSE /\ charge' = 0 /\ UNCHANGED <<made, limited, other, verdict>>
    BY <1>1, <1>6, CgroupMachine, FateValues DEF Cgroup!ChildExit, Cgroup!Leaves
  <2> QED
    BY <2>1, CgroupChildEnds
<1>7. QED
  BY <1>2, <1>3, <1>4, <1>5, <1>6 DEF Cgroup!Child

\* A kill empties the cgroup of the child; another run only removes an empty one.
LEMMA CgroupOthers ==
  ASSUME CgroupInv, UNCHANGED Cgroup!setting, Cgroup!Others
  PROVE  CgroupInv'
<1> USE DEF Cgroup!cgroup, Cgroup!local, Who, Runs, Other
<1>1. Machine
  BY DEF CgroupInv
<1>2. CASE Cgroup!Killer
  <2>1. CASE Cgroup!Kill("parent") /\ UNCHANGED <<made, limited, joined, charge>>
    <3>1. /\ EndsAs("parent", Killed) /\ UNCHANGED <<made, limited, joined, charge>>
          /\ UNCHANGED <<other, verdict>>
      BY <1>1, <1>2, <2>1, CgroupMachine DEF Cgroup!Killer
    <3> QED
      BY <3>1, FateValues DEF CgroupInv, HasExited, NoChildLeft, EndsAs
  <2>2. CASE Cgroup!Kill("child") /\ Cgroup!Leaves
    <3>1. /\ EndsAs("child", Killed) /\ fate["child"] = Running
          /\ joined' = FALSE /\ charge' = 0 /\ UNCHANGED <<made, limited, other, verdict>>
      BY <1>1, <1>2, <2>2, CgroupMachine DEF Cgroup!Killer, Cgroup!Leaves
    <3> QED
      BY <3>1, CgroupChildEnds
  <2> QED
    BY <1>2, <2>1, <2>2 DEF Cgroup!Killer
<1>3. CASE Cgroup!OtherChildEnds \/ Cgroup!OtherRemoves
  <2>1. CASE ~Cgroup!Killer
    <3>1. /\ UNCHANGED <<at, fate, nochld, joined, charge, verdict>>
          /\ other' # "none"
          /\ \/ UNCHANGED <<made, limited>>
             \/ ~joined /\ made' = FALSE /\ limited' = FALSE
      BY <1>3, <2>1
      DEF Cgroup!Others, Cgroup!OtherChildEnds, Cgroup!OtherRemoves, Cgroup!OtherAfter,
          Cgroup!processes, Cgroup!setting
    <3>2. Machine' /\ HasExited("parent")' = HasExited("parent")
      BY <1>1, <3>1 DEF Machine, HasExited
    <3>3. CASE UNCHANGED <<made, limited>>
      BY <3>1, <3>2, <3>3 DEF CgroupInv, NoChildLeft
    <3>4. CASE ~joined /\ made' = FALSE /\ limited' = FALSE
      BY <3>1, <3>2, <3>4 DEF CgroupInv, NoChildLeft
    <3> QED
      BY <3>1, <3>3, <3>4
  <2> QED
    BY <1>2, <2>1
<1>4. QED
  BY <1>2, <1>3 DEF Cgroup!Others

\* Every step of cgroup_demo keeps its invariant.
LEMMA CgroupNext ==
  ASSUME CgroupInv, Cgroup!Next
  PROVE  CgroupInv'
  BY CgroupParent, CgroupChild, CgroupOthers DEF Cgroup!Next

-----------------------------------------------------------------------------
(***************************************************************************)
(* clone_demo: the parent looks at the child, and waits for it, before it  *)
(* ends; what it prints is the child's status.                             *)
(***************************************************************************)
CloneInv ==
    /\ Machine
    /\ at["parent"] \in {"malloc", "clone", "notice", "look", "wait", "return"}
    /\ fate["child"] = None <=> at["parent"] \in {"malloc", "clone"}
    /\ at["parent"] \in {"wait", "return"} => seen \/ nochld
    /\ at["parent"] = "return" => fate["child"] # Running
    /\ told # None /\ ~nochld =>
        /\ at["parent"] = "return"
        /\ told = Clone!WEXITSTATUS(fate["child"])
    /\ NoChildLeft
    /\ DOMAIN hostname = {"host", "new"} /\ hostname["host"] = "node"
    /\ at["child"] # "command"

\* The fates of clone_demo are those of the machine here.
LEMMA CloneFates ==
  /\ Clone!None = None /\ Clone!Running = Running /\ Clone!Killed = Killed
  /\ \A c : Clone!Exited(c) = Exited(c)
  BY DEF Clone!None, Clone!Running, Clone!Killed, Clone!Exited, None, Running, Killed, Exited

\* What the steps of the machine mean in clone_demo.
LEMMA CloneMachine ==
  ASSUME Machine, UNCHANGED Clone!setting
  PROVE  /\ \A w \in Who : \A l : Clone!Goto(w, l) => MovesTo(w, l)
         /\ \A w \in Who, c \in 0..2 : Clone!Exit(w, c) => EndsAs(w, Exited(c))
         /\ \A w \in Who : Clone!Kill(w) => EndsAs(w, Killed) /\ fate[w] = Running
         /\ \A f, n : Clone!Fork(f, n) => Forks(f, n)
         /\ \A w, l : Clone!Runs(w, l) <=> Runs(w, l)
         /\ \A w \in Who, c \in 0..2 : Clone!ExitNow(w, c) => EndsAs(w, Exited(c))
<1> USE DEF Clone!setting
<1>1. ASSUME NEW w \in Who, NEW l, Clone!Goto(w, l) PROVE MovesTo(w, l)
  BY <1>1, MoveEffect DEF Clone!Goto
<1>2. ASSUME NEW w \in Who, NEW c \in 0..2, Clone!Exit(w, c) PROVE EndsAs(w, Exited(c))
  BY <1>2, EndEffect, FateValues, CloneFates DEF Clone!Exit
<1>3. ASSUME NEW w \in Who, Clone!Kill(w) PROVE EndsAs(w, Killed) /\ fate[w] = Running
  BY <1>3, EndEffect, FateValues, CloneFates DEF Clone!Kill
<1>4. ASSUME NEW f, NEW n, Clone!Fork(f, n) PROVE Forks(f, n)
  BY <1>4, ForkEffect, CloneFates DEF Clone!Fork
<1>5. ASSUME NEW w \in Who, NEW c \in 0..2, Clone!ExitNow(w, c) PROVE EndsAs(w, Exited(c))
  BY <1>5, EndEffect, FateValues, CloneFates DEF Clone!ExitNow
<1>6. QED
  BY <1>1, <1>2, <1>3, <1>4, <1>5, CloneFates DEF Runs, Clone!Runs

\* clone_demo starts without a child.
LEMMA CloneInit == Clone!Init => CloneInv
<1> SUFFICES ASSUME Clone!Init PROVE CloneInv
  OBVIOUS
<1>1. /\ at = [parent |-> "malloc", child |-> "none"]
      /\ fate = [parent |-> Running, child |-> None] /\ nochld \in BOOLEAN
  BY CloneFates DEF Clone!Init, Clone!StdioInit
<1>2. Machine /\ at["parent"] = "malloc" /\ at["child"] = "none"
      /\ fate["parent"] = Running /\ fate["child"] = None
  BY <1>1, FateValues DEF Machine, Who
<1>3. told = None /\ DOMAIN hostname = {"host", "new"} /\ hostname["host"] = "node"
  BY CloneFates DEF Clone!Init, Clone!Idle
<1> QED
  BY <1>2, <1>3, FateValues DEF CloneInv, HasExited, NoChildLeft

\* The parent clones, waits and tells the end of its own child.
LEMMA CloneParent ==
  ASSUME CloneInv, UNCHANGED Clone!setting, Clone!Parent
  PROVE  CloneInv'
<1> USE FateValues
    DEF Clone!local, Who, Runs, Other, HasExited, NoChildLeft, Clone!Fails
<1>1. Machine /\ UNCHANGED nochld
  BY DEF CloneInv, Clone!setting
<1>2. CASE Clone!Fails("malloc") \/ Clone!Fails("clone")
  <2>1. /\ at["parent"] \in {"malloc", "clone"} /\ EndsAs("parent", Exited(1))
        /\ UNCHANGED <<hostname, seen, told>>
    BY <1>1, <1>2, CloneMachine
  <2> QED
    BY <1>1, <2>1 DEF CloneInv, EndsAs
<1>3. CASE Clone!MallocStack /\ ~Clone!Fails("malloc")
  <2>1. /\ at["parent"] = "malloc" /\ MovesTo("parent", "clone")
        /\ UNCHANGED <<hostname, seen, told>>
    BY <1>1, <1>3, CloneMachine DEF Clone!MallocStack
  <2> QED
    BY <1>1, <2>1 DEF CloneInv, MovesTo
<1>4. CASE Clone!clone /\ ~Clone!Fails("clone")
  <2>1. /\ Runs("parent", "clone") /\ Forks("child_fn", "notice")
        /\ UNCHANGED <<hostname, seen, told>>
    BY <1>1, <1>4, CloneMachine DEF Clone!clone
  <2> QED
    BY <1>1, <2>1 DEF CloneInv, Forks
<1>5. CASE Clone!Notice
  <2>1. /\ at["parent"] = "notice" /\ MovesTo("parent", "look")
        /\ UNCHANGED <<hostname, seen, told>>
    BY <1>1, <1>5, CloneMachine DEF Clone!Notice
  <2> QED
    BY <1>1, <2>1 DEF CloneInv, MovesTo
<1>6. CASE Clone!LookAtChild
  <2>1. /\ at["parent"] = "look" /\ MovesTo("parent", "wait")
        /\ UNCHANGED <<hostname, told>> /\ (seen' \/ nochld)
    BY <1>1, <1>6, CloneMachine DEF Clone!LookAtChild
  <2> QED
    BY <1>1, <2>1 DEF CloneInv, MovesTo
<1>7. CASE Clone!WaitChild
  <2>1. /\ at["parent"] = "wait" /\ MovesTo("parent", "return") /\ fate["child"] # Running
        /\ UNCHANGED <<hostname, seen>>
        /\ fate["child"] # None /\ ~nochld => told' = Clone!WEXITSTATUS(fate["child"])
    BY <1>1, <1>7, CloneMachine, CloneFates
    DEF Clone!WaitChild, Clone!ChildWaitable, Clone!WaitFails
  <2> QED
    BY <1>1, <2>1 DEF CloneInv, MovesTo
<1>8. CASE Clone!Return
  <2>1. /\ at["parent"] = "return" /\ EndsAs("parent", Exited(0))
        /\ UNCHANGED <<hostname, seen, told>>
    BY <1>1, <1>8, CloneMachine DEF Clone!Return
  <2> QED
    BY <1>1, <2>1 DEF CloneInv, EndsAs
<1>9. QED
  BY <1>2, <1>3, <1>4, <1>5, <1>6, <1>7, <1>8
  DEF Clone!Parent, Clone!MallocStack, Clone!clone

\* The child, and SIGKILL: while the child runs the parent has not ended by itself.
LEMMA CloneOthers ==
  ASSUME CloneInv, UNCHANGED Clone!setting, Clone!Child \/ Clone!Killer
  PROVE  CloneInv'
<1> USE FateValues
    DEF Clone!local, Who, Runs, Other, HasExited, NoChildLeft
<1>1. Machine /\ UNCHANGED nochld
  BY DEF CloneInv, Clone!setting
<1>2. ASSUME NEW l \in {"sethostname", "sleep"}, MovesTo("child", l), UNCHANGED <<seen, told>>,
             DOMAIN hostname' = {"host", "new"}, hostname'["host"] = "node"
      PROVE  CloneInv'
  BY <1>1, <1>2 DEF CloneInv, MovesTo
<1>3. ASSUME NEW f \in {Exited(0), Exited(1), Killed}, EndsAs("child", f),
             fate["child"] = Running, UNCHANGED <<hostname, seen, told>>
      PROVE  CloneInv'
  BY <1>1, <1>3 DEF CloneInv, EndsAs
<1>4. CASE Clone!Greet
  <2>1. MovesTo("child", "sethostname") /\ UNCHANGED <<hostname, seen, told>>
    BY <1>1, <1>4, CloneMachine DEF Clone!Greet
  <2> QED
    BY <1>2, <2>1 DEF CloneInv
<1>5. CASE Clone!SetHostname
  <2>1. CASE Clone!Goto("child", "sleep") /\ ~UNCHANGED hostname
    <3>1. /\ MovesTo("child", "sleep") /\ UNCHANGED <<seen, told>>
          /\ hostname' = [hostname EXCEPT !["new"] = "container-demo"]
      BY <1>1, <1>5, <2>1, CloneMachine DEF Clone!SetHostname, Clone!UtsOf
    <3> QED
      BY <1>2, <3>1 DEF CloneInv
  <2>2. CASE UNCHANGED hostname
    <3>1. /\ fate["child"] = Running /\ UNCHANGED <<hostname, seen, told>>
          /\ MovesTo("child", "sleep") \/ EndsAs("child", Exited(1))
      BY <1>1, <1>5, <2>2, CloneMachine DEF Clone!SetHostname
    <3> QED
      BY <1>2, <1>3, <3>1 DEF CloneInv
  <2> QED
    BY <1>5, <2>1, <2>2 DEF Clone!SetHostname
<1>6. CASE Clone!ChildReturns
  <2>1. /\ fate["child"] = Running /\ EndsAs("child", Exited(0))
        /\ UNCHANGED <<hostname, seen, told>>
    BY <1>1, <1>6, CloneMachine DEF Clone!ChildReturns
  <2> QED
    BY <1>3, <2>1
<1>7. CASE Clone!Killer
  <2>1. UNCHANGED <<hostname, seen, told>>
    BY <1>7 DEF Clone!Killer
  <2>2. CASE Clone!Kill("parent")
    <3>1. EndsAs("parent", Killed)
      BY <1>1, <2>2, CloneMachine
    <3> QED
      BY <1>1, <2>1, <3>1 DEF CloneInv, EndsAs
  <2>3. CASE Clone!Kill("child")
    BY <1>1, <1>3, <2>1, <2>3, CloneMachine
  <2> QED
    BY <1>7, <2>2, <2>3 DEF Clone!Killer, Clone!Who
<1>8. QED
  BY <1>4, <1>5, <1>6, <1>7 DEF Clone!Child

\* Every step of clone_demo keeps its invariant.
LEMMA CloneNext ==
  ASSUME CloneInv, Clone!Next
  PROVE  CloneInv'
  BY CloneParent, CloneOthers DEF Clone!Next

-----------------------------------------------------------------------------
(***************************************************************************)
(* mini_unshare: which namespaces each process is in, at each of its       *)
(* places, and how the run ends.                                           *)
(***************************************************************************)
\* As the command ended, or 1.
CommandTold ==
    HasExited("parent") /\ "pid" \in flags /\ fate["child"] # None =>
        fate["parent"] = IF HasExited("child") /\ ~nochld THEN fate["child"] ELSE Exited(1)

UnshareInv ==
    /\ Machine
    /\ ns \in [Who -> SUBSET flags]
    /\ at["parent"] \in {"before", "unshare", "after", "fork", "wait", "exec", "command"}
    /\ at["parent"] \in {"after", "fork", "wait", "exec", "command"} =>
        ns["parent"] = flags \ {"pid"}
    /\ at["parent"] \in {"fork", "wait"} => "pid" \in flags
    /\ at["parent"] \in {"exec", "command"} => "pid" \notin flags
    /\ fate["child"] # None => at["parent"] = "wait" /\ ns["child"] = flags
    /\ Runs("child", "mount") => "mount" \in flags
    /\ proc # {} => {"pid", "mount"} \subseteq flags
    /\ "host" \in proc => shared /\ "user" \notin flags
    /\ CommandTold
    /\ NoChildLeft

\* The fates of mini_unshare are those of the machine here.
LEMMA UnshareFates ==
  /\ Unshare!None = None /\ Unshare!Running = Running /\ Unshare!Killed = Killed
  /\ \A c : Unshare!Exited(c) = Exited(c)
  BY DEF Unshare!None, Unshare!Running, Unshare!Killed, Unshare!Exited,
         None, Running, Killed, Exited

\* What the steps of the machine mean in mini_unshare.
LEMMA UnshareMachine ==
  ASSUME Machine, UNCHANGED Unshare!setting
  PROVE  /\ \A w \in Who : \A l : Unshare!Goto(w, l) => MovesTo(w, l)
         /\ \A w \in Who, c \in 0..2 : Unshare!Exit(w, c) => EndsAs(w, Exited(c))
         /\ \A w \in Who : Unshare!Kill(w) => EndsAs(w, Killed) /\ fate[w] = Running
         /\ \A f, n : Unshare!Fork(f, n) => Forks(f, n)
         /\ \A w, l : Unshare!Runs(w, l) <=> Runs(w, l)
         /\ \A w \in Who : Unshare!Exec(w) => MovesTo(w, "command")
<1> USE DEF Unshare!setting
<1>1. ASSUME NEW w \in Who, NEW l, Unshare!Goto(w, l) PROVE MovesTo(w, l)
  BY <1>1, MoveEffect DEF Unshare!Goto
<1>2. ASSUME NEW w \in Who, NEW c \in 0..2, Unshare!Exit(w, c) PROVE EndsAs(w, Exited(c))
  BY <1>2, EndEffect, FateValues, UnshareFates DEF Unshare!Exit
<1>3. ASSUME NEW w \in Who, Unshare!Kill(w) PROVE EndsAs(w, Killed) /\ fate[w] = Running
  BY <1>3, EndEffect, FateValues, UnshareFates DEF Unshare!Kill
<1>4. ASSUME NEW f, NEW n, Unshare!Fork(f, n) PROVE Forks(f, n)
  BY <1>4, ForkEffect, UnshareFates DEF Unshare!Fork
<1>5. ASSUME NEW w \in Who, Unshare!Exec(w) PROVE MovesTo(w, "command")
  BY <1>5, MoveEffect DEF Unshare!Exec
<1>6. QED
  BY <1>1, <1>2, <1>3, <1>4, <1>5, UnshareFates DEF Runs, Unshare!Runs

\* mini_unshare starts in the namespaces of its caller.
LEMMA UnshareInit == Unshare!Init => UnshareInv
<1> SUFFICES ASSUME Unshare!Init PROVE UnshareInv
  OBVIOUS
<1>1. /\ at = [parent |-> "before", child |-> "none"]
      /\ fate = [parent |-> Running, child |-> None] /\ nochld \in BOOLEAN
  BY UnshareFates DEF Unshare!Init, Unshare!StdioInit
<1>2. Machine /\ at["parent"] = "before" /\ at["child"] = "none"
      /\ fate["parent"] = Running /\ fate["child"] = None
  BY <1>1, FateValues DEF Machine, Who
<1>3. proc = {} /\ ns \in [Who -> SUBSET flags]
  BY DEF Unshare!Init, Unshare!Who, Who
<1> QED
  BY <1>2, <1>3, FateValues DEF UnshareInv, CommandTold, HasExited, NoChildLeft, Runs

\* The steps of mini_unshare itself, up to the command and its end.
LEMMA UnshareProgram ==
  ASSUME UnshareInv, UNCHANGED Unshare!setting, Unshare!Program
  PROVE  UnshareInv'
<1> USE FateValues
    DEF Unshare!local, Who, Unshare!Who, Runs, Other, HasExited, NoChildLeft, CommandTold
<1>1. Machine /\ UNCHANGED nochld
  BY DEF UnshareInv, Unshare!setting
<1>2. CASE Unshare!ShowBefore
  <2>1. /\ at["parent"] = "before" /\ MovesTo("parent", "unshare")
        /\ UNCHANGED <<flags, shared, ns, proc>>
    BY <1>1, <1>2, UnshareMachine DEF Unshare!ShowBefore, Unshare!show_ns
  <2> QED
    BY <1>1, <2>1 DEF UnshareInv, MovesTo
<1>3. CASE Unshare!Unshare
  <2>1. at["parent"] = "unshare" /\ UNCHANGED <<flags, shared, proc>>
    BY <1>1, <1>3, UnshareMachine DEF Unshare!Unshare
  <2>2. CASE EndsAs("parent", Exited(1)) /\ UNCHANGED ns
    BY <1>1, <2>1, <2>2 DEF UnshareInv, EndsAs
  <2>3. CASE ns' = [ns EXCEPT !["parent"] = flags \ {"pid"}] /\ MovesTo("parent", "after")
    <3>1. ns' \in [Who -> SUBSET flags] /\ ns'["parent"] = flags \ {"pid"}
      BY <2>1, <2>3 DEF UnshareInv
    <3> QED
      BY <1>1, <2>1, <2>3, <3>1 DEF UnshareInv, MovesTo
  <2> QED
    BY <1>1, <1>3, <2>2, <2>3, UnshareMachine DEF Unshare!Unshare
<1>4. CASE Unshare!ShowAfter
  <2>1. /\ at["parent"] = "after" /\ UNCHANGED <<flags, shared, ns, proc>>
        /\ MovesTo("parent", IF "pid" \in flags THEN "fork" ELSE "exec")
    BY <1>1, <1>4, UnshareMachine DEF Unshare!ShowAfter, Unshare!show_ns
  <2> QED
    BY <1>1, <2>1 DEF UnshareInv, MovesTo
<1>5. CASE Unshare!ForkCommand
  <2>1. at["parent"] = "fork" /\ UNCHANGED <<flags, shared, proc>>
    BY <1>1, <1>5, UnshareMachine DEF Unshare!ForkCommand
  <2>2. CASE EndsAs("parent", Exited(1)) /\ UNCHANGED ns
    BY <1>1, <2>1, <2>2 DEF UnshareInv, EndsAs
  <2>3. CASE /\ Forks(IF "mount" \in flags THEN "mount" ELSE "exec", "wait")
             /\ ns' = [ns EXCEPT !["child"] = ns["parent"] \cup {"pid"}]
    <3>1. /\ ns' \in [Who -> SUBSET flags] /\ ns'["parent"] = ns["parent"]
          /\ ns'["child"] = flags
      BY <2>1, <2>3 DEF UnshareInv
    <3>2. fate["parent"] = Running
      BY <1>1, <1>5, UnshareMachine DEF Unshare!ForkCommand
    <3> QED
      BY <1>1, <2>1, <2>3, <3>1, <3>2 DEF UnshareInv, Forks
  <2> QED
    BY <1>1, <1>5, <2>2, <2>3, UnshareMachine DEF Unshare!ForkCommand
<1>6. CASE Unshare!WaitCommand
  <2> DEFINE f == fate["child"]
  <2>1. /\ at["parent"] = "wait" /\ UNCHANGED <<flags, shared, ns, proc>>
        /\ f # Running /\ f \in Fates
    BY <1>1, <1>6, UnshareMachine, UnshareFates
    DEF Unshare!WaitCommand, Unshare!ChildWaitable, Machine
  <2>2. CASE f = None \/ nochld
    <3>1. EndsAs("parent", Exited(1))
      BY <1>1, <1>6, <2>2, UnshareMachine, UnshareFates
      DEF Unshare!WaitCommand, Unshare!WaitFails
    <3> QED
      BY <1>1, <2>1, <2>2, <3>1 DEF UnshareInv, EndsAs
  <2>3. CASE f # None /\ ~nochld
    <3>1. Unshare!ExitStatus(f) \in 0..2
          /\ Exited(Unshare!ExitStatus(f)) = IF f[1] = "exited" THEN f ELSE Exited(1)
      BY <2>1, ExitedValues DEF Unshare!ExitStatus
    <3>2. Unshare!Exit("parent", Unshare!ExitStatus(f))
      BY <1>6, <2>3, UnshareFates DEF Unshare!WaitCommand, Unshare!WaitFails
    <3>3. EndsAs("parent", Exited(Unshare!ExitStatus(f)))
      BY <1>1, <3>1, <3>2, UnshareMachine
    <3>4. EndsAs("parent", IF f[1] = "exited" THEN f ELSE Exited(1))
      BY <3>1, <3>3
    <3> QED
      BY <1>1, <2>1, <2>3, <3>4 DEF UnshareInv, EndsAs
  <2> QED
    BY <2>2, <2>3
<1>7. CASE Unshare!MountProc
  <2>1. /\ Runs("child", "mount") /\ MovesTo("child", "exec")
        /\ UNCHANGED <<flags, shared, ns>>
    BY <1>1, <1>7, UnshareMachine DEF Unshare!MountProc
  <2>2. ns["child"] = flags /\ {"pid", "mount"} \subseteq flags
    BY <2>1 DEF UnshareInv
  <2>3. "host" \in proc' => shared /\ "user" \notin flags
    BY <1>7, <2>2 DEF Unshare!MountProc, UnshareInv
  <2> QED
    BY <1>1, <2>1, <2>2, <2>3 DEF UnshareInv, MovesTo
<1>8. ASSUME NEW w \in Who, Unshare!ExecCommand(w)
      PROVE  UnshareInv'
  <2>1. Runs(w, "exec") /\ UNCHANGED <<flags, shared, ns, proc>>
    BY <1>1, <1>8, UnshareMachine DEF Unshare!ExecCommand
  <2>2. MovesTo(w, "command") \/ EndsAs(w, Exited(1))
    BY <1>1, <1>8, UnshareMachine DEF Unshare!ExecCommand
  <2>3. CASE w = "parent"
    BY <1>1, <2>1, <2>2, <2>3 DEF UnshareInv, MovesTo, EndsAs
  <2>4. CASE w = "child"
    BY <1>1, <2>1, <2>2, <2>4 DEF UnshareInv, MovesTo, EndsAs
  <2> QED
    BY <2>3, <2>4
<1>9. QED
  BY <1>2, <1>3, <1>4, <1>5, <1>6, <1>7, <1>8 DEF Unshare!Program

\* The command ends or is killed, and so may the program be before it is one.
LEMMA UnshareCommand ==
  ASSUME UnshareInv, UNCHANGED Unshare!setting, Unshare!Command
  PROVE  UnshareInv'
<1> USE FateValues
    DEF Unshare!local, Who, Unshare!Who, Runs, Other, HasExited, NoChildLeft, CommandTold
<1>1. Machine /\ UNCHANGED <<nochld, flags, shared, ns, proc>>
  BY DEF UnshareInv, Unshare!setting, Unshare!Command, Unshare!CommandEnds
<1>2. PICK w \in Who : Unshare!CommandEnds(w) \/ Unshare!Kill(w)
  BY DEF Unshare!Command
<1>3. PICK f \in {Exited(0), Exited(2), Killed} : EndsAs(w, f)
  BY <1>1, <1>2, UnshareMachine DEF Unshare!CommandEnds
<1>4. fate[w] = Running /\ (f = Killed \/ at[w] = "command")
  BY <1>1, <1>2, <1>3, UnshareMachine DEF Unshare!CommandEnds, EndsAs
<1>5. CASE w = "parent"
  BY <1>1, <1>3, <1>4, <1>5 DEF UnshareInv, EndsAs
<1>6. CASE w = "child"
  BY <1>1, <1>3, <1>4, <1>6 DEF UnshareInv, EndsAs
<1>7. QED
  BY <1>5, <1>6

\* Every step of mini_unshare keeps its invariant.
LEMMA UnshareNext ==
  ASSUME UnshareInv, Unshare!Next
  PROVE  UnshareInv'
  BY UnshareProgram, UnshareCommand DEF Unshare!Next

-----------------------------------------------------------------------------
(***************************************************************************)
(* oom_score_demo: one line for each round of the loop, and what a read    *)
(* can have found while the child lives or has not been waited for.        *)
(***************************************************************************)
\* The line of round k is about the k-th child.
OwnRow(r, k) ==
    /\ r.child = k
    /\ ~nochld => "other" \notin {r.adj, r.score}
    /\ r.adj = "own" => r.score # "inherited"

RowValues == {"none", "other", "own", "inherited", "zero"}

OomInv ==
    /\ Machine
    /\ i \in Nat /\ rows \in Seq([child : Nat, adj : RowValues, score : RowValues])
    /\ adj \in {"own", "inherited"}
    /\ at["parent"] \in {"self", "fork", "adj", "score", "wait", "return"}
    /\ Len(rows) = IF at["parent"] = "wait" THEN i ELSE i - 1
    /\ fate["child"] = Running => at["parent"] \in {"adj", "score", "wait"}
    /\ at["parent"] = "score" =>
        /\ row \in RowValues
        /\ ~nochld => row # "other"
        /\ row = "own" => adj = "own"
    /\ \A k \in DOMAIN rows : OwnRow(rows[k], k)
    /\ NoChildLeft
    /\ at["child"] # "command"

\* The fates of oom_score_demo are those of the machine here.
LEMMA OomFates ==
  /\ Oom!None = None /\ Oom!Running = Running /\ Oom!Killed = Killed
  /\ \A c : Oom!Exited(c) = Exited(c)
  BY DEF Oom!None, Oom!Running, Oom!Killed, Oom!Exited, None, Running, Killed, Exited

\* What the steps of the machine mean in oom_score_demo.
LEMMA OomMachine ==
  ASSUME Machine, UNCHANGED Oom!setting
  PROVE  /\ \A w \in Who : \A l : Oom!Goto(w, l) => MovesTo(w, l)
         /\ \A w \in Who, c \in 0..2 : Oom!Exit(w, c) => EndsAs(w, Exited(c))
         /\ \A w \in Who : Oom!Kill(w) => EndsAs(w, Killed) /\ fate[w] = Running
         /\ \A f, n : Oom!Fork(f, n) => Forks(f, n)
         /\ \A w, l : Oom!Runs(w, l) <=> Runs(w, l)
         /\ \A w \in Who, c \in 0..2 : Oom!ExitNow(w, c) => EndsAs(w, Exited(c))
<1> USE DEF Oom!setting
<1>1. ASSUME NEW w \in Who, NEW l, Oom!Goto(w, l) PROVE MovesTo(w, l)
  BY <1>1, MoveEffect DEF Oom!Goto
<1>2. ASSUME NEW w \in Who, NEW c \in 0..2, Oom!Exit(w, c) PROVE EndsAs(w, Exited(c))
  BY <1>2, EndEffect, FateValues, OomFates DEF Oom!Exit
<1>3. ASSUME NEW w \in Who, Oom!Kill(w) PROVE EndsAs(w, Killed) /\ fate[w] = Running
  BY <1>3, EndEffect, FateValues, OomFates DEF Oom!Kill
<1>4. ASSUME NEW f, NEW n, Oom!Fork(f, n) PROVE Forks(f, n)
  BY <1>4, ForkEffect, OomFates DEF Oom!Fork
<1>5. ASSUME NEW w \in Who, NEW c \in 0..2, Oom!ExitNow(w, c) PROVE EndsAs(w, Exited(c))
  BY <1>5, EndEffect, FateValues, OomFates DEF Oom!ExitNow
<1>6. QED
  BY <1>1, <1>2, <1>3, <1>4, <1>5, OomFates DEF Runs, Oom!Runs

\* oom_score_demo starts with no child and no row.
LEMMA OomInit == Oom!Init => OomInv
<1> SUFFICES ASSUME Oom!Init PROVE OomInv
  OBVIOUS
<1>1. /\ at = [parent |-> "self", child |-> "none"]
      /\ fate = [parent |-> Running, child |-> None] /\ nochld \in BOOLEAN
  BY OomFates DEF Oom!Init, Oom!StdioInit
<1>2. Machine /\ at["parent"] = "self" /\ at["child"] = "none"
      /\ fate["parent"] = Running /\ fate["child"] = None
  BY <1>1, FateValues DEF Machine, Who
<1>3. i = 1 /\ adj = "inherited" /\ rows = <<>>
  BY DEF Oom!Init, Oom!Idle
<1>4. /\ rows \in Seq([child : Nat, adj : RowValues, score : RowValues])
      /\ Len(rows) = 0 /\ \A k \in DOMAIN rows : OwnRow(rows[k], k)
  BY <1>3
<1> QED
  BY <1>2, <1>3, <1>4, FateValues DEF OomInv, HasExited, NoChildLeft

\* A step that prints no line and starts no round.
LEMMA OomQuiet ==
  ASSUME OomInv, UNCHANGED <<nochld, i, rows>>, adj' \in {"own", "inherited"}, Machine',
         at["parent"]' \in {"self", "fork", "adj", "score", "wait", "return"},
         at["parent"]' = "wait" <=> at["parent"] = "wait",
         fate["child"]' = Running => at["parent"]' \in {"adj", "score", "wait"},
         at["parent"]' = "score" =>
            /\ row' \in RowValues
            /\ ~nochld => row' # "other"
            /\ row' = "own" => adj' = "own",
         NoChildLeft', at["child"]' # "command"
  PROVE  OomInv'
  BY DEF OomInv, OwnRow

\* The parent reads the score of the child it waits for.
LEMMA OomParent ==
  ASSUME OomInv, UNCHANGED Oom!setting, Oom!Parent
  PROVE  OomInv'
<1> USE FateValues DEF Oom!local, Who, Runs, Other, HasExited, NoChildLeft
<1>1. Machine /\ UNCHANGED nochld
  BY DEF OomInv, Oom!setting
<1>2. CASE Oom!ShowSelf
  <2>1. at["parent"] = "self" /\ MovesTo("parent", "fork") /\ UNCHANGED <<i, adj, row, rows>>
    BY <1>1, <1>2, OomMachine DEF Oom!ShowSelf
  <2> QED
    BY <1>1, <2>1, OomQuiet DEF OomInv, MovesTo
<1>3. CASE Oom!ForkChild
  <2>1. /\ Runs("parent", "fork") /\ adj' = "inherited" /\ UNCHANGED <<i, row, rows>>
    BY <1>1, <1>3, OomMachine DEF Oom!ForkChild
  <2>2. CASE Forks("set_oom_adj", "adj")
    BY <1>1, <2>1, <2>2, OomQuiet DEF OomInv, Forks
  <2>3. CASE /\ fate' = [fate EXCEPT !["child"] = None]
             /\ at' = [at EXCEPT !["parent"] = "adj"]
    <3>1. /\ Machine' /\ at'["parent"] = "adj" /\ at'["child"] = at["child"]
          /\ fate'["child"] = None /\ fate'["parent"] = fate["parent"]
      BY <1>1, <2>3 DEF Machine
    <3> QED
      BY <1>1, <2>1, <3>1, OomQuiet DEF OomInv
  <2> QED
    BY <1>1, <1>3, <2>2, <2>3, OomMachine, OomFates DEF Oom!ForkChild
<1>4. CASE Oom!ReadAdj
  <2>1. /\ at["parent"] = "adj" /\ MovesTo("parent", "score") /\ UNCHANGED <<i, adj, rows>>
        /\ row' \in Oom!Values("adj")
    BY <1>1, <1>4, OomMachine DEF Oom!ReadAdj
  <2>2. /\ row' \in RowValues
        /\ ~nochld => row' # "other"
        /\ row' = "own" => adj = "own"
    BY <2>1 DEF Oom!Values, RowValues, OomInv
  <2> QED
    BY <1>1, <2>1, <2>2, OomQuiet DEF OomInv, MovesTo
<1>5. CASE Oom!show_oom_info
  <2>1. /\ at["parent"] = "score" /\ MovesTo("parent", "wait") /\ UNCHANGED <<i, adj, row>>
    BY <1>1, <1>5, OomMachine DEF Oom!show_oom_info
  <2>2. PICK v \in Oom!Values("score") :
            rows' = Append(rows, [child |-> i, adj |-> row, score |-> v])
    BY <1>5 DEF Oom!show_oom_info
  <2>3. /\ v \in RowValues /\ row \in RowValues
        /\ ~nochld => v # "other"
        /\ row = "own" => v # "inherited"
    BY <2>1, <2>2, OomFates DEF Oom!Values, RowValues, OomInv
  <2> DEFINE r == [child |-> i, adj |-> row, score |-> v]
  <2>4. r \in [child : Nat, adj : RowValues, score : RowValues] /\ OwnRow(r, i)
    BY <2>1, <2>3 DEF OomInv, OwnRow
  <2>5. Len(rows) = i - 1 /\ i \in Nat
    BY <2>1 DEF OomInv
  <2> HIDE DEF r
  <2>6. /\ rows' \in Seq([child : Nat, adj : RowValues, score : RowValues])
        /\ Len(rows') = i /\ \A k \in DOMAIN rows' : OwnRow(rows'[k], k)
    <3>1. /\ rows' \in Seq([child : Nat, adj : RowValues, score : RowValues])
          /\ Len(rows') = i /\ DOMAIN rows' = 1..i
      BY <2>2, <2>4, <2>5 DEF OomInv, r
    <3>2. ASSUME NEW k \in 1..i
          PROVE  OwnRow(rows'[k], k)
      <4>1. CASE k = i
        BY <2>2, <2>4, <2>5, <4>1 DEF OomInv, r
      <4>2. CASE k # i
        <5>1. k \in DOMAIN rows /\ rows'[k] = rows[k]
          BY <2>2, <2>5, <4>2 DEF OomInv
        <5> QED
          BY <5>1 DEF OomInv
      <4> QED
        BY <4>1, <4>2
    <3> QED
      BY <3>1, <3>2
  <2>7. (\A k \in DOMAIN rows : OwnRow(rows[k], k))'
    BY <1>1, <2>6 DEF OwnRow
  <2> QED
    BY <1>1, <2>1, <2>5, <2>6, <2>7 DEF OomInv, MovesTo
<1>6. CASE Oom!WaitChild
  <2>1. /\ at["parent"] = "wait" /\ MovesTo("parent", "fork") /\ fate["child"] # Running
        /\ i' = i + 1 /\ UNCHANGED <<adj, row, rows>>
    BY <1>1, <1>6, OomMachine, OomFates DEF Oom!WaitChild, Oom!ChildWaitable
  <2> QED
    BY <1>1, <2>1 DEF OomInv, OwnRow, MovesTo
<1>7. CASE Oom!ShowTop
  <2>1. at["parent"] = "fork" /\ MovesTo("parent", "return") /\ UNCHANGED <<i, adj, row, rows>>
    BY <1>1, <1>7, OomMachine DEF Oom!ShowTop
  <2> QED
    BY <1>1, <2>1, OomQuiet DEF OomInv, MovesTo
<1>8. CASE Oom!Return
  <2>1. /\ at["parent"] = "return" /\ EndsAs("parent", Exited(0))
        /\ UNCHANGED <<i, adj, row, rows>>
    BY <1>1, <1>8, OomMachine DEF Oom!Return
  <2> QED
    BY <1>1, <2>1, OomQuiet DEF OomInv, EndsAs
<1>9. QED
  BY <1>2, <1>3, <1>4, <1>5, <1>6, <1>7, <1>8 DEF Oom!Parent

\* A child that ends keeps its oom_score_adj.
LEMMA OomOthers ==
  ASSUME OomInv, UNCHANGED Oom!setting, Oom!Child \/ Oom!Killer
  PROVE  OomInv'
<1> USE FateValues DEF Oom!local, Who, Oom!Who, Runs, Other, HasExited, NoChildLeft
<1>1. Machine /\ UNCHANGED nochld
  BY DEF OomInv, Oom!setting
<1>2. ASSUME NEW w \in Who, NEW f \in {Exited(0), Killed}, EndsAs(w, f), fate[w] = Running,
             w = "parent" => f = Killed, UNCHANGED <<i, adj, row, rows>>
      PROVE  OomInv'
  <2>1. CASE w = "parent"
    BY <1>1, <1>2, <2>1, OomQuiet DEF OomInv, EndsAs
  <2>2. CASE w = "child"
    BY <1>1, <1>2, <2>2, OomQuiet DEF OomInv, EndsAs
  <2> QED
    BY <2>1, <2>2
<1>3. CASE Oom!set_oom_adj
  <2>1. /\ fate["child"] = Running /\ MovesTo("child", "_exit") /\ adj' \in {"own", adj}
        /\ UNCHANGED <<i, row, rows>>
    BY <1>1, <1>3, OomMachine DEF Oom!set_oom_adj
  <2> QED
    BY <1>1, <2>1, OomQuiet DEF OomInv, MovesTo
<1>4. CASE Oom!ChildExit
  <2>1. /\ fate["child"] = Running /\ EndsAs("child", Exited(0))
        /\ UNCHANGED <<i, adj, row, rows>>
    BY <1>1, <1>4, OomMachine DEF Oom!ChildExit
  <2> QED
    BY <1>2, <2>1
<1>5. CASE Oom!Killer
  <2>1. UNCHANGED <<i, adj, row, rows>> /\ \E w \in Who : Oom!Kill(w)
    BY <1>5 DEF Oom!Killer
  <2>2. PICK w \in Who : EndsAs(w, Killed) /\ fate[w] = Running
    BY <1>1, <2>1, OomMachine
  <2> QED
    BY <1>2, <2>1, <2>2
<1>6. QED
  BY <1>3, <1>4, <1>5 DEF Oom!Child

\* Every step of oom_score_demo keeps its invariant.
LEMMA OomNext ==
  ASSUME OomInv, Oom!Next
  PROVE  OomInv'
  BY OomParent, OomOthers DEF Oom!Next

-----------------------------------------------------------------------------
(***************************************************************************)
(* All five: one of them runs, the others' variables stay as they are.     *)
(***************************************************************************)
DemosInv ==
    /\ prog \in {"cgroup", "clone", "unshare", "oom", "tracer"}
    /\ TracerInv
    /\ IF prog = "cgroup" THEN CgroupInv ELSE charge = 0
    /\ prog = "clone" => CloneInv
    /\ IF prog = "unshare" THEN UnshareInv ELSE flags = {} /\ proc = {} /\ ns["parent"] = {}
    /\ prog # "unshare" => at["child"] # "command"
    /\ prog = "oom" => OomInv

\* One of the programs starts, the others are never run.
LEMMA DemosInit == Init => DemosInv
<1> SUFFICES ASSUME Init PROVE DemosInv
  OBVIOUS
<1>1. TracerInv
  <2>1. nochld \in BOOLEAN
    BY DEF Init, Unused, StdioInit, Cgroup!Init, Clone!Init, Unshare!Init, Oom!Init,
           Cgroup!StdioInit, Clone!StdioInit, Unshare!StdioInit, Oom!StdioInit
  <2> QED
    BY <2>1, TracerInit DEF Init
<1>2. IF prog = "cgroup" THEN CgroupInv ELSE charge = 0
  BY CgroupInit DEF Init, Cgroup!Idle
<1>3. prog = "clone" => CloneInv
  BY CloneInit DEF Init
<1>4. IF prog = "unshare" THEN UnshareInv ELSE flags = {} /\ proc = {} /\ ns["parent"] = {}
  BY UnshareInit DEF Init, Unshare!Idle, Unshare!Who
<1>5. prog = "oom" => OomInv
  BY OomInit DEF Init
<1>6. prog = "tracer" => at["child"] # "command"
  BY DEF Init, Unused, StdioInit
<1>7. prog # "unshare" => at["child"] # "command"
  BY <1>2, <1>3, <1>5, <1>6 DEF Init, CgroupInv, CloneInv, OomInv
<1>8. QED
  BY <1>1, <1>2, <1>3, <1>4, <1>5, <1>7 DEF Init, DemosInv

\* What a demo's invariant is about changes only when that demo runs.
LEMMA TracerKept ==
  ASSUME TracerInv, UNCHANGED <<nochld, tracer>>
  PROVE  TracerInv'
  BY DEF tracer, TracerInv, Untraced, Traced, TracerTypes, InStep, OneBehind, NoGarbage,
         GarbageLast

\* A step of one program leaves what is true of the others.
LEMMA DemoKept ==
  ASSUME UNCHANGED vars
  PROVE  /\ CgroupInv => CgroupInv'
         /\ CloneInv => CloneInv'
         /\ UnshareInv => UnshareInv'
         /\ OomInv => OomInv'
<1>1. Machine => Machine'
  BY DEF vars, machine, Machine
<1> USE <1>1 DEF vars, machine, Runs, HasExited, NoChildLeft
<1>2. CgroupInv => CgroupInv'
  BY DEF CgroupInv, cgroup
<1>3. CloneInv => CloneInv'
  BY DEF CloneInv, clone
<1>4. UnshareInv => UnshareInv'
  BY DEF UnshareInv, CommandTold, unshare
<1>5. OomInv => OomInv'
  BY DEF OomInv, OwnRow, oom
<1>6. QED
  BY <1>2, <1>3, <1>4, <1>5

\* Every step of every program keeps the invariant.
LEMMA DemosStep == DemosInv /\ [Next]_vars => DemosInv'
<1> SUFFICES ASSUME DemosInv, [Next]_vars PROVE DemosInv'
  OBVIOUS
<1> USE DEF DemosInv
<1>1. CASE CgroupStep /\ UNCHANGED prog
  <2>1. CgroupInv' /\ prog' = "cgroup"
    BY <1>1, CgroupNext DEF CgroupStep
  <2>2. TracerInv' /\ UNCHANGED <<flags, proc, ns>>
    BY <1>1, TracerKept DEF CgroupStep, unshare, Cgroup!Next, Cgroup!setting
  <2> QED
    BY <1>1, <2>1, <2>2 DEF CgroupInv
<1>2. CASE CloneStep /\ UNCHANGED prog
  <2>1. CloneInv' /\ prog' = "clone"
    BY <1>2, CloneNext DEF CloneStep
  <2>2. TracerInv' /\ UNCHANGED <<flags, proc, ns, charge>>
    BY <1>2, TracerKept DEF CloneStep, unshare, cgroup, Clone!Next, Clone!setting
  <2> QED
    BY <1>2, <2>1, <2>2 DEF CloneInv
<1>3. CASE UnshareStep /\ UNCHANGED prog
  <2>1. UnshareInv' /\ prog' = "unshare"
    BY <1>3, UnshareNext DEF UnshareStep
  <2>2. TracerInv' /\ UNCHANGED charge
    BY <1>3, TracerKept DEF UnshareStep, cgroup, Unshare!Next, Unshare!setting
  <2> QED
    BY <1>3, <2>1, <2>2
<1>4. CASE OomStep /\ UNCHANGED prog
  <2>1. OomInv' /\ prog' = "oom"
    BY <1>4, OomNext DEF OomStep
  <2>2. TracerInv' /\ UNCHANGED <<flags, proc, ns, charge>>
    BY <1>4, TracerKept DEF OomStep, unshare, cgroup, Oom!Next, Oom!setting
  <2> QED
    BY <1>4, <2>1, <2>2 DEF OomInv
<1>5. CASE TracerStep /\ UNCHANGED prog
  <2>1. TracerInv' /\ prog' = "tracer"
    BY <1>5, TracerNext DEF TracerStep
  <2>2. UNCHANGED <<flags, proc, ns, charge, at>>
    BY <1>5 DEF TracerStep, unshare, cgroup, machine
  <2> QED
    BY <1>5, <2>1, <2>2
<1>6. CASE UNCHANGED vars
  <2>1. UNCHANGED <<prog, flags, proc, ns, charge, at>> /\ TracerInv'
    BY <1>6, TracerKept DEF vars, unshare, cgroup, machine
  <2> QED
    BY <1>6, <2>1, DemoKept
<1>7. QED
  BY <1>1, <1>2, <1>3, <1>4, <1>5, <1>6 DEF Next

\* What each of the five programs relies on, at every step and whoever is killed.
THEOREM DemosInvariant == Spec => []DemosInv
  BY DemosInit, DemosStep, PTL DEF Spec

-----------------------------------------------------------------------------
(***************************************************************************)
(* cgroup_demo: for every limit and number of allocations, the child holds *)
(* no memory outside its cgroup or past the limit, although its parent     *)
(* sets the limit and an earlier run may remove the cgroup under it.       *)
(***************************************************************************)
THEOREM DemoContained == Spec => []Contained
<1>1. DemosInv => Contained
  BY DEF DemosInv, CgroupInv, Contained, Cgroup!Contained
<1>2. QED
  BY <1>1, DemosInvariant, PTL

(***************************************************************************)
(* cgroup_demo: a run that ends with 0 has told its child's fate and has   *)
(* removed the cgroup, unless an earlier run was in it.                    *)
(***************************************************************************)
THEOREM DemoNothingLeft == Spec => []NothingLeft
<1>1. ASSUME DemosInv, prog = "cgroup"
      PROVE  Cgroup!NothingLeft
  <2>1. CgroupInv
    BY <1>1 DEF DemosInv
  <2>2. /\ fate["parent"] = Exited(0) => (made => other # "none") /\ verdict = fate["child"]
        /\ NoChildLeft
    BY <2>1 DEF CgroupInv
  <2> QED
    BY <2>2, CgroupFates
    DEF Cgroup!NothingLeft, Cgroup!NoChildLeft, Cgroup!HasExited, NoChildLeft, HasExited
<1>2. DemosInv => NothingLeft
  BY <1>1 DEF NothingLeft
<1>3. QED
  BY <1>2, DemosInvariant, PTL

(***************************************************************************)
(* clone_demo and mini_unshare: the parent outlives the child and tells    *)
(* how it ended, whatever the order of their steps and whoever is killed.  *)
(***************************************************************************)
THEOREM DemoFatesTold == Spec => []FatesTold
<1>1. ASSUME DemosInv, prog = "clone"
      PROVE  Clone!CloneSeenAndReaped
  <2>1. CloneInv
    BY <1>1 DEF DemosInv
  <2> QED
    BY <2>1, CloneFates
    DEF CloneInv, Clone!CloneSeenAndReaped, Clone!NoChildLeft, Clone!HasExited, NoChildLeft,
        HasExited
<1>2. ASSUME DemosInv, prog = "unshare"
      PROVE  Unshare!EndsAsCommand
  <2>1. CommandTold /\ NoChildLeft
    BY <1>2 DEF DemosInv, UnshareInv
  <2> QED
    BY <2>1, UnshareFates
    DEF CommandTold, Unshare!EndsAsCommand, Unshare!NoChildLeft, Unshare!HasExited,
        NoChildLeft, HasExited
<1>3. DemosInv => FatesTold
  BY <1>1, <1>2 DEF FatesTold
<1>4. QED
  BY <1>3, DemosInvariant, PTL

(***************************************************************************)
(* mini_unshare: for every set of namespaces, the command is in those      *)
(* asked for and in no other new one, and a new /proc reaches the host     *)
(* only through shared mounts of the host's own user namespace.            *)
(***************************************************************************)
THEOREM DemoCommandIsIsolated == Spec => []CommandIsIsolated
<1>1. ASSUME DemosInv
      PROVE  Unshare!CommandIsIsolated
  <2>1. CASE prog = "unshare"
    <3>1. UnshareInv
      BY <1>1, <2>1 DEF DemosInv
    <3>2. Runs("parent", "command") => ns["parent"] = flags /\ "pid" \notin flags
      BY <3>1 DEF UnshareInv, Runs
    <3>3. Runs("child", "command") => ns["child"] = flags /\ "pid" \in flags
      BY <3>1, FateValues DEF UnshareInv, Runs
    <3>4. /\ proc # {} => {"pid", "mount"} \subseteq flags
          /\ "host" \in proc => shared /\ "user" \notin flags
      BY <3>1 DEF UnshareInv
    <3> QED
      BY <3>2, <3>3, <3>4
      DEF Unshare!CommandIsIsolated, Unshare!Who, Unshare!Runs, Runs, Unshare!Running, Running
  <2>2. CASE prog # "unshare"
    <3>1. flags = {} /\ proc = {} /\ ns["parent"] = {} /\ at["child"] # "command"
      BY <1>1, <2>2 DEF DemosInv
    <3> QED
      BY <3>1 DEF Unshare!CommandIsIsolated, Unshare!Who, Unshare!Runs
  <2> QED
    BY <2>1, <2>2
<1>2. DemosInv => CommandIsIsolated
  BY <1>1 DEF CommandIsIsolated
<1>3. QED
  BY <1>2, DemosInvariant, PTL

(***************************************************************************)
(* oom_score_demo: for every number of children, a line is about its own   *)
(* child, and no score read after the child's own value is older than it.  *)
(***************************************************************************)
THEOREM DemoRowsOfOwnChildren == Spec => []RowsOfOwnChildren
<1>1. ASSUME DemosInv, prog = "oom"
      PROVE  Oom!RowsOfOwnChildren
  <2>1. (\A k \in DOMAIN rows : OwnRow(rows[k], k)) /\ NoChildLeft
    BY <1>1 DEF DemosInv, OomInv
  <2> QED
    BY <2>1, OomFates
    DEF OwnRow, Oom!RowsOfOwnChildren, Oom!NoChildLeft, Oom!HasExited, NoChildLeft, HasExited
<1>2. DemosInv => RowsOfOwnChildren
  BY <1>1 DEF RowsOfOwnChildren
<1>3. QED
  BY <1>2, DemosInvariant, PTL

(***************************************************************************)
(* syscall_tracer: for every number of system calls and of signals, and a  *)
(* SIGKILL at any moment, the tracer takes its tracee to be in a system    *)
(* call exactly when it is, and counts the calls it has entered.           *)
(***************************************************************************)
THEOREM DemoTracerInStep == Spec => []TracerInStep
<1>1. DemosInv => TracerInStep
  BY TracerInvInStep DEF DemosInv, TracerInStep
<1>2. QED
  BY <1>1, DemosInvariant, PTL

-----------------------------------------------------------------------------
(***************************************************************************)
(* The lines the four forking demos print: where each is, in a buffer,     *)
(* written out once or twice, or lost.                                     *)
(***************************************************************************)
\* How often a line is in a buffer, or in what has been written.
Times(s, l) == Cardinality({k \in DOMAIN s : s[k] = l})

\* A process whose buffer is still there, and one that has written it out.
Holds(w) == fate[w] = Running /\ at[w] # "command"
Flushed(w) ==
    /\ HasExited(w) /\ at[w] # "command"
    /\ w = "child" => prog \notin {"clone", "oom"}

\* What is in its buffer: the lines it has printed, and those it was forked with.
Own(w) == {l \in said : l[1] = w}
Held(w) == Own(w) \cup (IF w = "child" THEN copied ELSE {})

\* 1 or 0
OneIf(b) == IF b THEN 1 ELSE 0

\* How often a line has come out by way of a process's buffer.
Adds(w, l) == OneIf(Flushed(w) /\ l \in Held(w))

\* Each line is in the buffers it should be in, once, and has left those it should have.
StdoutInv ==
    /\ \A l \in said : l[1] \in Who
    /\ buf = [w \in Who |-> buf[w]] /\ \A w \in Who : buf[w] \in Seq(said)
    /\ out \in Seq(said)
    /\ copied \subseteq Own("parent") /\ (tty => copied = {})
    /\ fate["child"] = None \/ prog \in {"unshare", "oom"} => Own("child") = {}
    /\ \A w \in Who : \A l : Times(buf[w], l) = OneIf(~tty /\ Holds(w) /\ l \in Held(w))
    /\ \A l : Times(out, l) = IF tty THEN OneIf(l \in said)
                              ELSE Adds("parent", l) + Adds("child", l)

\* The places of a process that goes through each only once.
Ordered(order, w) ==
    /\ at[w] \in DOMAIN order
    /\ \A l \in Own(w) : l[2] \in DOMAIN order /\ order[l[2]] < order[at[w]]

\* cgroup_demo's parent
CgroupOrder ==
    [p \in {"banner", "mkdir", "memory.max", "pids.max", "announce", "fork", "waiting",
            "wait", "stats", "rmdir", "return"} |->
        CASE p = "banner" -> 1 [] p = "mkdir" -> 2 [] p = "memory.max" -> 3
          [] p = "pids.max" -> 4 [] p = "announce" -> 5 [] p = "fork" -> 6
          [] p = "waiting" -> 7 [] p = "wait" -> 8 [] p = "stats" -> 9
          [] p = "rmdir" -> 10 [] p = "return" -> 11]

\* clone_demo's two processes
CloneOrder ==
    [p \in {"malloc", "clone", "notice", "look", "wait", "return",
            "none", "child_fn", "sethostname", "sleep"} |->
        CASE p \in {"malloc", "child_fn", "none"} -> 1 [] p \in {"clone", "sethostname"} -> 2
          [] p \in {"notice", "sleep"} -> 3 [] p = "look" -> 4 [] p = "wait" -> 5
          [] p = "return" -> 6]

\* mini_unshare's first process
UnshareOrder ==
    [p \in {"before", "unshare", "after", "fork", "exec", "wait", "command"} |->
        CASE p = "before" -> 1 [] p = "unshare" -> 2 [] p = "after" -> 3
          [] p \in {"fork", "exec"} -> 4 [] p \in {"wait", "command"} -> 5]

\* The loops print a line of their own in each round.
CgroupPrinted ==
    /\ Ordered(CgroupOrder, "parent")
    /\ step \in Nat
    /\ at["child"] = "join" => Own("child") = {}
    /\ \A l \in Own("child") :
        /\ l[2] \in {"join", "malloc", "memset"}
        /\ l[2] = "malloc" => at["child"] = "exit"
        /\ l[2] = "memset" => l[3] \in Nat /\ l[3] < step

\* No loops here.
ClonePrinted == \A w \in Who : Ordered(CloneOrder, w)

\* Nor here, and the parent prints nothing after the fork.
UnsharePrinted ==
    /\ Ordered(UnshareOrder, "parent")
    /\ fate["child"] # None /\ ~tty => copied = said

\* One line before the loop, one in each round of it, and one after it.
OomPrinted ==
    \A l \in said :
        /\ l[2] \in {"self", "score", "fork"} /\ at["parent"] # "self"
        /\ l[2] = "fork" => at["parent"] = "return"
        /\ l[2] = "score" =>
            l[3] \in Nat /\ (l[3] < i \/ (l[3] = i /\ at["parent"] = "wait"))

\* Stdout of the demo that runs, and where its lines were printed.
LinesInv ==
    /\ prog # "tracer" => StdoutInv
    /\ prog = "cgroup" => CgroupPrinted
    /\ prog = "clone" => ClonePrinted
    /\ prog = "unshare" => UnsharePrinted
    /\ prog = "oom" => OomPrinted

-----------------------------------------------------------------------------
\* A line's occurrences are finitely many, and one more or less is seen.
LEMMA TimesFacts ==
  ASSUME NEW S, NEW s \in Seq(S), NEW l
  PROVE  /\ Times(s, l) \in Nat
         /\ Times(s, l) = 0 <=> \A k \in DOMAIN s : s[k] # l
         /\ IsFiniteSet({k \in DOMAIN s : s[k] = l})
<1> DEFINE D == {k \in DOMAIN s : s[k] = l}
<1>1. Len(s) \in Nat /\ DOMAIN s = 1..Len(s)
  OBVIOUS
<1>2. IsFiniteSet(1..Len(s)) /\ D \in SUBSET (1..Len(s))
  BY <1>1, FS_Interval
<1>3. IsFiniteSet(D)
  BY <1>2, FS_Subset
<1>4. Cardinality(D) \in Nat /\ (Cardinality(D) = 0 <=> D = {})
  BY <1>3, FS_CardinalityType, FS_EmptySet
<1> QED
  BY <1>3, <1>4 DEF Times

\* There is nothing in an empty buffer.
LEMMA TimesEmpty == \A l : Times(<<>>, l) = 0
<1> SUFFICES ASSUME NEW l PROVE Times(<<>>, l) = 0
  OBVIOUS
<1>1. {k \in DOMAIN <<>> : <<>>[k] = l} = {}
  OBVIOUS
<1> QED
  BY <1>1, FS_EmptySet DEF Times

\* What is written after something else comes out besides that.
LEMMA TimesConcat ==
  ASSUME NEW S, NEW s \in Seq(S), NEW t \in Seq(S), NEW l
  PROVE  Times(s \o t, l) = Times(s, l) + Times(t, l)
<1> DEFINE D == {k \in DOMAIN s : s[k] = l}
           E == {k \in DOMAIN t : t[k] = l}
           F == {k \in (Len(s) + 1)..(Len(s) + Len(t)) : (s \o t)[k] = l}
           shift == [k \in E |-> k + Len(s)]
<1>1. /\ Len(s) \in Nat /\ Len(t) \in Nat
      /\ DOMAIN s = 1..Len(s) /\ DOMAIN t = 1..Len(t)
      /\ DOMAIN (s \o t) = 1..(Len(s) + Len(t))
  OBVIOUS
<1>2. /\ \A k \in 1..Len(s) : (s \o t)[k] = s[k]
      /\ \A k \in 1..Len(t) : (s \o t)[k + Len(s)] = t[k]
  BY <1>1
<1>3. IsFiniteSet(D) /\ IsFiniteSet(E)
  BY TimesFacts
<1>4. shift \in Bijection(E, F)
  <2>1. shift \in [E -> F]
    BY <1>1, <1>2
  <2>2. \A a, b \in E : shift[a] = shift[b] => a = b
    BY <1>1
  <2>3. ASSUME NEW y \in F PROVE \E x \in E : shift[x] = y
    <3>1. y - Len(s) \in 1..Len(t) /\ (y - Len(s)) + Len(s) = y
      BY <1>1
    <3>2. y - Len(s) \in E
      BY <1>1, <1>2, <3>1
    <3> QED
      BY <3>1, <3>2
  <2> QED
    BY <2>1, <2>2, <2>3 DEF Bijection, Injection, Surjection, IsInjective
<1>5. IsFiniteSet(F) /\ Cardinality(F) = Cardinality(E)
  BY <1>3, <1>4, FS_Bijection DEF ExistsBijection
<1>6. D \cap F = {} /\ {k \in DOMAIN (s \o t) : (s \o t)[k] = l} = D \cup F
  BY <1>1, <1>2
<1>7. /\ Times(s, l) = Cardinality(D) /\ Times(t, l) = Cardinality(E)
      /\ Times(s \o t, l) = Cardinality(D \cup F)
  BY <1>6 DEF Times
<1> HIDE DEF D, E, F, shift
<1>8. Cardinality(D) \in Nat /\ Cardinality(E) \in Nat
  BY <1>3, FS_CardinalityType
<1>9. Cardinality(D \cup F) = Cardinality(D) + Cardinality(F) - Cardinality(D \cap F)
  BY <1>3, <1>5, FS_Union
<1>10. Cardinality(D \cap F) = 0
  BY <1>6, FS_EmptySet
<1> QED
  BY <1>5, <1>7, <1>8, <1>9, <1>10

\* One line more is that line once more.
LEMMA TimesAppend ==
  ASSUME NEW S, NEW s \in Seq(S), NEW x \in S, NEW l
  PROVE  Times(Append(s, x), l) = Times(s, l) + OneIf(x = l)
<1> DEFINE D == {k \in DOMAIN s : s[k] = l}
           n == Len(s) + 1
<1>1. /\ Len(s) \in Nat /\ DOMAIN s = 1..Len(s) /\ DOMAIN Append(s, x) = 1..n
      /\ \A k \in 1..Len(s) : Append(s, x)[k] = s[k]
      /\ Append(s, x)[n] = x
  OBVIOUS
<1>2. IsFiniteSet(D) /\ Cardinality(D) \in Nat
  BY TimesFacts DEF Times
<1>3. n \notin D /\ Times(s, l) = Cardinality(D)
  BY <1>1 DEF Times
<1>4. CASE x = l
  <2>1. {k \in DOMAIN Append(s, x) : Append(s, x)[k] = l} = D \cup {n}
    BY <1>1, <1>4
  <2>2. Cardinality(D \cup {n}) = Cardinality(D) + 1
    BY <1>2, <1>3, FS_AddElement
  <2>3. Times(Append(s, x), l) = Cardinality(D \cup {n})
    BY <2>1 DEF Times
  <2> QED
    BY <1>3, <1>4, <2>2, <2>3 DEF OneIf
<1>5. CASE x # l
  <2>1. {k \in DOMAIN Append(s, x) : Append(s, x)[k] = l} = D
    BY <1>1, <1>5
  <2>2. Times(Append(s, x), l) = Cardinality(D) /\ OneIf(x = l) = 0
    BY <1>5, <2>1 DEF Times, OneIf
  <2> QED
    BY <1>2, <1>3, <2>2
<1> QED
  BY <1>4, <1>5

\* A buffer of lines printed so far is one of those printed then.
LEMMA SeqGrows == \A S, T : \A s \in Seq(S) : S \subseteq T => s \in Seq(T)
  OBVIOUS

-----------------------------------------------------------------------------
\* A process prints a line that it has not printed before, and goes on.
LEMMA PrintStdout ==
  ASSUME StdoutInv, NEW w \in Who, NEW n, NEW next, printf(w, n), MovesTo(w, next),
         Holds(w), next # "command", Line(w, n) \notin said,
         w = "child" => prog \notin {"unshare", "oom"},
         UNCHANGED <<tty, copied, prog>>
  PROVE  StdoutInv'
<1> DEFINE x == Line(w, n)
<1>1. /\ x[1] = w /\ said' = said \cup {x} /\ x \notin said
      /\ IF tty THEN out' = Append(out, x) /\ buf' = buf
                ELSE buf' = [buf EXCEPT ![w] = Append(@, x)] /\ out' = out
  BY DEF printf, Line
<1> HIDE DEF x
<1>2. /\ Own(w)' = Own(w) \cup {x} /\ \A v \in Who : v # w => Own(v)' = Own(v)
      /\ copied \subseteq said
  BY <1>1 DEF Own, StdoutInv
<1>3. /\ Held(w)' = Held(w) \cup {x} /\ \A v \in Who : v # w => Held(v)' = Held(v)
      /\ \A v \in Who : x \notin Held(v)
  BY <1>1, <1>2 DEF Held, Own
<1>4. /\ \A v \in Who : (Holds(v)' <=> Holds(v)) /\ (Flushed(v)' <=> Flushed(v))
      /\ ~Flushed(w)
  BY FateValues DEF MovesTo, Other, Holds, Flushed, HasExited, Who
<1>5. /\ \A l \in said' : l[1] \in Who
      /\ buf' = [v \in Who |-> buf'[v]] /\ \A v \in Who : buf'[v] \in Seq(said')
      /\ out' \in Seq(said')
  <2>1. said \subseteq said' /\ x \in said'
    BY <1>1
  <2>2. out \in Seq(said') /\ \A v \in Who : buf[v] \in Seq(said')
    BY <2>1, SeqGrows DEF StdoutInv
  <2>3. \A l \in said' : l[1] \in Who
    BY <1>1 DEF StdoutInv
  <2>4. buf = [v \in Who |-> buf[v]]
    BY DEF StdoutInv
  <2>5. CASE tty
    <3>1. out' = Append(out, x) /\ buf' = buf
      BY <1>1, <2>5
    <3>2. Append(out, x) \in Seq(said')
      BY <2>1, <2>2
    <3> QED
      BY <2>2, <2>3, <2>4, <3>1, <3>2
  <2>6. CASE ~tty
    <3>1. buf' = [buf EXCEPT ![w] = Append(@, x)] /\ out' = out
      BY <1>1, <2>6
    <3>2. Append(buf[w], x) \in Seq(said')
      BY <2>1, <2>2
    <3> QED
      BY <2>2, <2>3, <2>4, <3>1, <3>2
  <2> QED
    BY <2>5, <2>6
<1>6. /\ copied' \subseteq Own("parent")' /\ (tty' => copied' = {})
      /\ fate'["child"] = None \/ prog' \in {"unshare", "oom"} => Own("child")' = {}
  <2>1. w = "parent" \/ (w = "child" /\ fate'["child"] # None /\ prog' \notin {"unshare", "oom"})
    BY FateValues DEF Holds, MovesTo, Who
  <2> QED
    BY <1>2, <2>1 DEF StdoutInv, MovesTo, Who
<1>7. ASSUME NEW v \in Who, NEW l
      PROVE  Times(buf'[v], l) = OneIf(~tty' /\ Holds(v)' /\ l \in Held(v)')
  <2>1. Times(buf[v], l) = OneIf(~tty /\ Holds(v) /\ l \in Held(v))
    BY DEF StdoutInv
  <2>2. CASE tty \/ v # w
    <3>1. buf'[v] = buf[v]
      BY <1>1, <2>2 DEF StdoutInv
    <3> QED
      BY <1>3, <1>4, <2>1, <2>2, <3>1 DEF OneIf
  <2>3. CASE ~tty /\ v = w
    <3>1. buf'[v] = Append(buf[v], x) /\ buf[v] \in Seq(said') /\ x \in said'
      BY <1>1, <2>3, SeqGrows DEF StdoutInv
    <3>2. Times(buf'[v], l) = Times(buf[v], l) + OneIf(x = l)
      BY <3>1, TimesAppend
    <3> QED
      BY <1>3, <1>4, <2>1, <2>3, <3>2 DEF OneIf
  <2> QED
    BY <2>2, <2>3
<1>8. ASSUME NEW l
      PROVE  Times(out', l) = IF tty' THEN OneIf(l \in said')
                              ELSE Adds("parent", l)' + Adds("child", l)'
  <2>1. Times(out, l) = IF tty THEN OneIf(l \in said)
                        ELSE Adds("parent", l) + Adds("child", l)
    BY DEF StdoutInv
  <2>2. CASE tty
    <3>1. out' = Append(out, x) /\ out \in Seq(said') /\ x \in said'
      BY <1>1, <2>2, SeqGrows DEF StdoutInv
    <3>2. Times(out', l) = Times(out, l) + OneIf(x = l)
      BY <3>1, TimesAppend
    <3> QED
      BY <1>1, <2>1, <2>2, <3>2 DEF OneIf
  <2>3. CASE ~tty
    <3>1. \A v \in Who : Adds(v, l)' = Adds(v, l)
      BY <1>3, <1>4 DEF Adds, OneIf
    <3> QED
      BY <1>1, <2>1, <2>3, <3>1 DEF Who
  <2> QED
    BY <2>2, <2>3
<1> QED
  BY <1>5, <1>6, <1>7, <1>8 DEF StdoutInv

\* Nothing is printed, and nobody begins, ends or becomes another program.
LEMMA QuietStdout ==
  ASSUME StdoutInv, Quiet, UNCHANGED <<tty, copied, prog>>,
         \A v \in Who : (Holds(v)' <=> Holds(v)) /\ (Flushed(v)' <=> Flushed(v)),
         fate["child"]' = None /\ fate["child"] # None => Own("child") = {}
  PROVE  StdoutInv'
<1>1. UNCHANGED <<out, buf, said>>
  BY DEF Quiet, stdio
<1>2. \A v \in Who : Own(v)' = Own(v) /\ Held(v)' = Held(v)
  BY <1>1 DEF Own, Held
<1>3. \A v \in Who : \A l : Adds(v, l)' = Adds(v, l)
  BY <1>2 DEF Adds, OneIf
<1>4. Who' = Who /\ "parent" \in Who /\ "child" \in Who
  BY DEF Who
<1>5. /\ copied' \subseteq Own("parent")' /\ (tty' => copied' = {})
      /\ fate["child"]' = None \/ prog' \in {"unshare", "oom"} => Own("child")' = {}
  BY <1>2, <1>4 DEF StdoutInv
<1>6. \A v \in Who : \A l :
          Times(buf'[v], l) = OneIf(~tty' /\ Holds(v)' /\ l \in Held(v)')
  BY <1>1, <1>2 DEF StdoutInv, OneIf
<1>7. \A l : Times(out', l) = IF tty' THEN OneIf(l \in said)'
                              ELSE Adds("parent", l)' + Adds("child", l)'
  BY <1>1, <1>3, <1>4 DEF StdoutInv, OneIf
<1> QED
  BY <1>1, <1>5, <1>6, <1>7 DEF StdoutInv

\* A process ends and writes out its buffer.
LEMMA ExitStdout ==
  ASSUME StdoutInv, NEW w \in Who, NEW c \in 0..2, Exit(w, c), EndsAs(w, Exited(c)),
         fate[w] = Running, w = "child" => prog \notin {"clone", "oom"},
         UNCHANGED <<tty, prog>>
  PROVE  StdoutInv'
<1>1. /\ out' = out \o buf[w] /\ buf' = [buf EXCEPT ![w] = <<>>]
      /\ UNCHANGED <<at, said, copied>>
  BY DEF Exit
<1>2. \A v \in Who : Own(v)' = Own(v) /\ Held(v)' = Held(v)
  BY <1>1 DEF Own, Held
<1>3. /\ ~Holds(w)' /\ ~Flushed(w) /\ (Flushed(w)' <=> Holds(w))
      /\ \A v \in Who : v # w => (Holds(v)' <=> Holds(v)) /\ (Flushed(v)' <=> Flushed(v))
  BY FateValues DEF EndsAs, Other, Holds, Flushed, HasExited, Who
<1>4. /\ buf' = [v \in Who |-> buf'[v]] /\ buf[w] \in Seq(said)
      /\ out' \in Seq(said) /\ \A v \in Who : buf'[v] \in Seq(said)
  BY <1>1 DEF StdoutInv
<1>5. fate["child"]' = None \/ prog' \in {"unshare", "oom"} => Own("child")' = {}
  BY <1>2, FateValues DEF EndsAs, Other, StdoutInv, Who
<1>6. ASSUME NEW v \in Who, NEW l
      PROVE  Times(buf'[v], l) = OneIf(~tty' /\ Holds(v)' /\ l \in Held(v)')
  <2>1. Times(buf[v], l) = OneIf(~tty /\ Holds(v) /\ l \in Held(v))
    BY DEF StdoutInv
  <2>2. buf'[v] = IF v = w THEN <<>> ELSE buf[v]
    BY <1>1 DEF StdoutInv
  <2> QED
    BY <1>2, <1>3, <2>1, <2>2, TimesEmpty DEF OneIf
<1>7. ASSUME NEW l
      PROVE  Times(out', l) = IF tty' THEN OneIf(l \in said')
                              ELSE Adds("parent", l)' + Adds("child", l)'
  <2>1. Times(out', l) = Times(out, l) + Times(buf[w], l)
    BY <1>1, <1>4, TimesConcat DEF StdoutInv
  <2>2. /\ Times(out, l) = IF tty THEN OneIf(l \in said)
                           ELSE Adds("parent", l) + Adds("child", l)
        /\ Times(buf[w], l) = OneIf(~tty /\ Holds(w) /\ l \in Held(w))
    BY DEF StdoutInv
  <2>3. /\ \A v \in Who : v # w => Adds(v, l)' = Adds(v, l)
        /\ Adds(w, l) = 0 /\ Adds(w, l)' = OneIf(Holds(w) /\ l \in Held(w))
        /\ \A v \in Who : Adds(v, l) \in Nat
    BY <1>2, <1>3 DEF Adds, OneIf
  <2>4. CASE tty
    BY <1>1, <2>1, <2>2, <2>4 DEF OneIf
  <2>5. CASE ~tty /\ w = "parent"
    BY <2>1, <2>2, <2>3, <2>5 DEF Who, OneIf
  <2>6. CASE ~tty /\ w = "child"
    BY <2>1, <2>2, <2>3, <2>6 DEF Who, OneIf
  <2> QED
    BY <2>4, <2>5, <2>6 DEF Who
<1> QED
  BY <1>1, <1>2, <1>4, <1>5, <1>6, <1>7 DEF StdoutInv, Who

\* A process ends, or becomes another program, and its buffer is lost.
LEMMA LostStdout ==
  ASSUME StdoutInv, NEW w \in Who, buf' = [buf EXCEPT ![w] = <<>>], ~Holds(w)',
         Flushed(w)' <=> Flushed(w),
         \A v \in Who : v # w => (Holds(v)' <=> Holds(v)) /\ (Flushed(v)' <=> Flushed(v)),
         fate["child"]' # None \/ fate["child"] = None,
         UNCHANGED <<tty, prog, out, said, copied>>
  PROVE  StdoutInv'
<1>1. \A v \in Who : Own(v)' = Own(v) /\ Held(v)' = Held(v)
  BY DEF Own, Held
<1>2. \A v \in Who : \A l : Adds(v, l)' = Adds(v, l)
  BY <1>1 DEF Adds, OneIf
<1>3. /\ buf' = [v \in Who |-> buf'[v]] /\ \A v \in Who : buf'[v] \in Seq(said)
  BY DEF StdoutInv
<1>4. fate["child"]' = None \/ prog' \in {"unshare", "oom"} => Own("child")' = {}
  BY <1>1 DEF StdoutInv, Who
<1>5. ASSUME NEW v \in Who, NEW l
      PROVE  Times(buf'[v], l) = OneIf(~tty' /\ Holds(v)' /\ l \in Held(v)')
  <2>1. Times(buf[v], l) = OneIf(~tty /\ Holds(v) /\ l \in Held(v))
    BY DEF StdoutInv
  <2>2. buf'[v] = IF v = w THEN <<>> ELSE buf[v]
    BY DEF StdoutInv
  <2> QED
    BY <1>1, <2>1, <2>2, TimesEmpty DEF OneIf
<1>6. \A l : Times(out, l)' = IF tty' THEN OneIf(l \in said)'
                              ELSE Adds("parent", l)' + Adds("child", l)'
  BY <1>2 DEF StdoutInv, Times, OneIf, Who
<1> QED
  BY <1>1, <1>3, <1>4, <1>5, <1>6 DEF StdoutInv, Who

\* The child starts with its parent's lines, and with none of its own.
LEMMA ForkStdout ==
  ASSUME StdoutInv, NEW first, NEW next, Fork(first, next), Forks(first, next),
         Holds("parent"), ~Flushed("child"), Own("child") = {},
         first # "command", next # "command", UNCHANGED <<tty, prog>>
  PROVE  StdoutInv' /\ (~tty => copied' = Own("parent"))
<1>1. /\ buf' = [buf EXCEPT !["child"] = buf["parent"]]
      /\ copied' = {buf["parent"][k] : k \in DOMAIN buf["parent"]}
      /\ UNCHANGED <<out, said>>
  BY DEF Fork
<1>2. "parent" \in Who /\ "child" \in Who
  BY DEF Who
<1>3. \A v \in Who : Own(v)' = Own(v)
  BY <1>1 DEF Own
<1>4. copied' = IF tty THEN {} ELSE Own("parent")
  <2>1. buf["parent"] \in Seq(said)
    BY <1>2 DEF StdoutInv
  <2>2. \A l : Times(buf["parent"], l) = 0 <=> l \notin copied'
    BY <1>1, <2>1, TimesFacts
  <2>3. \A l : Times(buf["parent"], l) = OneIf(~tty /\ l \in Own("parent"))
    BY <1>2 DEF StdoutInv, Held
  <2>4. \A l : l \in copied' <=> ~tty /\ l \in Own("parent")
    BY <2>2, <2>3 DEF OneIf
  <2> QED
    BY <2>4
<1>5. /\ Holds("parent")' /\ Holds("child")' /\ ~Flushed("parent") /\ ~Flushed("parent")'
      /\ ~Flushed("child")'
  BY FateValues DEF Forks, Holds, Flushed, HasExited
<1>6. Held("parent")' = Own("parent") /\ Held("parent") = Own("parent")
      /\ (~tty => Held("child")' = Own("parent"))
  BY <1>2, <1>3, <1>4 DEF Held
<1>7. /\ buf' = [v \in Who |-> buf'[v]] /\ \A v \in Who : buf'[v] \in Seq(said)
      /\ buf'["parent"] = buf["parent"] /\ buf'["child"] = buf["parent"]
  BY <1>1, <1>2 DEF StdoutInv
<1>8. ASSUME NEW v \in Who, NEW l
      PROVE  Times(buf'[v], l) = OneIf(~tty' /\ Holds(v)' /\ l \in Held(v)')
  <2>1. Times(buf["parent"], l) = OneIf(~tty /\ Holds("parent") /\ l \in Own("parent"))
    BY <1>2, <1>6 DEF StdoutInv
  <2>2. v = "parent" \/ v = "child"
    BY DEF Who
  <2> QED
    BY <1>5, <1>6, <1>7, <2>1, <2>2 DEF OneIf
<1>9. \A l : Times(out', l) = IF tty' THEN OneIf(l \in said')
                              ELSE Adds("parent", l)' + Adds("child", l)'
  <2>1. \A l : \A v \in Who : Adds(v, l) = 0 /\ Adds(v, l)' = 0
    BY <1>5 DEF Adds, OneIf, Who
  <2> QED
    BY <1>1, <1>2, <2>1 DEF StdoutInv, OneIf
<1>10. Own("child")' = {} /\ copied' \subseteq Own("parent")' /\ (tty' => copied' = {})
  BY <1>2, <1>3, <1>4
<1> QED
  BY <1>1, <1>4, <1>7, <1>8, <1>9, <1>10 DEF StdoutInv

\* SIGKILL, and the _exit of a child whose buffer is not written out.
LEMMA KillStdout ==
  ASSUME StdoutInv, NEW w \in Who, Kill(w), EndsAs(w, Killed), UNCHANGED <<tty, prog>>
  PROVE  StdoutInv'
<1>1. /\ fate[w] = Running /\ buf' = [buf EXCEPT ![w] = <<>>]
      /\ UNCHANGED <<at, out, said, copied>>
  BY DEF Kill
<1>2. /\ ~Holds(w)' /\ ~Flushed(w)' /\ ~Flushed(w)
      /\ \A v \in Who : v # w => (Holds(v)' <=> Holds(v)) /\ (Flushed(v)' <=> Flushed(v))
      /\ fate["child"]' # None \/ fate["child"] = None
  BY <1>1, FateValues DEF EndsAs, Other, Holds, Flushed, HasExited, Who
<1> QED
  BY <1>1, <1>2, LostStdout

\* The child of clone_demo or oom_score_demo ends, and its buffer is lost.
LEMMA ExitNowStdout ==
  ASSUME StdoutInv, NEW c \in 0..2, ExitNow("child", c), EndsAs("child", Exited(c)),
         fate["child"] = Running, prog \in {"clone", "oom"}, UNCHANGED <<tty, prog>>
  PROVE  StdoutInv'
<1>1. /\ buf' = [buf EXCEPT !["child"] = <<>>] /\ UNCHANGED <<at, out, said, copied>>
  BY DEF ExitNow
<1>2. /\ ~Holds("child")' /\ ~Flushed("child")' /\ ~Flushed("child")
      /\ \A v \in Who : v # "child" =>
            (Holds(v)' <=> Holds(v)) /\ (Flushed(v)' <=> Flushed(v))
      /\ fate["child"]' # None /\ "child" \in Who
  BY <1>1, FateValues DEF EndsAs, Other, Holds, Flushed, HasExited, Who
<1> QED
  BY <1>1, <1>2, LostStdout

\* A process goes on without printing.
LEMMA GotoStdout ==
  ASSUME StdoutInv, NEW w \in Who, NEW l, Quiet, MovesTo(w, l), at[w] # "command",
         l # "command", UNCHANGED <<tty, copied, prog>>
  PROVE  StdoutInv'
<1>1. /\ \A v \in Who : (Holds(v)' <=> Holds(v)) /\ (Flushed(v)' <=> Flushed(v))
      /\ fate' = fate
  BY DEF MovesTo, Other, Holds, Flushed, HasExited, Who
<1> QED
  BY <1>1, QuietStdout

\* What the steps of the machine do to the two processes.
LEMMA StdioEffect ==
  ASSUME Machine, UNCHANGED nochld
  PROVE  /\ \A w \in Who : \A l : Goto(w, l) => MovesTo(w, l) /\ copied' = copied
         /\ \A w \in Who, c \in 0..2 : Exit(w, c) => EndsAs(w, Exited(c))
         /\ \A w \in Who, c \in 0..2 : ExitNow(w, c) => EndsAs(w, Exited(c))
         /\ \A w \in Who : Kill(w) => EndsAs(w, Killed) /\ fate[w] = Running
         /\ \A f, n : Fork(f, n) => Forks(f, n)
         /\ \A w \in Who : Exec(w) => MovesTo(w, "command")
<1>1. ASSUME NEW w \in Who, NEW l, Goto(w, l) PROVE MovesTo(w, l) /\ copied' = copied
  BY <1>1, MoveEffect DEF Goto
<1>2. ASSUME NEW w \in Who, NEW c \in 0..2, Exit(w, c) PROVE EndsAs(w, Exited(c))
  BY <1>2, EndEffect, FateValues DEF Exit
<1>3. ASSUME NEW w \in Who, NEW c \in 0..2, ExitNow(w, c) PROVE EndsAs(w, Exited(c))
  BY <1>3, EndEffect, FateValues DEF ExitNow
<1>4. ASSUME NEW w \in Who, Kill(w) PROVE EndsAs(w, Killed) /\ fate[w] = Running
  BY <1>4, EndEffect, FateValues DEF Kill
<1>5. ASSUME NEW f, NEW n, Fork(f, n) PROVE Forks(f, n)
  BY <1>5, ForkEffect DEF Fork
<1>6. ASSUME NEW w \in Who, Exec(w) PROVE MovesTo(w, "command")
  BY <1>6, MoveEffect DEF Exec
<1> QED
  BY <1>1, <1>2, <1>3, <1>4, <1>5, <1>6

\* At the start nothing has been printed.
LEMMA StartStdout ==
  ASSUME NEW first, StdioInit(first), first # "command"
  PROVE  /\ StdoutInv /\ said = {} /\ copied = {} /\ (\A w \in Who : Own(w) = {})
         /\ at["parent"] = first /\ at["child"] = "none" /\ fate["child"] = None
<1>1. /\ at = [parent |-> first, child |-> "none"]
      /\ fate = [parent |-> Running, child |-> None] /\ buf = [w \in Who |-> <<>>]
      /\ out = <<>> /\ said = {} /\ copied = {}
  BY DEF StdioInit
<1>2. \A w \in Who : Own(w) = {} /\ Held(w) = {} /\ ~Flushed(w)
  BY <1>1, FateValues DEF Own, Held, Flushed, HasExited, Who
<1>3. out \in Seq(said) /\ \A w \in Who : buf[w] = <<>> /\ buf[w] \in Seq(said)
  BY <1>1
<1>4. \A w \in Who : \A l : Times(buf[w], l) = OneIf(~tty /\ Holds(w) /\ l \in Held(w))
  BY <1>2, <1>3, TimesEmpty DEF OneIf
<1>5. \A l : Times(out, l) = IF tty THEN OneIf(l \in said)
                             ELSE Adds("parent", l) + Adds("child", l)
  BY <1>1, <1>2, TimesEmpty DEF OneIf, Adds, Who
<1> QED
  BY <1>1, <1>2, <1>3, <1>4, <1>5 DEF StdoutInv, Who

\* A line belongs to the process that prints it.
LEMMA OwnFacts ==
  ASSUME NEW w \in Who, NEW n
  PROVE  /\ printf(w, n) => /\ Own(w)' = Own(w) \cup {Line(w, n)}
                            /\ \A v \in Who : v # w => Own(v)' = Own(v)
                            /\ said' = said \cup {Line(w, n)}
         /\ UNCHANGED said => \A v \in Who : Own(v)' = Own(v)
         /\ Line(w, n)[1] = w /\ Line(w, n)[2] = at[w] /\ Line(w, n)[3] = n
  BY DEF printf, Own, Line

\* At a place that it has not been to before, a process has not printed yet.
LEMMA OrderedFacts ==
  ASSUME NEW CONSTANT D, NEW CONSTANT order \in [D -> Nat], NEW w \in Who, Ordered(order, w)
  PROVE  /\ \A n : Line(w, n) \notin said
         /\ at[w] \in D
         /\ UNCHANGED at /\ Own(w)' = Own(w) => Ordered(order, w)'
         /\ at'[w] = at[w] /\ Own(w)' = Own(w) => Ordered(order, w)'
         /\ \A next \in D : \A n :
                /\ at'[w] = next /\ order[at[w]] < order[next]
                /\ Own(w)' = Own(w) \/ Own(w)' = Own(w) \cup {Line(w, n)}
                => Ordered(order, w)'
<1>1. at[w] \in D /\ order[at[w]] \in Nat
  BY DEF Ordered
<1>2. \A l \in Own(w) : l[2] \in D /\ order[l[2]] \in Nat /\ order[l[2]] < order[at[w]]
  BY DEF Ordered
<1>3. \A n : Line(w, n) \notin said
  BY <1>1, <1>2, OwnFacts DEF Own
<1>4. ASSUME at'[w] = at[w], Own(w)' = Own(w) PROVE Ordered(order, w)'
  BY <1>1, <1>2, <1>4 DEF Ordered
<1>5. ASSUME NEW next \in D, NEW n, at'[w] = next, order[at[w]] < order[next],
             Own(w)' = Own(w) \/ Own(w)' = Own(w) \cup {Line(w, n)}
      PROVE  Ordered(order, w)'
  <2>1. \A l \in Own(w)' : l \in Own(w) \/ l[2] = at[w]
    BY <1>5, OwnFacts
  <2>2. order[next] \in Nat
    OBVIOUS
  <2>3. \A l \in Own(w)' : l[2] \in D /\ order[l[2]] < order[next]
    BY <1>1, <1>2, <1>5, <2>1, <2>2
  <2> QED
    BY <1>5, <2>3 DEF Ordered
<1> QED
  BY <1>1, <1>3, <1>4, <1>5

-----------------------------------------------------------------------------
\* cgroup_demo's use of stdout is the one described here.
LEMMA CgroupStdio ==
  /\ \A w, n : Cgroup!printf(w, n) <=> printf(w, n)
  /\ \A w, l : (Cgroup!Goto(w, l) <=> Goto(w, l)) /\ (Cgroup!Runs(w, l) <=> Runs(w, l))
  /\ \A w, c : Cgroup!Exit(w, c) <=> Exit(w, c)
  /\ \A w : Cgroup!Kill(w) <=> Kill(w)
  /\ \A f, n : Cgroup!Fork(f, n) <=> Fork(f, n)
  /\ Cgroup!Quiet <=> Quiet
<1> USE CgroupFates
<1>1. \A w, n : Cgroup!printf(w, n) <=> printf(w, n)
  BY DEF Cgroup!printf, printf, Cgroup!Line, Line
<1>2. \A w, l : (Cgroup!Goto(w, l) <=> Goto(w, l)) /\ (Cgroup!Runs(w, l) <=> Runs(w, l))
  BY DEF Cgroup!Goto, Goto, Cgroup!Runs, Runs
<1>3. \A w, c : Cgroup!Exit(w, c) <=> Exit(w, c)
  BY DEF Cgroup!Exit, Exit
<1>4. \A w : Cgroup!Kill(w) <=> Kill(w)
  BY DEF Cgroup!Kill, Kill
<1>5. \A f, n : Cgroup!Fork(f, n) <=> Fork(f, n)
  BY DEF Cgroup!Fork, Fork
<1>6. Cgroup!Quiet <=> Quiet
  BY DEF Cgroup!Quiet, Cgroup!stdio, Quiet, stdio
<1> QED
  BY <1>1, <1>2, <1>3, <1>4, <1>5, <1>6

\* cgroup_demo with its lines accounted for.
CgroupOut == CgroupInv /\ StdoutInv /\ CgroupPrinted /\ prog = "cgroup"

\* The places of cgroup_demo's parent are numbered.
LEMMA CgroupOrderFacts ==
  /\ CgroupOrder \in [DOMAIN CgroupOrder -> Nat]
  /\ {"banner", "mkdir", "memory.max", "pids.max", "announce", "fork", "waiting",
      "wait", "stats", "rmdir", "return"} = DOMAIN CgroupOrder
  /\ "command" \notin DOMAIN CgroupOrder
  BY DEF CgroupOrder

\* The parent goes on, with or without a line.
LEMMA CgroupParentGoes ==
  ASSUME CgroupOut, NEW from \in DOMAIN CgroupOrder, NEW next \in DOMAIN CgroupOrder,
         Runs("parent", from), CgroupOrder[from] < CgroupOrder[next],
         Goto("parent", next), printf("parent", 0) \/ Quiet,
         UNCHANGED <<tty, nochld, prog, step>>
  PROVE  StdoutInv' /\ CgroupPrinted'
<1>1. /\ MovesTo("parent", next) /\ copied' = copied /\ "parent" \in Who /\ "child" \in Who
      /\ Other("parent") = "child" /\ at["parent"] = from /\ fate["parent"] = Running
      /\ from # "command" /\ next # "command"
  BY StdioEffect, CgroupOrderFacts DEF CgroupOut, CgroupInv, Who, Other, Runs
<1>2. Ordered(CgroupOrder, "parent")
  BY DEF CgroupOut, CgroupPrinted
<1>3. Line("parent", 0) \notin said
  BY <1>1, <1>2, OrderedFacts, CgroupOrderFacts
<1>4. StdoutInv'
  <2>1. CASE printf("parent", 0)
    BY <1>1, <1>3, <2>1, PrintStdout DEF CgroupOut, Holds
  <2>2. CASE Quiet
    BY <1>1, <2>2, GotoStdout DEF CgroupOut
  <2> QED
    BY <2>1, <2>2
<1>5. /\ Own("parent")' = Own("parent") \/ Own("parent")' = Own("parent") \cup {Line("parent", 0)}
      /\ Own("child")' = Own("child")
  BY <1>1, OwnFacts DEF Quiet, stdio
<1>6. Ordered(CgroupOrder, "parent")'
  BY <1>1, <1>2, <1>5, OrderedFacts, CgroupOrderFacts DEF MovesTo
<1>7. at'["child"] = at["child"]
  BY <1>1 DEF MovesTo
<1> QED
  BY <1>4, <1>5, <1>6, <1>7 DEF CgroupOut, CgroupPrinted

\* A process ends, by itself or by SIGKILL.
LEMMA CgroupProcessEnds ==
  ASSUME CgroupOut, NEW w \in Who, UNCHANGED <<tty, nochld, prog, step>>,
         \/ Kill(w)
         \/ fate[w] = Running /\ \E c \in 0..2 : Exit(w, c)
  PROVE  StdoutInv' /\ CgroupPrinted'
<1>1. StdoutInv'
  <2>1. CASE Kill(w)
    BY <2>1, StdioEffect, KillStdout DEF CgroupOut, CgroupInv
  <2>2. CASE fate[w] = Running /\ \E c \in 0..2 : Exit(w, c)
    BY <2>2, StdioEffect, ExitStdout DEF CgroupOut, CgroupInv
  <2> QED
    BY <2>1, <2>2
<1>2. UNCHANGED <<at, said>>
  BY DEF Kill, Exit
<1>3. \A v \in Who : Own(v)' = Own(v)
  BY <1>2, OwnFacts
<1>4. Ordered(CgroupOrder, "parent")'
  BY <1>2, <1>3, OrderedFacts, CgroupOrderFacts DEF CgroupOut, CgroupPrinted, Who
<1> QED
  BY <1>1, <1>2, <1>3, <1>4 DEF CgroupOut, CgroupPrinted, Who

\* Nothing happens to the two processes.
LEMMA CgroupProcessesKept ==
  ASSUME CgroupOut, UNCHANGED <<Cgroup!processes, tty, prog, step>>
  PROVE  StdoutInv' /\ CgroupPrinted'
<1>1. UNCHANGED <<at, fate, out, buf, said, copied, tty, prog, step>>
  BY DEF Cgroup!processes, Cgroup!stdio
<1>2. StdoutInv'
  BY <1>1, QuietStdout DEF CgroupOut, Quiet, stdio, Holds, Flushed, HasExited
<1>3. \A v \in Who : Own(v)' = Own(v)
  BY <1>1, OwnFacts
<1>4. Ordered(CgroupOrder, "parent")'
  BY <1>1, <1>3, OrderedFacts, CgroupOrderFacts DEF CgroupOut, CgroupPrinted, Who
<1> QED
  BY <1>1, <1>2, <1>3, <1>4 DEF CgroupOut, CgroupPrinted, Who

\* The parent's own steps, its fork among them.
LEMMA CgroupParentOut ==
  ASSUME CgroupOut, Cgroup!Parent, UNCHANGED <<tty, nochld, prog>>
  PROVE  StdoutInv' /\ CgroupPrinted'
<1> USE CgroupStdio, FateValues DEF Cgroup!local, Who
<1>1. ASSUME NEW from, NEW next, Cgroup!Say(from, next),
             \/ from = "banner" /\ next = "mkdir"
             \/ from = "pids.max" /\ next = "announce"
             \/ from = "announce" /\ next = "fork"
             \/ from = "waiting" /\ next = "wait"
             \/ from = "stats" /\ next = "rmdir"
      PROVE  StdoutInv' /\ CgroupPrinted'
  <2>1. /\ Runs("parent", from) /\ printf("parent", 0) /\ Goto("parent", next)
        /\ UNCHANGED step
    BY <1>1 DEF Cgroup!Say
  <2>2. from \in DOMAIN CgroupOrder /\ next \in DOMAIN CgroupOrder
        /\ CgroupOrder[from] < CgroupOrder[next]
    BY <1>1 DEF CgroupOrder
  <2> QED
    BY <2>1, <2>2, CgroupParentGoes
<1>2. ASSUME NEW l, Cgroup!Fails(l)
      PROVE  StdoutInv' /\ CgroupPrinted'
  BY <1>2, CgroupProcessEnds DEF Cgroup!Fails, Runs
<1>3. CASE Cgroup!Banner \/ Cgroup!Announce \/ Cgroup!Waiting \/ Cgroup!show_stats
  BY <1>1, <1>3 DEF Cgroup!Banner, Cgroup!Announce, Cgroup!Waiting, Cgroup!show_stats
<1>4. CASE Cgroup!MakeCgroup
  <2>1. "mkdir" \in DOMAIN CgroupOrder /\ "memory.max" \in DOMAIN CgroupOrder
        /\ CgroupOrder["mkdir"] < CgroupOrder["memory.max"]
    BY DEF CgroupOrder
  <2>2. CASE ~Cgroup!Fails("mkdir")
    <3>1. /\ Runs("parent", "mkdir") /\ printf("parent", 0) /\ Goto("parent", "memory.max")
          /\ UNCHANGED step
      BY <1>4, <2>2 DEF Cgroup!MakeCgroup
    <3> QED
      BY <2>1, <3>1, CgroupParentGoes
  <2> QED
    BY <1>2, <2>2
<1>5. CASE Cgroup!LimitMemory
  <2>1. "pids.max" \in DOMAIN CgroupOrder /\ "memory.max" \in DOMAIN CgroupOrder
        /\ CgroupOrder["memory.max"] < CgroupOrder["pids.max"]
    BY DEF CgroupOrder
  <2>2. CASE ~Cgroup!Fails("memory.max")
    <3>1. /\ Runs("parent", "memory.max") /\ printf("parent", 0)
          /\ Goto("parent", "pids.max") /\ UNCHANGED step
      BY <1>5, <2>2 DEF Cgroup!LimitMemory
    <3> QED
      BY <2>1, <3>1, CgroupParentGoes
  <2> QED
    BY <1>2, <2>2
<1>6. CASE Cgroup!LimitPids
  BY <1>1, <1>2, <1>6 DEF Cgroup!LimitPids
<1>7. CASE Cgroup!ForkChild /\ ~Cgroup!Fails("fork")
  <2>1. Runs("parent", "fork") /\ Fork("join", "waiting") /\ UNCHANGED step
    BY <1>7 DEF Cgroup!ForkChild
  <2>2. fate["child"] = None /\ at["parent"] = "fork" /\ fate["parent"] = Running
    BY <2>1 DEF CgroupOut, CgroupInv, Runs
  <2>3. Own("child") = {} /\ Holds("parent") /\ ~Flushed("child")
    BY <2>2 DEF CgroupOut, StdoutInv, Holds, Flushed, HasExited
  <2>4. Forks("join", "waiting")
    BY <2>1, StdioEffect DEF CgroupOut, CgroupInv
  <2>5. StdoutInv'
    BY <2>1, <2>3, <2>4, ForkStdout DEF CgroupOut
  <2>6. UNCHANGED said /\ \A v \in Who : Own(v)' = Own(v)
    BY <2>1, OwnFacts DEF Fork
  <2>7. "waiting" \in DOMAIN CgroupOrder /\ CgroupOrder["fork"] < CgroupOrder["waiting"]
    BY DEF CgroupOrder
  <2>8. Ordered(CgroupOrder, "parent")'
    BY <2>2, <2>4, <2>6, <2>7, OrderedFacts, CgroupOrderFacts
    DEF CgroupOut, CgroupPrinted, Forks
  <2> QED
    BY <2>1, <2>3, <2>5, <2>6, <2>8 DEF CgroupOut, CgroupPrinted
<1>8. CASE Cgroup!WaitChild
  <2>1. Runs("parent", "wait") /\ UNCHANGED step
    BY <1>8 DEF Cgroup!WaitChild
  <2>2. CASE Exit("parent", 1)
    BY <2>1, <2>2, CgroupProcessEnds DEF Runs
  <2>3. CASE printf("parent", 0) /\ Goto("parent", "stats")
    <3>1. "wait" \in DOMAIN CgroupOrder /\ "stats" \in DOMAIN CgroupOrder
          /\ CgroupOrder["wait"] < CgroupOrder["stats"]
      BY DEF CgroupOrder
    <3> QED
      BY <2>1, <2>3, <3>1, CgroupParentGoes
  <2> QED
    BY <1>8, <2>2, <2>3 DEF Cgroup!WaitChild
<1>9. CASE Cgroup!cleanup
  <2>1. /\ Runs("parent", "rmdir") /\ UNCHANGED step /\ Goto("parent", "return")
        /\ printf("parent", 0) \/ Quiet
    BY <1>9 DEF Cgroup!cleanup
  <2>2. "rmdir" \in DOMAIN CgroupOrder /\ "return" \in DOMAIN CgroupOrder
        /\ CgroupOrder["rmdir"] < CgroupOrder["return"]
    BY DEF CgroupOrder
  <2> QED
    BY <2>1, <2>2, CgroupParentGoes
<1>10. CASE Cgroup!Return
  BY <1>10, CgroupProcessEnds DEF Cgroup!Return, Runs
<1> QED
  BY <1>2, <1>3, <1>4, <1>5, <1>6, <1>7, <1>8, <1>9, <1>10 DEF Cgroup!Parent, Cgroup!ForkChild

\* The child prints when it joins, after each round and at the end.
LEMMA CgroupChildPrints ==
  ASSUME CgroupOut, NEW from \in {"join", "malloc", "memset"},
         NEW next \in {"malloc", "memset", "exit"}, NEW n \in Nat,
         Runs("child", from), Goto("child", next), printf("child", n),
         from = "join" => next = "malloc" /\ n = 0,
         from = "malloc" => next = "exit" /\ n = 0,
         from = "memset" => next = "malloc" /\ n = step,
         step' = IF from = "memset" THEN step + 1 ELSE step,
         UNCHANGED <<tty, nochld, prog>>
  PROVE  StdoutInv' /\ CgroupPrinted'
<1>1. /\ MovesTo("child", next) /\ copied' = copied /\ "parent" \in Who /\ "child" \in Who
      /\ Other("child") = "parent" /\ at["child"] = from /\ fate["child"] = Running
  BY StdioEffect DEF CgroupOut, CgroupInv, Who, Other, Runs
<1>2. Line("child", n) \notin Own("child") /\ Line("child", n) \notin said
  BY <1>1, OwnFacts DEF CgroupOut, CgroupPrinted, Own
<1>3. StdoutInv'
  BY <1>1, <1>2, PrintStdout DEF CgroupOut, Holds
<1>4. Own("parent")' = Own("parent") /\ Own("child")' = Own("child") \cup {Line("child", n)}
  BY <1>1, OwnFacts
<1>5. Ordered(CgroupOrder, "parent")'
  BY <1>1, <1>4, OrderedFacts, CgroupOrderFacts DEF CgroupOut, CgroupPrinted, MovesTo
<1>6. /\ Line("child", n)[2] = from /\ Line("child", n)[3] = n /\ at'["child"] = next
  BY <1>1, OwnFacts DEF MovesTo
<1>7. /\ step \in Nat /\ step' \in Nat /\ step <= step' /\ (from = "memset" => n < step')
  BY DEF CgroupOut, CgroupPrinted
<1>8. ASSUME NEW l \in Own("child")'
      PROVE  /\ l[2] \in {"join", "malloc", "memset"}
             /\ l[2] = "malloc" => next = "exit"
             /\ l[2] = "memset" => l[3] \in Nat /\ l[3] < step'
  <2>1. CASE l = Line("child", n)
    BY <1>6, <1>7, <2>1
  <2>2. CASE l \in Own("child")
    <3>1. /\ l[2] \in {"join", "malloc", "memset"}
          /\ l[2] = "malloc" => from = "exit"
          /\ l[2] = "memset" => l[3] \in Nat /\ l[3] < step
      BY <1>1, <2>2 DEF CgroupOut, CgroupPrinted
    <3> QED
      BY <1>7, <3>1
  <2> QED
    BY <1>4, <2>1, <2>2
<1> QED
  BY <1>3, <1>5, <1>6, <1>7, <1>8 DEF CgroupPrinted

\* The child's steps.
LEMMA CgroupChildOut ==
  ASSUME CgroupOut, Cgroup!Child, UNCHANGED <<tty, nochld, prog>>
  PROVE  StdoutInv' /\ CgroupPrinted'
<1> USE CgroupStdio, FateValues DEF Cgroup!local, Who
<1>1. CASE Cgroup!Join
  BY <1>1, CgroupChildPrints, CgroupProcessEnds DEF Cgroup!Join, Runs
<1>2. CASE Cgroup!Allocate
  <2>1. Runs("child", "malloc") /\ UNCHANGED step
    BY <1>2 DEF Cgroup!Allocate
  <2>2. CASE Quiet /\ Goto("child", "memset")
    <3>1. /\ MovesTo("child", "memset") /\ copied' = copied /\ at["child"] = "malloc"
      BY <2>1, <2>2, StdioEffect DEF CgroupOut, CgroupInv, Runs
    <3>2. StdoutInv'
      BY <2>2, <3>1, GotoStdout DEF CgroupOut
    <3>3. \A v \in Who : Own(v)' = Own(v)
      BY <2>2, OwnFacts DEF Quiet, stdio
    <3>4. at'["parent"] = at["parent"] /\ at'["child"] = "memset"
      BY <3>1 DEF MovesTo, Other
    <3>5. Ordered(CgroupOrder, "parent")'
      BY <3>3, <3>4, OrderedFacts, CgroupOrderFacts DEF CgroupOut, CgroupPrinted
    <3> QED
      BY <2>1, <3>1, <3>2, <3>3, <3>4, <3>5 DEF CgroupOut, CgroupPrinted
  <2>3. CASE printf("child", 0) /\ Goto("child", "exit")
    BY <2>1, <2>3, CgroupChildPrints
  <2> QED
    BY <1>2, <2>2, <2>3 DEF Cgroup!Allocate
<1>3. CASE Cgroup!Touch
  <2>1. /\ Runs("child", "memset") /\ printf("child", step) /\ Goto("child", "malloc")
        /\ step' = step + 1 /\ step \in Nat
    BY <1>3 DEF Cgroup!Touch, CgroupOut, CgroupPrinted
  <2> QED
    BY <2>1, CgroupChildPrints
<1>4. CASE Cgroup!OomKill
  <2>1. CASE Kill("child")
    BY <1>4, <2>1, CgroupProcessEnds DEF Cgroup!OomKill
  <2>2. CASE UNCHANGED Cgroup!processes
    BY <1>4, <2>2, CgroupProcessesKept DEF Cgroup!OomKill
  <2> QED
    BY <1>4, <2>1, <2>2 DEF Cgroup!OomKill
<1>5. CASE Cgroup!ChildExit
  BY <1>5, CgroupProcessEnds DEF Cgroup!ChildExit, Runs
<1> QED
  BY <1>1, <1>2, <1>3, <1>4, <1>5 DEF Cgroup!Child

\* Every step of cgroup_demo.
LEMMA CgroupNextOut ==
  ASSUME CgroupOut, Cgroup!Next, UNCHANGED prog
  PROVE  StdoutInv' /\ CgroupPrinted'
<1>1. UNCHANGED <<tty, nochld>>
  BY DEF Cgroup!Next, Cgroup!setting
<1>2. CASE Cgroup!Others
  <2>1. CASE Cgroup!Killer
    <3>1. UNCHANGED step /\ (Kill("parent") \/ Kill("child"))
      BY <2>1, CgroupStdio DEF Cgroup!Killer, Cgroup!local
    <3> QED
      BY <1>1, <3>1, CgroupProcessEnds DEF Who
  <2>2. CASE ~Cgroup!Killer
    BY <1>1, <1>2, <2>2, CgroupProcessesKept DEF Cgroup!Others, Cgroup!local
  <2> QED
    BY <2>1, <2>2
<1> QED
  BY <1>1, <1>2, CgroupParentOut, CgroupChildOut DEF Cgroup!Next

-----------------------------------------------------------------------------
\* clone_demo's use of stdout.
LEMMA CloneStdio ==
  /\ \A w, n : Clone!printf(w, n) <=> printf(w, n)
  /\ \A w, l : (Clone!Goto(w, l) <=> Goto(w, l)) /\ (Clone!Runs(w, l) <=> Runs(w, l))
  /\ \A w, c : (Clone!Exit(w, c) <=> Exit(w, c)) /\ (Clone!ExitNow(w, c) <=> ExitNow(w, c))
  /\ \A w : Clone!Kill(w) <=> Kill(w)
  /\ \A f, n : Clone!Fork(f, n) <=> Fork(f, n)
  /\ Clone!Quiet <=> Quiet
<1> USE CloneFates
<1>1. \A w, n : Clone!printf(w, n) <=> printf(w, n)
  BY DEF Clone!printf, printf, Clone!Line, Line
<1>2. \A w, l : (Clone!Goto(w, l) <=> Goto(w, l)) /\ (Clone!Runs(w, l) <=> Runs(w, l))
  BY DEF Clone!Goto, Goto, Clone!Runs, Runs
<1>3. \A w, c : (Clone!Exit(w, c) <=> Exit(w, c)) /\ (Clone!ExitNow(w, c) <=> ExitNow(w, c))
  BY DEF Clone!Exit, Exit, Clone!ExitNow, ExitNow
<1>4. \A w : Clone!Kill(w) <=> Kill(w)
  BY DEF Clone!Kill, Kill
<1>5. \A f, n : Clone!Fork(f, n) <=> Fork(f, n)
  BY DEF Clone!Fork, Fork
<1>6. Clone!Quiet <=> Quiet
  BY DEF Clone!Quiet, Clone!stdio, Quiet, stdio
<1> QED
  BY <1>1, <1>2, <1>3, <1>4, <1>5, <1>6

\* clone_demo with its lines accounted for.
CloneOut == CloneInv /\ StdoutInv /\ ClonePrinted /\ prog = "clone"

\* The places of clone_demo's two processes are numbered.
LEMMA CloneOrderFacts ==
  /\ CloneOrder \in [DOMAIN CloneOrder -> Nat]
  /\ {"malloc", "clone", "notice", "look", "wait", "return",
      "none", "child_fn", "sethostname", "sleep"} = DOMAIN CloneOrder
  /\ "command" \notin DOMAIN CloneOrder
  BY DEF CloneOrder

\* A process goes on, with or without a line.
LEMMA CloneGoes ==
  ASSUME CloneOut, NEW w \in Who, NEW from \in DOMAIN CloneOrder,
         NEW next \in DOMAIN CloneOrder,
         Runs(w, from), CloneOrder[from] < CloneOrder[next],
         Goto(w, next), printf(w, 0) \/ Quiet,
         UNCHANGED <<tty, nochld, prog>>
  PROVE  StdoutInv' /\ ClonePrinted'
<1>1. /\ MovesTo(w, next) /\ copied' = copied /\ at[w] = from /\ fate[w] = Running
      /\ from # "command" /\ next # "command"
      /\ \A v \in Who : v # w => v = Other(w)
  BY StdioEffect, CloneOrderFacts DEF CloneOut, CloneInv, Who, Other, Runs
<1>2. \A v \in Who : Ordered(CloneOrder, v)
  BY DEF CloneOut, ClonePrinted
<1>3. Line(w, 0) \notin said
  BY <1>2, OrderedFacts, CloneOrderFacts
<1>4. StdoutInv'
  <2>1. CASE printf(w, 0)
    BY <1>1, <1>3, <2>1, PrintStdout DEF CloneOut, Holds
  <2>2. CASE Quiet
    BY <1>1, <2>2, GotoStdout DEF CloneOut
  <2> QED
    BY <2>1, <2>2
<1>5. /\ Own(w)' = Own(w) \/ Own(w)' = Own(w) \cup {Line(w, 0)}
      /\ \A v \in Who : v # w => Own(v)' = Own(v)
  BY OwnFacts DEF Quiet, stdio
<1>6. Ordered(CloneOrder, w)'
  BY <1>1, <1>2, <1>5, OrderedFacts, CloneOrderFacts DEF MovesTo
<1>7. \A v \in Who : v # w => Ordered(CloneOrder, v)'
  BY <1>1, <1>2, <1>5, OrderedFacts, CloneOrderFacts DEF MovesTo
<1> QED
  BY <1>4, <1>6, <1>7 DEF ClonePrinted

\* A process ends, by itself or by SIGKILL.
LEMMA CloneEnds ==
  ASSUME CloneOut, NEW w \in Who, UNCHANGED <<tty, nochld, prog>>,
         \/ Kill(w)
         \/ fate[w] = Running /\ w = "parent" /\ \E c \in 0..2 : Exit(w, c)
         \/ fate[w] = Running /\ w = "child" /\ \E c \in 0..2 : ExitNow(w, c)
  PROVE  StdoutInv' /\ ClonePrinted'
<1>1. StdoutInv'
  <2>1. CASE Kill(w)
    BY <2>1, StdioEffect, KillStdout DEF CloneOut, CloneInv
  <2>2. CASE fate[w] = Running /\ w = "parent" /\ \E c \in 0..2 : Exit(w, c)
    BY <2>2, StdioEffect, ExitStdout DEF CloneOut, CloneInv
  <2>3. CASE fate[w] = Running /\ w = "child" /\ \E c \in 0..2 : ExitNow(w, c)
    BY <2>3, StdioEffect, ExitNowStdout DEF CloneOut, CloneInv
  <2> QED
    BY <2>1, <2>2, <2>3
<1>2. UNCHANGED <<at, said>>
  BY DEF Kill, Exit, ExitNow
<1>3. \A v \in Who : Own(v)' = Own(v)
  BY <1>2, OwnFacts
<1> QED
  BY <1>1, <1>2, <1>3, OrderedFacts, CloneOrderFacts DEF CloneOut, ClonePrinted

\* Every step of clone_demo.
LEMMA CloneNextOut ==
  ASSUME CloneOut, Clone!Next, UNCHANGED prog
  PROVE  StdoutInv' /\ ClonePrinted'
<1> USE CloneStdio, FateValues
<1>1. UNCHANGED <<tty, nochld>> /\ "parent" \in Who /\ "child" \in Who
  BY DEF Clone!Next, Clone!setting, Who
<1>2. ASSUME NEW w \in Who, NEW from, NEW next, Runs(w, from), Goto(w, next),
             printf(w, 0) \/ Quiet,
             \/ from = "malloc" /\ next = "clone"
             \/ from = "notice" /\ next = "look"
             \/ from = "look" /\ next = "wait"
             \/ from = "wait" /\ next = "return"
             \/ from = "child_fn" /\ next = "sethostname"
             \/ from = "sethostname" /\ next = "sleep"
      PROVE  StdoutInv' /\ ClonePrinted'
  <2>1. from \in DOMAIN CloneOrder /\ next \in DOMAIN CloneOrder
        /\ CloneOrder[from] < CloneOrder[next]
    BY <1>2 DEF CloneOrder
  <2> QED
    BY <1>1, <1>2, <2>1, CloneGoes
<1>3. ASSUME NEW l, Clone!Fails(l)
      PROVE  StdoutInv' /\ ClonePrinted'
  BY <1>1, <1>3, CloneEnds DEF Clone!Fails, Runs
<1>4. CASE Clone!MallocStack
  BY <1>1, <1>2, <1>3, <1>4 DEF Clone!MallocStack
<1>5. CASE Clone!clone /\ ~Clone!Fails("clone")
  <2>1. Runs("parent", "clone") /\ Fork("child_fn", "notice")
    BY <1>5 DEF Clone!clone
  <2>2. fate["child"] = None /\ at["parent"] = "clone" /\ fate["parent"] = Running
    BY <2>1 DEF CloneOut, CloneInv, Runs
  <2>3. Own("child") = {} /\ Holds("parent") /\ ~Flushed("child")
    BY <2>2 DEF CloneOut, StdoutInv, Holds, Flushed, HasExited
  <2>4. Forks("child_fn", "notice")
    BY <1>1, <2>1, StdioEffect DEF CloneOut, CloneInv
  <2>5. StdoutInv'
    BY <1>1, <2>1, <2>3, <2>4, ForkStdout DEF CloneOut
  <2>6. \A v \in Who : Own(v)' = Own(v)
    BY <1>1, <2>1, OwnFacts DEF Fork
  <2>7. "notice" \in DOMAIN CloneOrder /\ CloneOrder["clone"] < CloneOrder["notice"]
    BY DEF CloneOrder
  <2>8. Ordered(CloneOrder, "parent")'
    BY <1>1, <2>2, <2>4, <2>6, <2>7, OrderedFacts, CloneOrderFacts
    DEF CloneOut, ClonePrinted, Forks
  <2>9. Ordered(CloneOrder, "child")'
    BY <1>1, <2>3, <2>4, <2>6, CloneOrderFacts DEF Ordered, Forks
  <2> QED
    BY <2>5, <2>8, <2>9 DEF ClonePrinted, Who
<1>6. CASE Clone!Notice
  BY <1>1, <1>2, <1>6 DEF Clone!Notice
<1>7. CASE Clone!LookAtChild
  BY <1>1, <1>2, <1>7 DEF Clone!LookAtChild
<1>8. CASE Clone!WaitChild
  BY <1>1, <1>2, <1>8 DEF Clone!WaitChild
<1>9. CASE Clone!Return
  BY <1>1, <1>9, CloneEnds DEF Clone!Return, Runs
<1>10. CASE Clone!Greet
  BY <1>1, <1>2, <1>10 DEF Clone!Greet
<1>11. CASE Clone!SetHostname
  <2>1. CASE printf("child", 0) /\ Goto("child", "sleep")
    BY <1>1, <1>2, <1>11, <2>1 DEF Clone!SetHostname
  <2>2. CASE ExitNow("child", 1)
    BY <1>1, <1>11, <2>2, CloneEnds DEF Clone!SetHostname, Runs
  <2> QED
    BY <1>11, <2>1, <2>2 DEF Clone!SetHostname
<1>12. CASE Clone!ChildReturns
  BY <1>1, <1>12, CloneEnds DEF Clone!ChildReturns, Runs
<1>13. CASE Clone!Killer
  BY <1>1, <1>13, CloneEnds DEF Clone!Killer, Clone!Who, Who
<1> QED
  BY <1>3, <1>4, <1>5, <1>6, <1>7, <1>8, <1>9, <1>10, <1>11, <1>12, <1>13
  DEF Clone!Next, Clone!Parent, Clone!Child, Clone!clone

-----------------------------------------------------------------------------
\* mini_unshare's use of stdout.
LEMMA UnshareStdio ==
  /\ \A w, n : Unshare!printf(w, n) <=> printf(w, n)
  /\ \A w, l : (Unshare!Goto(w, l) <=> Goto(w, l)) /\ (Unshare!Runs(w, l) <=> Runs(w, l))
  /\ \A w, c : Unshare!Exit(w, c) <=> Exit(w, c)
  /\ \A w : (Unshare!Kill(w) <=> Kill(w)) /\ (Unshare!Exec(w) <=> Exec(w))
  /\ \A f, n : Unshare!Fork(f, n) <=> Fork(f, n)
  /\ Unshare!Quiet <=> Quiet
<1> USE UnshareFates
<1>1. \A w, n : Unshare!printf(w, n) <=> printf(w, n)
  BY DEF Unshare!printf, printf, Unshare!Line, Line
<1>2. \A w, l : (Unshare!Goto(w, l) <=> Goto(w, l)) /\ (Unshare!Runs(w, l) <=> Runs(w, l))
  BY DEF Unshare!Goto, Goto, Unshare!Runs, Runs
<1>3. \A w, c : Unshare!Exit(w, c) <=> Exit(w, c)
  BY DEF Unshare!Exit, Exit
<1>4. \A w : (Unshare!Kill(w) <=> Kill(w)) /\ (Unshare!Exec(w) <=> Exec(w))
  BY DEF Unshare!Kill, Kill, Unshare!Exec, Exec
<1>5. \A f, n : Unshare!Fork(f, n) <=> Fork(f, n)
  BY DEF Unshare!Fork, Fork
<1>6. Unshare!Quiet <=> Quiet
  BY DEF Unshare!Quiet, Unshare!stdio, Quiet, stdio
<1> QED
  BY <1>1, <1>2, <1>3, <1>4, <1>5, <1>6

\* mini_unshare with its lines accounted for.
UnshareOut == UnshareInv /\ StdoutInv /\ UnsharePrinted /\ prog = "unshare"

\* The places of mini_unshare's first process are numbered.
LEMMA UnshareOrderFacts ==
  /\ UnshareOrder \in [DOMAIN UnshareOrder -> Nat]
  /\ {"before", "unshare", "after", "fork", "exec", "wait", "command"} = DOMAIN UnshareOrder
  BY DEF UnshareOrder

\* The parent goes on before it forks or execs, with or without a line.
LEMMA UnshareGoes ==
  ASSUME UnshareOut, NEW from \in {"before", "unshare", "after"},
         NEW next \in {"unshare", "after", "fork", "exec"},
         UnshareOrder[from] < UnshareOrder[next], Runs("parent", from),
         Goto("parent", next), printf("parent", 0) \/ Quiet,
         UNCHANGED <<tty, nochld, prog>>
  PROVE  StdoutInv' /\ UnsharePrinted'
<1>1. /\ MovesTo("parent", next) /\ copied' = copied /\ "parent" \in Who /\ "child" \in Who
      /\ at["parent"] = from /\ fate["parent"] = Running /\ fate["child"] = None
      /\ next \in DOMAIN UnshareOrder
  BY StdioEffect, UnshareOrderFacts DEF UnshareOut, UnshareInv, Who, Runs
<1>2. Ordered(UnshareOrder, "parent")
  BY DEF UnshareOut, UnsharePrinted
<1>3. Line("parent", 0) \notin said
  BY <1>1, <1>2, OrderedFacts, UnshareOrderFacts
<1>4. StdoutInv'
  <2>1. CASE printf("parent", 0)
    BY <1>1, <1>3, <2>1, PrintStdout DEF UnshareOut, Holds
  <2>2. CASE Quiet
    BY <1>1, <2>2, GotoStdout DEF UnshareOut
  <2> QED
    BY <2>1, <2>2
<1>5. Own("parent")' = Own("parent") \/ Own("parent")' = Own("parent") \cup {Line("parent", 0)}
  BY <1>1, OwnFacts DEF Quiet, stdio
<1>6. Ordered(UnshareOrder, "parent")'
  BY <1>1, <1>2, <1>5, OrderedFacts, UnshareOrderFacts DEF MovesTo
<1>7. fate'["child"] = None
  BY <1>1 DEF MovesTo
<1> QED
  BY <1>4, <1>6, <1>7 DEF UnsharePrinted

\* What is true of the lines when nothing more is printed.
LEMMA UnshareQuiet ==
  ASSUME UnshareOut, UNCHANGED <<tty, said, copied>>, at'["parent"] = at["parent"],
         fate'["child"] # None => fate["child"] # None
  PROVE  UnsharePrinted'
<1>1. Own("parent")' = Own("parent") /\ "parent" \in Who
  BY OwnFacts DEF Who
<1>2. Ordered(UnshareOrder, "parent")'
  BY <1>1, OrderedFacts, UnshareOrderFacts DEF UnshareOut, UnsharePrinted
<1> QED
  BY <1>2 DEF UnshareOut, UnsharePrinted

\* A process ends, by itself or by SIGKILL.
LEMMA UnshareEnds ==
  ASSUME UnshareOut, NEW w \in Who, UNCHANGED <<tty, nochld, prog>>,
         Kill(w) \/ (fate[w] = Running /\ \E c \in 0..2 : Exit(w, c))
  PROVE  StdoutInv' /\ UnsharePrinted'
<1>1. CASE Kill(w)
  <2>1. EndsAs(w, Killed) /\ fate[w] = Running /\ UNCHANGED <<at, said, copied>>
    BY <1>1, StdioEffect DEF UnshareOut, UnshareInv, Kill
  <2>2. StdoutInv'
    BY <1>1, <2>1, KillStdout DEF UnshareOut
  <2>3. fate'["child"] # None => fate["child"] # None
    BY <2>1, FateValues DEF EndsAs, Other, Who
  <2> QED
    BY <2>1, <2>2, <2>3, UnshareQuiet
<1>2. ASSUME NEW c \in 0..2, fate[w] = Running, Exit(w, c)
      PROVE  StdoutInv' /\ UnsharePrinted'
  <2>1. EndsAs(w, Exited(c)) /\ UNCHANGED <<at, said, copied>>
    BY <1>2, StdioEffect DEF UnshareOut, UnshareInv, Exit
  <2>2. StdoutInv'
    BY <1>2, <2>1, ExitStdout DEF UnshareOut
  <2>3. fate'["child"] # None => fate["child"] # None
    BY <1>2, <2>1, FateValues DEF EndsAs, Other, Who
  <2> QED
    BY <2>1, <2>2, <2>3, UnshareQuiet
<1> QED
  BY <1>1, <1>2

\* A process becomes the command, and the lines in its buffer are lost.
LEMMA UnshareExecs ==
  ASSUME UnshareOut, NEW w \in Who, Runs(w, "exec"), Exec(w), UNCHANGED <<tty, nochld, prog>>
  PROVE  StdoutInv' /\ UnsharePrinted'
<1>1. /\ MovesTo(w, "command") /\ fate[w] = Running /\ at[w] = "exec"
      /\ buf' = [buf EXCEPT ![w] = <<>>] /\ UNCHANGED <<fate, out, said, copied>>
  BY StdioEffect DEF UnshareOut, UnshareInv, Exec, Runs
<1>2. /\ ~Holds(w)' /\ ~Flushed(w)' /\ ~Flushed(w)
      /\ \A v \in Who : v # w => (Holds(v)' <=> Holds(v)) /\ (Flushed(v)' <=> Flushed(v))
  BY <1>1, FateValues DEF MovesTo, Other, Holds, Flushed, HasExited, Who
<1>3. StdoutInv'
  BY <1>1, <1>2, LostStdout DEF UnshareOut
<1>4. CASE w = "child"
  <2>1. at'["parent"] = at["parent"]
    BY <1>1, <1>4 DEF MovesTo, Other
  <2> QED
    BY <1>1, <1>3, <2>1, UnshareQuiet
<1>5. CASE w = "parent"
  <2>1. Own("parent")' = Own("parent") /\ "parent" \in Who /\ at'["parent"] = "command"
    BY <1>1, <1>5, OwnFacts DEF Who, MovesTo
  <2>2. "command" \in DOMAIN UnshareOrder /\ UnshareOrder["exec"] < UnshareOrder["command"]
    BY DEF UnshareOrder
  <2>3. Ordered(UnshareOrder, "parent")'
    BY <1>1, <1>5, <2>1, <2>2, OrderedFacts, UnshareOrderFacts DEF UnshareOut, UnsharePrinted
  <2> QED
    BY <1>1, <1>3, <2>3 DEF UnshareOut, UnsharePrinted
<1> QED
  BY <1>4, <1>5 DEF Who

\* Every step of mini_unshare.
LEMMA UnshareNextOut ==
  ASSUME UnshareOut, Unshare!Next, UNCHANGED prog
  PROVE  StdoutInv' /\ UnsharePrinted'
<1> USE UnshareStdio, FateValues
<1>1. UNCHANGED <<tty, nochld>> /\ "parent" \in Who /\ "child" \in Who /\ Unshare!Who = Who
  BY DEF Unshare!Next, Unshare!setting, Who, Unshare!Who
<1>2. CASE Unshare!ShowBefore
  <2>1. UnshareOrder["before"] < UnshareOrder["unshare"]
    BY DEF UnshareOrder
  <2> QED
    BY <1>1, <1>2, <2>1, UnshareGoes DEF Unshare!ShowBefore, Unshare!show_ns
<1>3. CASE Unshare!Unshare
  <2>1. UnshareOrder["unshare"] < UnshareOrder["after"]
    BY DEF UnshareOrder
  <2>2. CASE Goto("parent", "after") /\ Quiet
    BY <1>1, <1>3, <2>1, <2>2, UnshareGoes DEF Unshare!Unshare
  <2>3. CASE Exit("parent", 1)
    BY <1>1, <1>3, <2>3, UnshareEnds DEF Unshare!Unshare, Runs
  <2> QED
    BY <1>3, <2>2, <2>3 DEF Unshare!Unshare
<1>4. CASE Unshare!ShowAfter
  <2>1. \A next \in {"fork", "exec"} : UnshareOrder["after"] < UnshareOrder[next]
    BY DEF UnshareOrder
  <2>2. PICK next \in {"fork", "exec"} : Unshare!show_ns("after", next)
    BY <1>4 DEF Unshare!ShowAfter
  <2> QED
    BY <1>1, <2>1, <2>2, UnshareGoes DEF Unshare!show_ns
<1>5. CASE Unshare!ForkCommand
  <2>1. CASE Exit("parent", 1)
    BY <1>1, <1>5, <2>1, UnshareEnds DEF Unshare!ForkCommand, Runs
  <2>2. CASE ~Exit("parent", 1)
    <3>1. PICK first \in {"mount", "exec"} : Runs("parent", "fork") /\ Fork(first, "wait")
      BY <1>5, <2>2 DEF Unshare!ForkCommand
    <3>2. fate["child"] = None /\ at["parent"] = "fork" /\ fate["parent"] = Running
      BY <3>1 DEF UnshareOut, UnshareInv, Runs
    <3>3. Own("child") = {} /\ Holds("parent") /\ ~Flushed("child")
      BY <3>2 DEF UnshareOut, StdoutInv, Holds, Flushed, HasExited
    <3>4. Forks(first, "wait")
      BY <1>1, <3>1, StdioEffect DEF UnshareOut, UnshareInv
    <3>5. StdoutInv' /\ (~tty => copied' = Own("parent"))
      BY <1>1, <3>1, <3>3, <3>4, ForkStdout DEF UnshareOut
    <3>6. said' = said /\ Own("parent")' = Own("parent")
      BY <1>1, <3>1, OwnFacts DEF Fork
    <3>7. Own("parent") = said
      BY <3>3 DEF UnshareOut, StdoutInv, Own, Who
    <3>8. "wait" \in DOMAIN UnshareOrder /\ UnshareOrder["fork"] < UnshareOrder["wait"]
      BY DEF UnshareOrder
    <3>9. Ordered(UnshareOrder, "parent")'
      BY <1>1, <3>2, <3>4, <3>6, <3>8, OrderedFacts, UnshareOrderFacts
      DEF UnshareOut, UnsharePrinted, Forks
    <3> QED
      BY <1>1, <3>5, <3>6, <3>7, <3>9 DEF UnsharePrinted
  <2> QED
    BY <2>1, <2>2
<1>6. CASE Unshare!WaitCommand
  <2> DEFINE f == fate["child"]
             c == IF Unshare!WaitFails THEN 1 ELSE Unshare!ExitStatus(f)
  <2>1. f \in Fates
    BY <1>1 DEF UnshareOut, UnshareInv, Machine
  <2>2. c \in 0..2
    BY <2>1, ExitedValues DEF Unshare!ExitStatus
  <2>3. Runs("parent", "wait") /\ Exit("parent", c)
    BY <1>6 DEF Unshare!WaitCommand
  <2> HIDE DEF c
  <2> QED
    BY <1>1, <2>2, <2>3, UnshareEnds DEF Runs
<1>7. CASE Unshare!MountProc
  <2>1. Runs("child", "mount") /\ Goto("child", "exec") /\ Quiet
    BY <1>7 DEF Unshare!MountProc
  <2>2. MovesTo("child", "exec") /\ UNCHANGED <<copied, said>> /\ at["child"] = "mount"
    BY <1>1, <2>1, StdioEffect DEF UnshareOut, UnshareInv, Quiet, stdio, Runs
  <2>3. StdoutInv'
    BY <1>1, <2>1, <2>2, GotoStdout DEF UnshareOut
  <2>4. at'["parent"] = at["parent"] /\ fate' = fate
    BY <2>2 DEF MovesTo, Other
  <2> QED
    BY <1>1, <2>2, <2>3, <2>4, UnshareQuiet
<1>8. ASSUME NEW w \in Who, Unshare!ExecCommand(w)
      PROVE  StdoutInv' /\ UnsharePrinted'
  BY <1>1, <1>8, UnshareExecs, UnshareEnds DEF Unshare!ExecCommand, Runs
<1>9. CASE Unshare!Command
  <2>1. PICK w \in Who : Unshare!CommandEnds(w) \/ Unshare!Kill(w)
    BY <1>1, <1>9 DEF Unshare!Command
  <2>2. Kill(w) \/ (fate[w] = Running /\ \E c \in 0..2 : Exit(w, c))
    BY <2>1 DEF Unshare!CommandEnds, Runs
  <2> QED
    BY <1>1, <2>2, UnshareEnds
<1> QED
  BY <1>1, <1>2, <1>3, <1>4, <1>5, <1>6, <1>7, <1>8, <1>9 DEF Unshare!Next, Unshare!Program

-----------------------------------------------------------------------------
\* oom_score_demo's use of stdout.
LEMMA OomStdio ==
  /\ \A w, n : Oom!printf(w, n) <=> printf(w, n)
  /\ \A w, l : (Oom!Goto(w, l) <=> Goto(w, l)) /\ (Oom!Runs(w, l) <=> Runs(w, l))
  /\ \A w, c : (Oom!Exit(w, c) <=> Exit(w, c)) /\ (Oom!ExitNow(w, c) <=> ExitNow(w, c))
  /\ \A w : Oom!Kill(w) <=> Kill(w)
  /\ \A f, n : Oom!Fork(f, n) <=> Fork(f, n)
  /\ Oom!Quiet <=> Quiet
<1> USE OomFates
<1>1. \A w, n : Oom!printf(w, n) <=> printf(w, n)
  BY DEF Oom!printf, printf, Oom!Line, Line
<1>2. \A w, l : (Oom!Goto(w, l) <=> Goto(w, l)) /\ (Oom!Runs(w, l) <=> Runs(w, l))
  BY DEF Oom!Goto, Goto, Oom!Runs, Runs
<1>3. \A w, c : (Oom!Exit(w, c) <=> Exit(w, c)) /\ (Oom!ExitNow(w, c) <=> ExitNow(w, c))
  BY DEF Oom!Exit, Exit, Oom!ExitNow, ExitNow
<1>4. \A w : Oom!Kill(w) <=> Kill(w)
  BY DEF Oom!Kill, Kill
<1>5. \A f, n : Oom!Fork(f, n) <=> Fork(f, n)
  BY DEF Oom!Fork, Fork
<1>6. Oom!Quiet <=> Quiet
  BY DEF Oom!Quiet, Oom!stdio, Quiet, stdio
<1> QED
  BY <1>1, <1>2, <1>3, <1>4, <1>5, <1>6

\* oom_score_demo with its lines accounted for.
OomOut == OomInv /\ StdoutInv /\ OomPrinted /\ prog = "oom"

\* The parent goes on: its next line is one that it has not printed.
LEMMA OomGoes ==
  ASSUME OomOut, NEW from, NEW next, Runs("parent", from), Goto("parent", next),
         \/ from = "self" /\ next = "fork" /\ printf("parent", 0) /\ i' = i
         \/ from = "adj" /\ next = "score" /\ Quiet /\ i' = i
         \/ from = "score" /\ next = "wait" /\ printf("parent", i) /\ i' = i
         \/ from = "wait" /\ next = "fork" /\ Quiet /\ i' = i + 1
         \/ from = "fork" /\ next = "return" /\ printf("parent", 0) /\ i' = i,
         UNCHANGED <<tty, nochld, prog>>
  PROVE  StdoutInv' /\ OomPrinted'
<1>1. /\ MovesTo("parent", next) /\ copied' = copied /\ "parent" \in Who
      /\ at["parent"] = from /\ fate["parent"] = Running /\ i \in Nat /\ at'["parent"] = next
  BY StdioEffect DEF OomOut, OomInv, Who, Runs, MovesTo
<1>2. \A l \in said :
        /\ l[2] \in {"self", "score", "fork"} /\ from # "self"
        /\ l[2] = "fork" => from = "return"
        /\ l[2] = "score" => l[3] \in Nat /\ (l[3] < i \/ (l[3] = i /\ from = "wait"))
  BY <1>1 DEF OomOut, OomPrinted
<1>3. CASE Quiet /\ from \in {"adj", "wait"}
  <2>1. StdoutInv'
    BY <1>1, <1>3, GotoStdout DEF OomOut
  <2>2. said' = said
    BY <1>3 DEF Quiet, stdio
  <2> QED
    BY <1>1, <1>2, <1>3, <2>1, <2>2 DEF OomPrinted
<1>4. ASSUME NEW n \in Nat, printf("parent", n), i' = i, from \in {"self", "score", "fork"},
             from = "score" => n = i /\ next = "wait",
             from = "fork" => next = "return", from = "self" => next = "fork"
      PROVE  StdoutInv' /\ OomPrinted'
  <2>1. Line("parent", n)[2] = from /\ Line("parent", n)[3] = n
    BY <1>1, OwnFacts
  <2>2. Line("parent", n) \notin said
    BY <1>2, <1>4, <2>1
  <2>3. StdoutInv'
    BY <1>1, <1>4, <2>2, PrintStdout DEF OomOut, Holds
  <2>4. said' = said \cup {Line("parent", n)}
    BY <1>1, <1>4, OwnFacts
  <2>5. ASSUME NEW l \in said'
        PROVE  /\ l[2] \in {"self", "score", "fork"} /\ next # "self"
               /\ l[2] = "fork" => next = "return"
               /\ l[2] = "score" => l[3] \in Nat /\ (l[3] < i \/ (l[3] = i /\ next = "wait"))
    BY <1>1, <1>2, <1>4, <2>1, <2>4, <2>5
  <2> QED
    BY <1>1, <1>4, <2>3, <2>5 DEF OomPrinted
<1> QED
  BY <1>1, <1>3, <1>4

\* What is true of the lines when nothing is printed and the parent stays.
LEMMA OomKeeps ==
  ASSUME OomOut, UNCHANGED <<said, i>>, at'["parent"] = at["parent"]
  PROVE  OomPrinted'
  BY DEF OomOut, OomPrinted

\* Every step of oom_score_demo.
LEMMA OomNextOut ==
  ASSUME OomOut, Oom!Next, UNCHANGED prog
  PROVE  StdoutInv' /\ OomPrinted'
<1> USE OomStdio, FateValues DEF Oom!local
<1>1. UNCHANGED <<tty, nochld>> /\ "parent" \in Who /\ "child" \in Who /\ Oom!Who = Who
      /\ Machine
  BY DEF Oom!Next, Oom!setting, Who, Oom!Who, OomOut, OomInv
<1>2. CASE Oom!ShowSelf
  BY <1>1, <1>2, OomGoes DEF Oom!ShowSelf
<1>3. CASE Oom!ForkChild
  <2>1. /\ at["parent"] = "fork" /\ fate["parent"] = Running /\ i' = i
        /\ fate["child"] # Running
    BY <1>3 DEF Oom!ForkChild, OomOut, OomInv, Runs
  <2>2. Own("child") = {} /\ Holds("parent") /\ ~Flushed("child")
    BY <2>1 DEF OomOut, StdoutInv, Holds, Flushed
  <2>3. CASE Fork("set_oom_adj", "adj")
    <3>1. Forks("set_oom_adj", "adj")
      BY <1>1, <2>3, StdioEffect
    <3>2. StdoutInv'
      BY <1>1, <2>2, <2>3, <3>1, ForkStdout DEF OomOut
    <3>3. said' = said /\ at'["parent"] = "adj"
      BY <2>3, <3>1 DEF Fork, Forks
    <3> QED
      BY <2>1, <3>2, <3>3 DEF OomOut, OomPrinted
  <2>4. CASE /\ fate' = [fate EXCEPT !["child"] = None]
             /\ at' = [at EXCEPT !["parent"] = "adj"]
             /\ Quiet /\ UNCHANGED copied
    <3>1. /\ at'["parent"] = "adj" /\ at'["child"] = at["child"]
          /\ fate'["child"] = None /\ fate'["parent"] = fate["parent"]
      BY <1>1, <2>4 DEF Machine, Who
    <3>2. \A v \in Who : (Holds(v)' <=> Holds(v)) /\ (Flushed(v)' <=> Flushed(v))
      BY <1>1, <2>1, <2>2, <3>1 DEF Holds, Flushed, HasExited, Who, OomOut
    <3>3. StdoutInv'
      BY <1>1, <2>2, <2>4, <3>2, QuietStdout DEF OomOut
    <3>4. said' = said
      BY <2>4 DEF Quiet, stdio
    <3> QED
      BY <2>1, <3>1, <3>3, <3>4 DEF OomOut, OomPrinted
  <2> QED
    BY <1>3, <2>3, <2>4, OomFates DEF Oom!ForkChild
<1>4. CASE Oom!ReadAdj
  BY <1>1, <1>4, OomGoes DEF Oom!ReadAdj
<1>5. CASE Oom!show_oom_info
  BY <1>1, <1>5, OomGoes DEF Oom!show_oom_info
<1>6. CASE Oom!WaitChild
  BY <1>1, <1>6, OomGoes DEF Oom!WaitChild
<1>7. CASE Oom!ShowTop
  BY <1>1, <1>7, OomGoes DEF Oom!ShowTop
<1>8. CASE Oom!Return
  <2>1. Exit("parent", 0) /\ fate["parent"] = Running /\ UNCHANGED <<i, at, said>>
    BY <1>8 DEF Oom!Return, Runs, Exit
  <2>2. StdoutInv'
    BY <1>1, <2>1, StdioEffect, ExitStdout DEF OomOut
  <2> QED
    BY <2>1, <2>2, OomKeeps
<1>9. CASE Oom!set_oom_adj
  <2>1. Runs("child", "set_oom_adj") /\ Goto("child", "_exit") /\ Quiet /\ UNCHANGED i
    BY <1>9 DEF Oom!set_oom_adj
  <2>2. MovesTo("child", "_exit") /\ UNCHANGED <<copied, said>> /\ at["child"] = "set_oom_adj"
    BY <1>1, <2>1, StdioEffect DEF Quiet, stdio, Runs
  <2>3. StdoutInv'
    BY <1>1, <2>1, <2>2, GotoStdout DEF OomOut
  <2>4. at'["parent"] = at["parent"]
    BY <2>2 DEF MovesTo, Other
  <2> QED
    BY <2>1, <2>2, <2>3, <2>4, OomKeeps
<1>10. CASE Oom!ChildExit
  <2>1. ExitNow("child", 0) /\ fate["child"] = Running /\ UNCHANGED <<i, at, said>>
    BY <1>10 DEF Oom!ChildExit, Runs, ExitNow
  <2>2. StdoutInv'
    BY <1>1, <2>1, StdioEffect, ExitNowStdout DEF OomOut
  <2> QED
    BY <2>1, <2>2, OomKeeps
<1>11. CASE Oom!Killer
  <2>1. PICK w \in Who : Kill(w)
    BY <1>1, <1>11 DEF Oom!Killer
  <2>2. UNCHANGED <<i, at, said>>
    BY <1>11, <2>1 DEF Oom!Killer, Kill
  <2>3. StdoutInv'
    BY <1>1, <2>1, StdioEffect, KillStdout DEF OomOut
  <2> QED
    BY <2>2, <2>3, OomKeeps
<1> QED
  BY <1>2, <1>3, <1>4, <1>5, <1>6, <1>7, <1>8, <1>9, <1>10, <1>11
  DEF Oom!Next, Oom!Parent, Oom!Child

-----------------------------------------------------------------------------
\* Whichever demo starts, nothing has been printed.
LEMMA LinesInit == Init => LinesInv
<1> SUFFICES ASSUME Init PROVE LinesInv
  OBVIOUS
<1>1. \A first :
        (Cgroup!StdioInit(first) \/ Clone!StdioInit(first) \/ Unshare!StdioInit(first)
         \/ Oom!StdioInit(first)) => StdioInit(first)
  BY CgroupFates, CloneFates, UnshareFates, OomFates
  DEF Cgroup!StdioInit, Clone!StdioInit, Unshare!StdioInit, Oom!StdioInit, StdioInit,
      Cgroup!Who, Clone!Who, Unshare!Who, Oom!Who, Who
<1>2. "parent" \in Who /\ "child" \in Who
  BY DEF Who
<1>3. CASE prog = "cgroup"
  <2>1. StdioInit("banner") /\ step = 1
    BY <1>1, <1>3 DEF Init, Cgroup!Init
  <2>2. StdoutInv /\ (\A w \in Who : Own(w) = {}) /\ at["parent"] = "banner"
    BY <2>1, StartStdout
  <2>3. CgroupPrinted
    BY <1>2, <2>1, <2>2, CgroupOrderFacts DEF CgroupPrinted, Ordered
  <2> QED
    BY <1>3, <2>2, <2>3 DEF LinesInv
<1>4. CASE prog = "clone"
  <2>1. StdioInit("malloc")
    BY <1>1, <1>4 DEF Init, Clone!Init
  <2>2. /\ StdoutInv /\ (\A w \in Who : Own(w) = {})
        /\ at["parent"] = "malloc" /\ at["child"] = "none"
    BY <2>1, StartStdout
  <2>3. ClonePrinted
    BY <2>2, CloneOrderFacts DEF ClonePrinted, Ordered, Who
  <2> QED
    BY <1>4, <2>2, <2>3 DEF LinesInv
<1>5. CASE prog = "unshare"
  <2>1. StdioInit("before")
    BY <1>1, <1>5 DEF Init, Unshare!Init
  <2>2. /\ StdoutInv /\ (\A w \in Who : Own(w) = {})
        /\ at["parent"] = "before" /\ fate["child"] = None
    BY <2>1, StartStdout
  <2>3. UnsharePrinted
    BY <1>2, <2>2, UnshareOrderFacts DEF UnsharePrinted, Ordered
  <2> QED
    BY <1>5, <2>2, <2>3 DEF LinesInv
<1>6. CASE prog = "oom"
  <2>1. StdioInit("self")
    BY <1>1, <1>6 DEF Init, Oom!Init
  <2>2. StdoutInv /\ said = {}
    BY <2>1, StartStdout
  <2> QED
    BY <1>6, <2>2 DEF LinesInv, OomPrinted
<1> QED
  BY <1>3, <1>4, <1>5, <1>6 DEF Init, LinesInv

\* Every step of the demo that runs keeps its lines accounted for.
LEMMA LinesStep == DemosInv /\ LinesInv /\ [Next]_vars => LinesInv'
<1> SUFFICES ASSUME DemosInv, LinesInv, [Next]_vars PROVE LinesInv'
  OBVIOUS
<1>1. CASE CgroupStep /\ UNCHANGED prog
  BY <1>1, CgroupNextOut DEF CgroupStep, DemosInv, LinesInv, CgroupOut
<1>2. CASE CloneStep /\ UNCHANGED prog
  BY <1>2, CloneNextOut DEF CloneStep, DemosInv, LinesInv, CloneOut
<1>3. CASE UnshareStep /\ UNCHANGED prog
  BY <1>3, UnshareNextOut DEF UnshareStep, DemosInv, LinesInv, UnshareOut
<1>4. CASE OomStep /\ UNCHANGED prog
  BY <1>4, OomNextOut DEF OomStep, DemosInv, LinesInv, OomOut
<1>5. CASE TracerStep /\ UNCHANGED prog
  BY <1>5 DEF TracerStep, LinesInv
<1>6. CASE UNCHANGED vars
  <2>1. UNCHANGED <<prog, tty, at, fate, buf, out, said, copied, step, i>>
    BY <1>6 DEF vars, machine, cgroup, oom
  <2>2. \A w : Own(w)' = Own(w)
    BY <2>1 DEF Own
  <2>3. \A order, w : Ordered(order, w) => Ordered(order, w)'
    BY <2>1, <2>2 DEF Ordered
  <2>4. StdoutInv => StdoutInv'
    BY <2>1, QuietStdout DEF Quiet, stdio, Holds, Flushed, HasExited
  <2>5. CgroupPrinted => CgroupPrinted'
    BY <2>1, <2>2, <2>3 DEF CgroupPrinted
  <2>6. ClonePrinted => ClonePrinted'
    BY <2>3 DEF ClonePrinted
  <2>7. UnsharePrinted => UnsharePrinted'
    BY <2>1, <2>3 DEF UnsharePrinted
  <2>8. OomPrinted => OomPrinted'
    BY <2>1 DEF OomPrinted
  <2> QED
    BY <2>1, <2>4, <2>5, <2>6, <2>7, <2>8 DEF LinesInv
<1> QED
  BY <1>1, <1>2, <1>3, <1>4, <1>5, <1>6 DEF Next

\* How often each line has come out, from where it is and how its process ended.
LEMMA LinesInvAccounts ==
  ASSUME DemosInv, LinesInv
  PROVE  LinesAccountedFor
<1> USE DEF DemosInv, LinesInv
<1>1. \A l : /\ Cgroup!Copies(l) = Times(out, l) /\ Clone!Copies(l) = Times(out, l)
             /\ Unshare!Copies(l) = Times(out, l) /\ Oom!Copies(l) = Times(out, l)
  <2>1. \A S : /\ Cgroup!Cardinality(S) = Cardinality(S)
               /\ Clone!Cardinality(S) = Cardinality(S)
               /\ Unshare!Cardinality(S) = Cardinality(S)
               /\ Oom!Cardinality(S) = Cardinality(S)
    BY DEF Cgroup!Cardinality, Clone!Cardinality, Unshare!Cardinality, Oom!Cardinality,
           Cardinality
  <2> QED
    BY <2>1 DEF Cgroup!Copies, Clone!Copies, Unshare!Copies, Oom!Copies, Times
<1>2. \A w : /\ Cgroup!HasExited(w) <=> HasExited(w)
             /\ Clone!HasExited(w) <=> HasExited(w)
             /\ Unshare!HasExited(w) <=> HasExited(w)
             /\ Oom!HasExited(w) <=> HasExited(w)
  BY DEF Cgroup!HasExited, Clone!HasExited, Unshare!HasExited, Oom!HasExited, HasExited
<1>3. ASSUME prog # "tracer", NEW l \in said
      PROVE  /\ tty => Times(out, l) = 1
             /\ ~tty => Times(out, l) = Adds("parent", l) + Adds("child", l)
             /\ l[1] = "parent" \/ l[1] = "child"
             /\ l \in Held("parent") <=> l[1] = "parent"
             /\ l \in Held("child") <=> l[1] = "child" \/ l \in copied
             /\ l \in copied => l[1] = "parent" /\ ~tty
             /\ prog \in {"unshare", "oom"} => l[1] = "parent"
  BY <1>3 DEF StdoutInv, OneIf, Held, Own, Who
<1>4. ASSUME prog = "cgroup", NEW l \in said
      PROVE  Cgroup!Copies(l) =
                IF tty THEN 1
                ELSE Cgroup!Flushes(l[1]) + IF l \in copied THEN Cgroup!Flushes("child") ELSE 0
  <2>1. at["parent"] # "command" /\ at["child"] # "command"
    BY <1>4, CgroupOrderFacts DEF CgroupPrinted, Ordered, CgroupInv
  <2>2. \A w \in Who : Flushed(w) <=> HasExited(w)
    BY <1>4, <2>1 DEF Flushed, Who
  <2>3. CASE l[1] = "parent"
    BY <1>1, <1>2, <1>3, <1>4, <2>2, <2>3 DEF Cgroup!Flushes, Adds, OneIf, Who
  <2>4. CASE l[1] = "child"
    BY <1>1, <1>2, <1>3, <1>4, <2>2, <2>4 DEF Cgroup!Flushes, Adds, OneIf, Who
  <2> QED
    BY <1>3, <1>4, <2>3, <2>4
<1>5. ASSUME prog = "clone", NEW l \in said
      PROVE  Clone!Copies(l) =
                IF tty \/ (l[1] = "parent" /\ Clone!HasExited("parent")) THEN 1 ELSE 0
  <2>1. (Flushed("parent") <=> HasExited("parent")) /\ ~Flushed("child")
    BY <1>5 DEF CloneInv, Flushed
  <2> QED
    BY <1>1, <1>2, <1>3, <1>5, <2>1 DEF Adds, OneIf
<1>6. ASSUME prog = "unshare", NEW l \in said
      PROVE  Unshare!Copies(l) =
                IF tty THEN 1
                ELSE (IF HasExited("parent") /\ at["parent"] # "command" THEN 1 ELSE 0)
                     + (IF HasExited("child") /\ at["child"] # "command" THEN 1 ELSE 0)
  <2>1. HasExited("child") /\ ~tty => l \in copied
    BY <1>6, FateValues DEF UnsharePrinted, HasExited
  <2> QED
    BY <1>1, <1>3, <1>6, <2>1 DEF Adds, OneIf, Flushed
<1>7. ASSUME prog = "oom", NEW l \in said
      PROVE  Oom!Copies(l) = IF tty \/ Oom!HasExited("parent") THEN 1 ELSE 0
  <2>1. (Flushed("parent") <=> HasExited("parent")) /\ ~Flushed("child")
    BY <1>7 DEF OomInv, Flushed
  <2> QED
    BY <1>1, <1>2, <1>3, <1>7, <2>1 DEF Adds, OneIf
<1> QED
  BY <1>2, <1>4, <1>5, <1>6, <1>7
  DEF LinesAccountedFor, Cgroup!CgroupLines, Clone!CloneLines, Unshare!UnshareLines,
      Unshare!Becomes, Oom!OomLines

\* Where each printed line is, at every step.
THEOREM LinesInvariant == Spec => []LinesInv
<1>1. Init => LinesInv
  BY LinesInit
<1>2. DemosInv /\ LinesInv /\ [Next]_vars => LinesInv'
  BY LinesStep
<1> QED
  BY <1>1, <1>2, DemosInvariant, PTL DEF Spec

(***************************************************************************)
(* cgroup_demo, clone_demo, mini_unshare and oom_score_demo: whoever ends  *)
(* first and however, each line comes out as often as the buffers that     *)
(* fork copies, and that exit, _exit, exec and SIGKILL write out or throw  *)
(* away, make it.                                                          *)
(***************************************************************************)
THEOREM DemoLines == Spec => []LinesAccountedFor
<1>1. DemosInv /\ LinesInv => LinesAccountedFor
  BY LinesInvAccounts
<1> QED
  BY <1>1, DemosInvariant, LinesInvariant, PTL
=============================================================================
