------------------------------ MODULE CloneDemo ------------------------------
(***************************************************************************)
(* clone_demo.c: a child cloned into PID and UTS namespaces of its own. It *)
(* runs a function, and glibc ends it with the system call exit when that  *)
(* returns: its stdout buffer is never written out.                        *)
(***************************************************************************)
EXTENDS ForkStdio

VARIABLES
    hostname,   \* the name in the host's UTS namespace and in the new one
    seen,       \* the parent has shown the child's namespace link
    told        \* the exit status the parent prints

local == <<hostname, seen, told>>
vars == <<setting, processes, local>>

Idle == hostname = [host |-> "node", new |-> "node"] /\ seen = FALSE /\ told = None

Init == StdioInit("malloc") /\ Idle

-----------------------------------------------------------------------------
Fails(l) ==
    /\ Runs("parent", l)
    /\ Exit("parent", 1)
    /\ UNCHANGED local

\* malloc of the child's stack, then the parent's pid and hostname.
MallocStack ==
    \/ Runs("parent", "malloc") /\ printf("parent", 0) /\ Goto("parent", "clone") /\ UNCHANGED local
    \/ Fails("malloc")

clone ==
    \/ Runs("parent", "clone") /\ Fork("child_fn", "notice") /\ UNCHANGED local
    \/ Fails("clone")

Notice ==
    /\ Runs("parent", "notice")
    /\ printf("parent", 0)
    /\ Goto("parent", "look")
    /\ UNCHANGED local

\* After a second's sleep: a zombie still has its PID namespace, a reaped child
\* does not. There is no line when the link cannot be read.
LookAtChild ==
    /\ Runs("parent", "look")
    /\ IF fate["child"] # Running /\ nochld
       THEN Quiet /\ UNCHANGED seen
       ELSE printf("parent", 0) /\ seen' = TRUE
    /\ Goto("parent", "wait")
    /\ UNCHANGED <<hostname, told>>

\* WEXITSTATUS of a status that a signal has set
WEXITSTATUS(f) == IF f[1] = "exited" THEN f ELSE Exited(0)

(***************************************************************************)
(* waitpid's result is not looked at. When it fails, `status` has never    *)
(* been written: any number may be printed, 0 and 1 standing for all.      *)
(***************************************************************************)
WaitChild ==
    /\ Runs("parent", "wait")
    /\ ChildWaitable
    /\ told' \in IF WaitFails THEN {Exited(0), Exited(1)} ELSE {WEXITSTATUS(fate["child"])}
    /\ printf("parent", 0)
    /\ Goto("parent", "return")
    /\ UNCHANGED <<hostname, seen>>

Return ==
    /\ Runs("parent", "return")
    /\ Exit("parent", 0)
    /\ UNCHANGED local

Parent == MallocStack \/ clone \/ Notice \/ LookAtChild \/ WaitChild \/ Return

-----------------------------------------------------------------------------
Greet ==
    /\ Runs("child", "child_fn")
    /\ printf("child", 0)
    /\ Goto("child", "sethostname")
    /\ UNCHANGED local

\* CLONE_NEWUTS
UtsOf(w) == IF w = "child" THEN "new" ELSE "host"

\* Then the new name and the links of /proc/self/ns are shown.
SetHostname ==
    /\ Runs("child", "sethostname")
    /\ \/ /\ hostname' = [hostname EXCEPT ![UtsOf("child")] = "container-demo"]
          /\ printf("child", 0)
          /\ Goto("child", "sleep")
       \/ ExitNow("child", 1) /\ UNCHANGED hostname
    /\ UNCHANGED <<seen, told>>

ChildReturns ==
    /\ Runs("child", "sleep")
    /\ ExitNow("child", 0)
    /\ UNCHANGED local

Child == Greet \/ SetHostname \/ ChildReturns

Killer == (\E w \in Who : Kill(w)) /\ UNCHANGED local

Next == (Parent \/ Child \/ Killer) /\ UNCHANGED setting

Spec == Init /\ [][Next]_vars

-----------------------------------------------------------------------------
(***************************************************************************)
(* When stdout is no terminal nothing the child prints ever comes out, and *)
(* its copy of the parent's lines does not either: those come out once.    *)
(***************************************************************************)
CloneLines ==
    Over => \A l \in said :
        Copies(l) = IF tty \/ (l[1] = "parent" /\ HasExited("parent")) THEN 1 ELSE 0

(***************************************************************************)
(* The parent sees the child in its namespace however late it looks, since *)
(* the child is not reaped before; it outlives it and prints its status.   *)
(* Only a killed child is taken for one that exited with 0. All the while  *)
(* the host keeps its name.                                                *)
(***************************************************************************)
CloneSeenAndReaped ==
    /\ told # None /\ ~nochld => seen /\ told = WEXITSTATUS(fate["child"])
    /\ NoChildLeft
    /\ hostname.host = "node"
=============================================================================
