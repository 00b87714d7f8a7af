----------------------------- MODULE MiniUnshare -----------------------------
(***************************************************************************)
(* mini_unshare.c: unshare, then fork if there is to be a new PID          *)
(* namespace, then a /proc for it if the mount namespace is new as well,   *)
(* then exec. The command line has been parsed: `flags` is not empty.      *)
(***************************************************************************)
EXTENDS ForkStdio

CONSTANT
    Namespaces   \* "user", "pid", "mount" and others, which all behave alike

VARIABLES
    flags,    \* the namespaces asked for
    shared,   \* the host's mounts are shared (systemd makes them so)
    ns,       \* the namespaces of each process that are new
    proc      \* where a new procfs lies over /proc: "own" and "host" mount namespace

local == <<flags, shared, ns, proc>>
vars == <<setting, processes, local>>

Idle == flags = {} /\ shared = FALSE /\ ns = [w \in Who |-> {}] /\ proc = {}

Init ==
    /\ StdioInit("before")
    /\ flags \in SUBSET Namespaces \ {{}}
    /\ shared \in BOOLEAN
    /\ ns = [w \in Who |-> {}]
    /\ proc = {}

-----------------------------------------------------------------------------
show_ns(from, next) ==
    /\ Runs("parent", from)
    /\ printf("parent", 0)
    /\ Goto("parent", next)
    /\ UNCHANGED local

ShowBefore == show_ns("before", "unshare")

\* Wrong variant of Unshare: its failure is not looked at.
UnshareOrNot ==
    /\ Runs("parent", "unshare")
    /\ ns' \in {ns, [ns EXCEPT !["parent"] = flags \ {"pid"}]}
    /\ Goto("parent", "after")
    /\ Quiet /\ UNCHANGED <<flags, shared, proc>>

\* CLONE_NEWPID is for children only: the caller stays where it is.
Unshare ==
    /\ Runs("parent", "unshare")
    /\ \/ /\ ns' = [ns EXCEPT !["parent"] = flags \ {"pid"}]
          /\ Goto("parent", "after") /\ Quiet
       \/ Exit("parent", 1) /\ UNCHANGED ns
    /\ UNCHANGED <<flags, shared, proc>>

ShowAfter == show_ns("after", IF "pid" \in flags THEN "fork" ELSE "exec")

ForkCommand ==
    /\ Runs("parent", "fork")
    /\ \/ /\ Fork(IF "mount" \in flags THEN "mount" ELSE "exec", "wait")
          /\ ns' = [ns EXCEPT !["child"] = ns["parent"] \cup {"pid"}]
       \/ Exit("parent", 1) /\ UNCHANGED ns
    /\ UNCHANGED <<flags, shared, proc>>

\* Wrong variant of ExitStatus: 0 for a command that a signal has ended.
ExitStatusOnly(f) == IF f[1] = "exited" THEN f[2] ELSE 0

ExitStatus(f) == IF f[1] = "exited" THEN f[2] ELSE 1

WaitCommand ==
    /\ Runs("parent", "wait")
    /\ ChildWaitable
    /\ Exit("parent", IF WaitFails THEN 1 ELSE ExitStatus(fate["child"]))
    /\ UNCHANGED local

(***************************************************************************)
(* mount("proc", "/proc") without making the mounts private before. It     *)
(* spreads to the host if they are shared, except from a mount namespace   *)
(* of another user namespace, whose mounts are slaves of the host's.       *)
(***************************************************************************)
MountProc ==
    /\ Runs("child", "mount")
    /\ \/ proc' = {"own"} \cup (IF shared /\ "user" \notin ns["child"] THEN {"host"} ELSE {})
       \/ proc' = proc     \* a warning on stderr
    /\ Goto("child", "exec")
    /\ Quiet /\ UNCHANGED <<flags, shared, ns>>

\* execvp, by the child or without --pid by the process itself.
ExecCommand(w) ==
    /\ Runs(w, "exec")
    /\ Exec(w) \/ Exit(w, 1)
    /\ UNCHANGED local

Program ==
    \/ ShowBefore \/ Unshare \/ ShowAfter \/ ForkCommand \/ WaitCommand
    \/ MountProc \/ \E w \in Who : ExecCommand(w)

\* The command, when it ends by itself: with 0, or with something else.
CommandEnds(w) ==
    /\ Runs(w, "command")
    /\ \E c \in {0, 2} : Exit(w, c)
    /\ UNCHANGED local

Command == \E w \in Who : CommandEnds(w) \/ (Kill(w) /\ UNCHANGED local)

Next == (Program \/ Command) /\ UNCHANGED setting

Spec == Init /\ [][Next]_vars

-----------------------------------------------------------------------------
(***************************************************************************)
(* The command runs in all the namespaces asked for and in no other new    *)
(* one; with --pid it is never the process that called unshare. It finds a *)
(* new /proc only if its PID and mount namespaces are both new, and the    *)
(* host gets that one too at most if its mounts are shared and the user    *)
(* namespace is the host's.                                                *)
(***************************************************************************)
CommandIsIsolated ==
    /\ \A w \in Who : Runs(w, "command") =>
        /\ ns[w] = flags
        /\ w = "parent" <=> "pid" \notin flags
    /\ proc # {} => {"pid", "mount"} \subseteq flags
    /\ "host" \in proc => shared /\ "user" \notin flags

(***************************************************************************)
(* With --pid mini-unshare lasts as long as the command and ends as it     *)
(* did, with 1 for one that was killed.                                    *)
(***************************************************************************)
EndsAsCommand ==
    /\ HasExited("parent") /\ "pid" \in flags /\ fate["child"] # None =>
        fate["parent"] = IF HasExited("child") /\ ~nochld THEN fate["child"] ELSE Exited(1)
    /\ NoChildLeft

(***************************************************************************)
(* When stdout is no terminal, the namespaces shown before the command get *)
(* lost if the process itself becomes the command, and come out twice if   *)
(* the child's exec fails. Otherwise they come out once, after the command *)
(***************************************************************************)
Becomes(w) == at[w] = "command"

UnshareLines ==
    Over => \A l \in said :
        LET own == IF HasExited("parent") /\ ~Becomes("parent") THEN 1 ELSE 0
            again == IF HasExited("child") /\ ~Becomes("child") THEN 1 ELSE 0
        IN  Copies(l) = IF tty THEN 1 ELSE own + again

(***************************************************************************)
(* README.md:13 of mini-unshare: "this is exactly what runc does", of whom *)
(* 00-k8s-connection.md:104 says that it leaves the host's mount namespace *)
(* so that later mounts "do not affect the host's namespace". So a run     *)
(* with --mount leaves the host's /proc alone.                             *)
(***************************************************************************)
HostProcUntouched == "host" \notin proc
=============================================================================
