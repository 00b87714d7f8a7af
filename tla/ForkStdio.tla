------------------------------ MODULE ForkStdio ------------------------------
(***************************************************************************)
(* A C program and the child it forks: the libc and kernel side that the   *)
(* demos of chapters 1, 2, 3 and 9 share. stdout is written at once when   *)
(* it is a terminal. Otherwise lines stay in a buffer that fork copies,    *)
(* that exit() and the return from main write out, and that _exit, exec    *)
(* and SIGKILL throw away. (None of the demos prints enough to fill it.)   *)
(***************************************************************************)
EXTENDS Integers, Sequences, FiniteSets

VARIABLES
    tty,      \* stdout is a terminal
    nochld,   \* SIGCHLD was ignored when the program was started
    at,       \* what each process does next
    fate,     \* whether it runs, and how it has ended
    buf,      \* the lines in its stdout buffer
    out,      \* what has been written
    said,     \* history: lines printed by printf
    copied    \* history: the lines in the buffer that fork has copied

Who == {"parent", "child"}

None == <<"none", 0>>
Running == <<"running", 0>>
Exited(c) == <<"exited", c>>
Killed == <<"killed", 9>>

stdio == <<out, buf, said>>
processes == <<at, fate, stdio, copied>>
setting == <<tty, nochld>>

StdioInit(first) ==
    /\ tty \in BOOLEAN /\ nochld \in BOOLEAN
    /\ at = [parent |-> first, child |-> "none"]
    /\ fate = [parent |-> Running, child |-> None]
    /\ buf = [w \in Who |-> <<>>]
    /\ out = <<>> /\ said = {} /\ copied = {}

-----------------------------------------------------------------------------
Runs(w, l) == fate[w] = Running /\ at[w] = l

Goto(w, l) == at' = [at EXCEPT ![w] = l] /\ UNCHANGED <<fate, copied>>

\* A line is known by who prints it, where, and in which round of a loop.
Line(w, i) == <<w, at[w], i>>

\* On a terminal, and into a buffer otherwise.
printf(w, i) ==
    /\ said' = said \cup {Line(w, i)}
    /\ IF tty
       THEN out' = Append(out, Line(w, i)) /\ UNCHANGED buf
       ELSE buf' = [buf EXCEPT ![w] = Append(@, Line(w, i))] /\ UNCHANGED out

Quiet == UNCHANGED stdio

\* exit(c), and return c from main
Exit(w, c) ==
    /\ fate' = [fate EXCEPT ![w] = Exited(c)]
    /\ out' = out \o buf[w]
    /\ buf' = [buf EXCEPT ![w] = <<>>]
    /\ UNCHANGED <<at, said, copied>>

\* _exit(c); also where clone's child ends when its function returns
ExitNow(w, c) ==
    /\ fate' = [fate EXCEPT ![w] = Exited(c)]
    /\ buf' = [buf EXCEPT ![w] = <<>>]
    /\ UNCHANGED <<at, out, said, copied>>

\* execvp that succeeds: another program, and no trace of the buffer
Exec(w) ==
    /\ at' = [at EXCEPT ![w] = "command"]
    /\ buf' = [buf EXCEPT ![w] = <<>>]
    /\ UNCHANGED <<fate, out, said, copied>>

\* fork, or clone without CLONE_VM: the child's memory is a copy of its parent's.
Fork(first, next) ==
    /\ at' = [parent |-> next, child |-> first]
    /\ fate' = [fate EXCEPT !["child"] = Running]
    /\ buf' = [buf EXCEPT !["child"] = buf["parent"]]
    /\ copied' = {buf["parent"][i] : i \in DOMAIN buf["parent"]}
    /\ UNCHANGED <<out, said>>

\* waitpid(child) returns once the child has ended, or at once if there is none.
ChildWaitable == fate["child"] # Running

\* It fails when there is no child, or none left because SIGCHLD is ignored.
WaitFails == fate["child"] = None \/ nochld

\* SIGKILL, from a user or from the kernel, at any moment
Kill(w) ==
    /\ fate[w] = Running
    /\ fate' = [fate EXCEPT ![w] = Killed]
    /\ buf' = [buf EXCEPT ![w] = <<>>]
    /\ UNCHANGED <<at, out, said, copied>>

-----------------------------------------------------------------------------
HasExited(w) == fate[w][1] = "exited"
Over == Running \notin {fate[w] : w \in Who}

\* How often a line has come out.
Copies(l) == Cardinality({i \in DOMAIN out : out[i] = l})

\* A parent that ends by itself has no child still running.
NoChildLeft == HasExited("parent") => fate["child"] # Running
=============================================================================
