----------------------------- MODULE InotifyDemo -----------------------------
(***************************************************************************)
(* src/05-vfs-storage/exercises/inotify-demo/inotify_demo.c: a parent that *)
(* watches a directory it made, and a child that works in it. The inotify  *)
(* queue is external: the kernel appends an event inside each system call  *)
(* of the child, and a read takes all that fit, here all there are.        *)
(***************************************************************************)
EXTENDS SequencesExt

VARIABLES
    nochld,   \* SIGCHLD was ignored when the program was started
    ppc,      \* where the parent is
    code,     \* its exit status
    broke,    \* its event loop was left by break, not by child_done
    printed,  \* the events it has printed
    step,     \* the next step of child_work
    child,    \* "none", "running", "zombie" or "reaped"
    failed,   \* the child ended by exit(1) or by a signal
    open,     \* the file the child has open for writing, or "none"
    files,    \* the names in the directory
    dir,      \* the directory exists
    emitted,  \* history: all events the kernel queued
    queue     \* the events not read yet

parent == <<ppc, code, broke, printed>>
worker == <<step, child, failed, open>>
disk == <<files, dir>>
events == <<emitted, queue>>
vars == <<nochld, parent, worker, disk, events>>

Event(m, f, c) == [mask |-> m, name |-> f, cookie |-> c]

(***************************************************************************)
(* child_work: each step is a system call, except that a rename is two:    *)
(* its second event is queued after the first, and a read may come between *)
(* the two. `new` and `old` are the names it puts into and takes out of    *)
(* the directory, `fd` the file it leaves open.                            *)
(***************************************************************************)
Op(new, old, fd, evs) == [new |-> new, old |-> old, fd |-> fd, evs |-> evs, inKernel |-> FALSE]

Create(f) == Op({f}, {}, f, <<Event("CREATE", f, 0)>>)
OpenAppend(f) == Op({}, {}, f, <<>>)
Write(f) == Op({}, {}, f, <<Event("MODIFY", f, 0)>>)
Close(f) == Op({}, {}, "none", <<Event("CLOSE_WRITE", f, 0)>>)
MovedFrom(f, g, c) == Op({g}, {f}, "none", <<Event("MOVED_FROM", f, c)>>)
MovedTo(g, c) == [Op({}, {}, "none", <<Event("MOVED_TO", g, c)>>) EXCEPT !.inKernel = TRUE]
Unlink(f) == Op({}, {f}, "none", <<Event("DELETE", f, 0)>>)

child_work ==
    <<Create("file1"), Write("file1"), Close("file1"),
      OpenAppend("file1"), Write("file1"), Close("file1"),
      MovedFrom("file1", "file2", 1), MovedTo("file2", 1),
      Create("tmp_secret"), Write("tmp_secret"), Close("tmp_secret"),
      MovedFrom("tmp_secret", "secret", 2), MovedTo("secret", 2),
      Unlink("file2"), Unlink("secret")>>

Names == {"file1", "file2", "tmp_secret", "secret"}

Init ==
    /\ nochld \in BOOLEAN
    /\ ppc = "setup" /\ code = 0 /\ broke = FALSE /\ printed = <<>>
    /\ step = 1 /\ child = "none" /\ failed = FALSE /\ open = "none"
    /\ files = {} /\ dir = FALSE
    /\ emitted = <<>> /\ queue = <<>>

\* The program is over, or was never started.
Off ==
    /\ nochld = FALSE
    /\ ppc = "over" /\ code = 0 /\ broke = TRUE /\ printed = <<>>
    /\ step = 1 /\ child = "none" /\ failed = FALSE /\ open = "none"
    /\ files = {} /\ dir = FALSE
    /\ emitted = <<>> /\ queue = <<>>

-----------------------------------------------------------------------------
Emit(evs) == emitted' = emitted \o evs /\ queue' = queue \o evs

\* What waits for waitpid(). With SIGCHLD ignored the kernel leaves nothing to wait for.
Ended == IF nochld THEN "reaped" ELSE "zombie"

ChildStep ==
    /\ child = "running"
    /\ step <= Len(child_work)
    /\ LET o == child_work[step]
       IN  /\ files' = (files \cup o.new) \ o.old
           /\ open' = o.fd
           /\ Emit(o.evs)
    /\ step' = step + 1
    /\ UNCHANGED <<child, failed, dir>>

ChildExit ==
    /\ child = "running"
    /\ step > Len(child_work)
    /\ child' = Ended
    /\ UNCHANGED <<step, failed, open, disk, events>>

\* A call fails, or a signal ends the child between two calls. The files stay as
\* they are; the exit closes an open file, which is an event of its own.
ChildFails ==
    /\ child = "running"
    /\ step <= Len(child_work) => ~child_work[step].inKernel
    /\ child' = Ended /\ failed' = TRUE
    /\ open' = "none"
    /\ Emit(IF open = "none" THEN <<>> ELSE <<Event("CLOSE_WRITE", open, 0)>>)
    /\ UNCHANGED <<step, disk>>

Child ==
    /\ ChildStep \/ ChildExit
    /\ UNCHANGED <<nochld, parent>>

-----------------------------------------------------------------------------
\* mkdtemp, inotify_init, add_watch, fork: a failure takes the directory away.
Setup ==
    /\ ppc = "setup"
    /\ \/ ppc' = "over" /\ code' = 1 /\ UNCHANGED <<child, dir>>
       \/ ppc' = "poll" /\ child' = "running" /\ dir' = TRUE /\ UNCHANGED code
    /\ UNCHANGED <<broke, printed, step, failed, open, files, events>>

\* poll() reports events, or 200 ms pass without one, or it fails.
Poll ==
    /\ ppc = "poll"
    /\ \/ queue # <<>> /\ ppc' = "read" /\ UNCHANGED broke
       \/ queue = <<>> /\ ppc' = "check" /\ UNCHANGED broke
       \/ ppc' = "reap" /\ broke' = TRUE
    /\ UNCHANGED <<code, printed, worker, disk, events>>

\* waitpid(WNOHANG) after a timeout: only this sets child_done, and only for a child
\* that it reaps. Its -1 for one that is gone without it goes round again like its 0.
CheckChild ==
    /\ ppc = "check"
    /\ IF child = "zombie"
       THEN child' = "reaped" /\ ppc' = "drain"
       ELSE ppc' = "poll" /\ UNCHANGED child
    /\ UNCHANGED <<code, broke, printed, step, failed, open, disk, events>>

TakeEvents == printed' = printed \o queue /\ queue' = <<>> /\ UNCHANGED emitted

\* read() and the walk through its buffer; a failing read leaves the loop.
ReadEvents ==
    /\ ppc = "read"
    /\ \/ TakeEvents /\ ppc' = "poll" /\ UNCHANGED broke
       \/ ppc' = "reap" /\ broke' = TRUE /\ UNCHANGED <<printed, events>>
    /\ UNCHANGED <<code, worker, disk>>

\* Wrong variant of Drain: the events of the child's last moments are not read.
DrainNothing ==
    /\ ppc = "drain"
    /\ ppc' = "cleanup"
    /\ UNCHANGED <<code, broke, printed, worker, disk, events>>

\* The second loop, once the child is known to have ended.
Drain ==
    /\ ppc = "drain"
    /\ IF queue # <<>>
       THEN \/ TakeEvents /\ UNCHANGED <<ppc, broke>>
            \/ ppc' = "cleanup" /\ broke' = TRUE /\ UNCHANGED <<printed, events>>
       ELSE ppc' = "cleanup" /\ UNCHANGED <<broke, printed, events>>
    /\ UNCHANGED <<code, worker, disk>>

\* Wrong variant of Reap: the parent does not wait for a child that still runs.
ReapNoHang ==
    /\ ppc = "reap"
    /\ child' = IF child = "zombie" THEN "reaped" ELSE child
    /\ ppc' = "cleanup"
    /\ UNCHANGED <<code, broke, printed, step, failed, open, disk, events>>

\* waitpid() after a break: it blocks until the child has ended, and may then fail.
Reap ==
    /\ ppc = "reap"
    /\ child # "running"
    /\ child' = "reaped"
    /\ ppc' = "cleanup"
    /\ UNCHANGED <<code, broke, printed, step, failed, open, disk, events>>

\* inotify_rm_watch, close, rmdir - whose result nobody looks at - and the message.
Cleanup ==
    /\ ppc = "cleanup"
    /\ dir' = (files # {})
    /\ ppc' = "over"
    /\ UNCHANGED <<code, broke, printed, worker, files, events>>

Parent ==
    /\ Setup \/ Poll \/ CheckChild \/ ReadEvents \/ Drain \/ Reap \/ Cleanup
    /\ UNCHANGED nochld

Next == Parent \/ Child \/ (ChildFails /\ UNCHANGED <<nochld, parent>>)

\* Both processes are scheduled; the child sleeps between its calls, not for ever.
Fairness == WF_vars(Parent) /\ WF_vars(Child)

Spec == Init /\ [][Next]_vars /\ Fairness

-----------------------------------------------------------------------------
Events == [mask : {"CREATE", "MODIFY", "CLOSE_WRITE", "MOVED_FROM", "MOVED_TO", "DELETE"},
           name : Names, cookie : 0..2]

TypeOK ==
    /\ ppc \in {"setup", "poll", "check", "read", "drain", "reap", "cleanup", "over"}
    /\ code \in {0, 1}
    /\ {nochld, broke, failed, dir} \subseteq BOOLEAN
    /\ step \in 1..Len(child_work) + 1
    /\ child \in {"none", "running", "zombie", "reaped"}
    /\ open \in Names \cup {"none"}
    /\ files \subseteq Names
    /\ {printed, emitted, queue} \subseteq Seq(Events)

(***************************************************************************)
(* Whenever the child ends - between poll and waitpid, or in the middle of *)
(* its work - every event up to its end is printed, once and in order,     *)
(* unless poll or read failed. A run in which nothing fails prints what    *)
(* README.md expects and leaves no directory: the two events of a rename   *)
(* come one right after the other, even when two reads got them.           *)
(***************************************************************************)
Masks(f) == [k \in DOMAIN f |-> f[k].mask]

EveryEventPrinted ==
    /\ IsPrefix(printed, emitted)
    /\ ppc \in {"cleanup", "over"} /\ ~broke => printed = emitted
    /\ ppc = "over" /\ code = 0 /\ ~failed /\ ~broke =>
        /\ ~dir
        /\ Masks(printed) = <<"CREATE", "MODIFY", "CLOSE_WRITE", "MODIFY", "CLOSE_WRITE",
                              "MOVED_FROM", "MOVED_TO", "CREATE", "MODIFY", "CLOSE_WRITE",
                              "MOVED_FROM", "MOVED_TO", "DELETE", "DELETE">>
        /\ \A k \in DOMAIN printed :
            printed[k].mask = "MOVED_FROM" => printed[k].cookie = printed[k + 1].cookie

(***************************************************************************)
(* The program leaves no child behind: it reaps it on every way out, and   *)
(* it gets out on every way, unless SIGCHLD was ignored when it was        *)
(* started: no waitpid in the loop then returns the child, and once that   *)
(* has ended and its events are printed the loop polls for ever. Only a    *)
(* failing call, one of the set-up or poll or read, ends such a run.       *)
(***************************************************************************)
EndsWithoutChild ==
    /\ <>[](/\ child \in {"none", "reaped"}
           /\ \/ ppc = "over"
              \/ nochld /\ ppc \in {"poll", "check"} /\ printed = emitted)
    /\ [](nochld /\ ppc = "over" => broke \/ code = 1)
=============================================================================
