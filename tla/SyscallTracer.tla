---------------------------- MODULE SyscallTracer ----------------------------
(***************************************************************************)
(* syscall_tracer.c: a tracer that resumes its child with PTRACE_SYSCALL   *)
(* and is told of every stop by waitpid. The kernel and the traced program *)
(* run on their own: the program may get signals, fault, exit, or be       *)
(* killed with SIGKILL at any moment, even while it is stopped. A seccomp  *)
(* filter, Yama or a container without the capability may refuse ptrace.   *)
(***************************************************************************)
EXTENDS Integers, Sequences

CONSTANTS
    MaxCalls,    \* bound: system calls of the traced program, the last is exit_group
    MaxSignals   \* bound: signals sent to it

VARIABLES
    \* the tracee, as the kernel sees it
    child,          \* none, running, stopped, zombie, reaped
    traced,         \* the kernel has granted it PTRACE_TRACEME
    mode,           \* user, or kernel: between entry and exit of a system call
    stop,           \* the last stop: "syscall" (SIGTRAP|0x80), "signal", or "job" for one
                    \* that is not the tracer's; or how it ended
    reported,       \* waitpid has returned that stop already
    faulting,       \* the next instruction faults: it will fault for ever
    entered,        \* history: system calls entered while traced
    signals,        \* signals sent so far
    \* the tracer
    nochld,         \* SIGCHLD was ignored when it was started
    pc,
    status,         \* what waitpid stored last; "none" before it stored anything
    in_syscall,
    printed         \* the lines, syscall_count of them: the number, or "garbage"

tracee == <<child, traced, mode, stop, reported, faulting, entered, signals>>
tracer == <<nochld, pc, status, in_syscall, printed>>
vars == <<tracee, tracer>>

Start(l) ==
    /\ child = "none" /\ traced = FALSE /\ mode = "user" /\ stop = "none" /\ reported = TRUE
    /\ faulting = FALSE /\ entered = 0 /\ signals = 0
    /\ pc = l /\ status = "none"
    /\ in_syscall = FALSE /\ printed = <<>>

Init == Start("fork") /\ nochld \in BOOLEAN

\* It is never started.
Idle == Start("none")

-----------------------------------------------------------------------------
(***************************************************************************)
(* The tracee stops, or ends: the tracer's next waitpid returns it. Where  *)
(* SIGCHLD is ignored, though, a child that is not traced goes without a   *)
(* zombie.                                                                 *)
(***************************************************************************)
Stop(how) ==
    /\ child' = "stopped" /\ stop' = how /\ reported' = FALSE
    /\ UNCHANGED traced

End(how) ==
    /\ stop' = how
    /\ LET vanishes == nochld /\ ~traced
       IN  /\ child' = IF vanishes THEN "reaped" ELSE "zombie"
           /\ reported' = vanishes
    /\ UNCHANGED traced

\* Under the tracer's eyes.
Runs == child = "running" /\ traced /\ ~faulting

(***************************************************************************)
(* PTRACE_TRACEME, whose result is not looked at, and raise(SIGSTOP).      *)
(* Nothing is traced before that stop, so that the first system call seen  *)
(* is one that begins after it. Where it was refused, the stop is a plain  *)
(* one, which waitpid without WUNTRACED never returns.                     *)
(***************************************************************************)
RaiseStop ==
    /\ child = "running" /\ stop = "none"
    /\ child' = "stopped"
    /\ \/ traced' = TRUE /\ stop' = "signal" /\ reported' = FALSE
       \/ traced' = FALSE /\ stop' = "job" /\ reported' = TRUE
    /\ UNCHANGED <<mode, faulting, entered, signals>>

\* SIGCONT from somebody else, which nobody has to send.
Continue ==
    /\ child = "stopped" /\ ~traced
    /\ child' = "running"
    /\ UNCHANGED <<traced, mode, stop, reported, faulting, entered, signals>>

\* The program then runs to its end without the tracer.
ExitUntraced ==
    /\ child = "running" /\ stop = "job"
    /\ End("exited")
    /\ UNCHANGED <<mode, faulting, entered, signals>>

\* execvp, and whatever the program does then: the entry of a system call.
EnterSyscall ==
    /\ Runs /\ mode = "user" /\ entered < MaxCalls
    /\ Stop("syscall")
    /\ mode' = "kernel" /\ entered' = entered + 1
    /\ UNCHANGED <<faulting, signals>>

LeaveSyscall ==
    /\ Runs /\ mode = "kernel" /\ entered < MaxCalls
    /\ Stop("syscall")
    /\ mode' = "user"
    /\ UNCHANGED <<faulting, entered, signals>>

\* exit_group has an entry and no exit: the program's end, or execvp that failed.
ExitGroup ==
    /\ Runs /\ mode = "kernel"
    /\ End("exited")
    /\ UNCHANGED <<mode, faulting, entered, signals>>

(***************************************************************************)
(* A signal stops the tracee on its way back to user mode: one that was    *)
(* sent to it, or the SIGTRAP of a successful execve.                      *)
(***************************************************************************)
Signal ==
    /\ Runs /\ mode = "user" /\ signals < MaxSignals
    /\ Stop("signal")
    /\ signals' = signals + 1
    /\ UNCHANGED <<mode, faulting, entered>>

\* SIGSEGV and its like: the tracer throws the signal away, so it faults again.
Fault ==
    /\ child = "running" /\ traced /\ mode = "user"
    /\ faulting \/ signals < MaxSignals
    /\ Stop("signal")
    /\ signals' = IF faulting THEN signals ELSE signals + 1
    /\ faulting' = TRUE
    /\ UNCHANGED <<mode, entered>>

\* Nothing holds SIGKILL back, not even a ptrace stop nobody has waited for.
Kill ==
    /\ child \in {"running", "stopped"}
    /\ End("killed")
    /\ UNCHANGED <<mode, faulting, entered, signals>>

Tracee ==
    /\ \/ RaiseStop \/ Continue \/ ExitUntraced
       \/ EnterSyscall \/ LeaveSyscall \/ ExitGroup \/ Signal \/ Fault
    /\ UNCHANGED tracer

-----------------------------------------------------------------------------
Goto(l) == pc' = l

Fork ==
    /\ pc = "fork"
    /\ \/ child' = "running" /\ Goto("wait0")
       \/ child' = child /\ Goto("failed")
    /\ UNCHANGED <<traced, mode, stop, reported, faulting, entered, signals,
                   status, in_syscall, printed>>

\* What a status can look like to the loop that judges it.
Statuses == {"exited", "syscall", "signal"}

(***************************************************************************)
(* waitpid: blocks until there is a stop or an end to report. Once the     *)
(* child is gone it fails at once and leaves `status` as it was, which is  *)
(* anything at all while no waitpid has stored a status yet.               *)
(***************************************************************************)
WaitPid ==
    \/ /\ child \in {"stopped", "zombie"} /\ ~reported
       /\ status' = stop
       /\ reported' = TRUE
       /\ child' = IF child = "zombie" THEN "reaped" ELSE child
    \/ /\ child = "reaped"
       /\ status' \in IF status = "none" THEN Statuses ELSE {status}
       /\ UNCHANGED <<reported, child>>

\* The first waitpid, and PTRACE_SETOPTIONS, which fails only for a dead child.
FirstWait ==
    /\ pc = "wait0"
    /\ WaitPid
    /\ Goto("resume")
    /\ UNCHANGED <<traced, mode, stop, faulting, entered, signals,
                   in_syscall, printed>>

\* Wrong variant of Resumed: a tracee that a signal has stopped stays so.
ResumedUnlessSignal ==
    IF child = "stopped" /\ (status = "syscall" \/ entered = 0) THEN "running" ELSE child

\* What PTRACE_SYSCALL makes of the tracee: nothing, if it has been killed.
Resumed == IF child = "stopped" THEN "running" ELSE child

\* PTRACE_SYSCALL with signal 0. Its result is not looked at.
Resume ==
    /\ pc = "resume"
    /\ child' = Resumed
    /\ Goto("wait")
    /\ UNCHANGED <<traced, mode, stop, reported, faulting, entered, signals,
                   status, in_syscall, printed>>

Wait ==
    /\ pc = "wait"
    /\ WaitPid
    /\ Goto("judge")
    /\ UNCHANGED <<traced, mode, stop, faulting, entered, signals,
                   in_syscall, printed>>

\* The branches of the loop's body, on the status waitpid has stored.
Judge(on, next) ==
    /\ pc = "judge"
    /\ on
    /\ Goto(next)
    /\ UNCHANGED <<tracee, status>>

\* Wrong variant of IsSyscallStop: without PTRACE_O_TRACESYSGOOD every stop is one.
IsAnyStop == status \in {"syscall", "signal"}

IsSyscallStop == status = "syscall"

(***************************************************************************)
(* A line for the entry of a system call. GETREGS of a tracee that was     *)
(* killed meanwhile fails, and the registers are what the stack held. With *)
(* a status that no waitpid stored the line comes again every other round, *)
(* and is kept once.                                                       *)
(***************************************************************************)
PrintEntry ==
    /\ Judge(IsSyscallStop /\ ~in_syscall, "resume")
    /\ IF child = "reaped" /\ printed # <<>>
       THEN UNCHANGED printed
       ELSE printed' = Append(printed, IF child = "stopped" THEN "nr" ELSE "garbage")
    /\ in_syscall' = TRUE

PassExit ==
    /\ Judge(IsSyscallStop /\ in_syscall, "resume")
    /\ in_syscall' = FALSE
    /\ UNCHANGED printed

\* WIFEXITED: a child killed by a signal has not exited.
IsExited == status = "exited"

PrintTotal ==
    /\ Judge(IsExited, "done")
    /\ UNCHANGED <<in_syscall, printed>>

\* Any other status, that of a child killed long ago included, goes round again.
IgnoreStatus ==
    /\ Judge(~IsExited /\ ~IsSyscallStop, "resume")
    /\ UNCHANGED <<in_syscall, printed>>

Tracer ==
    /\ \/ Fork \/ FirstWait \/ Resume \/ Wait
       \/ PrintEntry \/ PassExit \/ PrintTotal \/ IgnoreStatus
    /\ UNCHANGED nochld

Next == Tracer \/ Tracee \/ (Kill /\ UNCHANGED tracer)

(***************************************************************************)
(* The tracer is scheduled, and so is the program, traced or not, which is *)
(* taken to come to its exit. No signal and no kill has to come.           *)
(***************************************************************************)
Fairness ==
    /\ WF_vars(Tracer)
    /\ WF_vars((RaiseStop \/ EnterSyscall \/ LeaveSyscall) /\ UNCHANGED tracer)
    /\ WF_vars(ExitGroup /\ entered = MaxCalls /\ UNCHANGED tracer)
    /\ WF_vars(ExitUntraced /\ UNCHANGED tracer)
    /\ WF_vars(Fault /\ faulting /\ UNCHANGED tracer)

Spec == Init /\ [][Next]_vars /\ Fairness

-----------------------------------------------------------------------------
(***************************************************************************)
(* The tracer tells an entry from an exit only by counting stops. Whatever *)
(* signals come in between, it is never out of step with the kernel: it    *)
(* takes the tracee to be in a system call exactly when it is, and the     *)
(* total printed is the number of calls the program has entered. A number  *)
(* printed is one the tracee has asked for, but for the last line of one   *)
(* that was killed between its stop and GETREGS, or of a child that was    *)
(* never traced and is gone without a zombie. The total of a traced        *)
(* program is printed only if it has exited.                               *)
(***************************************************************************)
TracerInStep ==
    /\ pc = "resume" /\ child = "stopped" /\ reported => in_syscall = (mode = "kernel")
    /\ pc = "done" => Len(printed) = entered /\ (traced => stop = "exited")
    /\ \A k \in DOMAIN printed :
        printed[k] = "garbage" =>
            /\ stop = "killed" \/ (nochld /\ ~traced)
            /\ k = Len(printed)

(***************************************************************************)
(* The tracer ends with the program, with four exceptions. The program is  *)
(* killed: waitpid fails for ever and the loop spins on the last status.   *)
(* It faults: the signal that would end it is thrown away each time.       *)
(* ptrace was refused and nobody continues the stopped child: the first    *)
(* waitpid blocks. It was refused and SIGCHLD is ignored: the loop goes by *)
(* a status that was never stored.                                         *)
(***************************************************************************)
Endless ==
    \/ stop = "killed"
    \/ faulting
    \/ ~traced /\ (child = "stopped" \/ nochld)

TracerEnds == <>(pc \in {"done", "failed"}) \/ <>[]Endless
=============================================================================
