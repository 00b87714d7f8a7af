----------------------------- MODULE MCQueueDemos -----------------------------
(***************************************************************************)
(* TcpEcho, InotifyDemo and BpfDemo for TLC, one of them at a time: the    *)
(* demos that wait for what the kernel queues for them, bytes, events or   *)
(* datagrams. They share nothing.                                          *)
(***************************************************************************)
EXTENDS TcpEcho

CONSTANTS Cpus, MaxForeign

ASSUME CpusAssumption == IsFiniteSet(Cpus)
ASSUME MaxForeignAssumption == MaxForeign \in Nat

VARIABLES
    nochld, ppc, code, broke, printed, step, child, failed, open, files, dir, emitted, queue,
    pc, sock, own, foreign, datagrams, map, cpu, got, seen, filtered, overlap

inotify == <<nochld, ppc, code, broke, printed, step, child, failed, open, files, dir,
             emitted, queue>>
bpf == <<pc, sock, own, foreign, datagrams, map, cpu, got, seen, filtered, overlap>>

Inotify == INSTANCE InotifyDemo
Bpf == INSTANCE BpfDemo WITH queue <- datagrams

MCInit ==
    \/ Init /\ Inotify!Off /\ Bpf!Off
    \/ Off /\ Inotify!Init /\ Bpf!Off
    \/ Off /\ Inotify!Off /\ Bpf!Init

\* One that is off has no step: in TcpEcho both processes have ended, and so on.
MCNext ==
    \/ Next /\ UNCHANGED <<inotify, bpf>>
    \/ Inotify!Next /\ UNCHANGED <<vars, bpf>>
    \/ Bpf!Next /\ UNCHANGED <<vars, inotify>>

MCSpec ==
    /\ MCInit /\ [][MCNext]_<<vars, inotify, bpf>>
    /\ Fairness /\ Inotify!Fairness /\ Bpf!Fairness

-----------------------------------------------------------------------------
\* inotify-demo prints every event once and in order, whenever its child ends.
EveryEventPrinted == Inotify!EveryEventPrinted

\* inotify-demo reaps its child on every way out, and gets out on every way unless
\* SIGCHLD was ignored from the start.
EndsWithoutChild == Inotify!EndsWithoutChild

\* The counter of bpf-syscall-demo is what the runs of its filter make it.
CounterBounds == Bpf!CounterBounds

\* The filter of bpf-syscall-demo lets the datagram through that recv waits for.
Terminates == Bpf!Terminates
=============================================================================
