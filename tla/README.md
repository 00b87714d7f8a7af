# A verification development for k8s-deep-dive

This directory holds TLA+ models of the programs in `src/`, TLC configurations that
check them on small instances, and TLAPS proofs about the most important of them.
`PROJECT.json` relates every definition to source lines and lists runs, mutants,
findings, hazards and theorems.

## 1. The system

The repository is a course on Linux for Kubernetes operators. It has one larger
program, `kube-inspect` (Go), which reads `/proc`, `/sys` and the cgroup file system
and reports on a pod or a node, and about twenty exercises in C and Go. No program
persists state or serves requests. What makes them hard is that they *watch a system
that goes on changing*, or that they run *two processes* (or a process and the
kernel) whose steps interleave.

| component | state | operations | interacts with | hard behaviours | what makes it correct |
|---|---|---|---|---|---|
| `kube-inspect` process scan (`internal/proc`, `ListPodProcesses`) | the listing, the record under construction, the result | list `/proc`, sort by name, five file reads per pid | the process table | fork, exit, reap, migration and pid reuse between any two reads | every process that stays in the pod is listed, none that never was in it, no pid twice, no record mixes processes unless one died |
| its callers: namespaces, mounts (`proc`), interfaces (`netns`), BPF objects (`ebpf`), affinity (`sched`), scheduler statistics (`metrics`) | position in the list, rows, seen ids | re-open files of listed pids, remove duplicates | the same table, fd tables, CPU masks | listed pids are stale when used; a process changes its namespaces between two links; partial failures are skipped | rows belong to the processes they name, removing duplicates loses nothing |
| `kube-inspect` command and pod lookup (`cmd`, `cgroup`, `kubelet`, `metrics`, `sched`) | section, exit status | the report sections, `--node`, `--json`, four ways to find a pod | kubelet, cgroup tree | a pod deleted in mid-report, two cgroup drivers, UID spellings | sections are independent, one report is consistent about the pod's end |
| `kube-inspect` node reports (`health`, `virt`, `arch`), `vcpu-inspector`, `netns-inspector` | two samples of kernel counters | read, sleep, read, subtract | `/proc/stat`, `/proc/meminfo`, `/proc/<pid>/net/dev` | unsigned wrap-around, failed reads, replaced devices, reused pids | the number printed is that of the interval |
| `cluster-join` | step, temp file, ticker, context | check, download, install, poll, label | k3s agent, API server, node controller, Ctrl-C | timer against answer, stale node status, a half successful installer | announced successes are true, no file is left, it ends |
| `tcp-echo-demo` | loop counter, buffers | fork, connect, write, read, echo | its own child over TCP | short and merged reads, either side dying, a listening socket kept open | nothing lost or reordered, the parent ends |
| `inotify-demo` | poll loop, watch | fork, watch, drain, reap | its own child, the inotify queue | child's exit against the poll timeout and the drain, ignored SIGCHLD | every event printed once, no child left |
| `bpf-syscall-demo` | map, filter, two sockets | load, attach, send, receive, look up | the kernel running the filter on any CPU | non-atomic increment, traffic before the filter, the meaning of the verdict | the counter and the datagram are what is printed |
| surveys of `/proc`: `proc-walker`, `namespace-inspector`, part d of `oom-score-demo`; readers of given pids: `proc-sched-reader`, `mount-inspector`, `sched-latency-reader`, `bpf-fdinfo-reader` | the listing, the record under construction, groups, a bounded list | list `/proc`, two to eleven reads per pid, group, insert | the process table, scores, fd tables | the same races as in `kube-inspect`, without the check of the cgroup; `unshare` and `setns` between two reads; `readdir` hands out a buffer at a time; inode 0 | groups are the kernel's, the list leaves nobody out, a report is of one holder of the pid |
| `node-health-reader` (`scanKmsg`) | position, hits | read a record, keep a hit | the ring of the kernel log | overtaken by the ring, a read that waits at its end, dictionary lines | no hit in between is left out |
| `cgroup-demo` | cgroup, limits, child | make, limit, fork, join, allocate, wait, remove | its child, the OOM killer, another run of itself | a kill at any step, stdio buffers across `fork`, the cgroup removed by another run | the child is confined, nothing is left, its end is told |
| `clone-demo`, `mini-unshare` | child, namespaces, `/proc` | clone or unshare, fork, mount, exec, wait | child and command, mount propagation | kill of either, exec that fails, ignored SIGCHLD | the command is in the namespaces asked for, the exit status is the child's |
| `oom-score-demo`, parts a to c | child, row | fork, write and read `oom_score_adj`, wait | three children one after the other | sleeps in place of synchronisation, reuse of pids | a row is about its own child |
| `syscall-tracer` | `in_syscall`, count | resume, wait, read registers | the traced program, stop by stop | signals between stops, SIGKILL at a stop, faults, a kernel that refuses `PTRACE_TRACEME` | in step with the kernel, ends with the program |

The rest is not modelled, see section 8. The Markdown chapters are prose.

## 2. Modules

    ProcTable        the kernel's process table (external)
      PodScan        ListPodProcesses over it, step by step
      PodReaders     the callers of it, over it, fd tables and CPU masks;
                     bpf-fdinfo-reader and sched-latency-reader --pod
      ProcReaders    the surveys of /proc and the readers of given pids
    PodSnapshot      what a listing promises, abstractly
    KubeInspect      main() of kube-inspect and the pod lookups
    CounterReaders   internal/virt, vcpu-inspector, netns-inspector
    KmsgScan         scanKmsg of node-health-reader
    ClusterJoin, TcpEcho, InotifyDemo, BpfDemo    the exercises of that name
    ForkStdio        two processes and their stdio buffers (external)
      CgroupDemo, CloneDemo, MiniUnshare, OomScoreDemo    the demos over it
    SyscallTracer    tracer and tracee
    MC*              instances for TLC
    ProcTableProofs                               lemmas about the table
    PodScanProofs, PodReadersProofs, KubeInspectProofs, CounterReadersProofs,
    ClusterJoinProofs, ChildDemosProofs, QueueDemosProofs    theorems

**ProcTable.** `task[p]` is the holder of pid `p`: its incarnation number, state,
cgroup and namespaces, `ns` being a function from `NsLinks`, the links below
`/proc/<pid>/ns`, to inodes. Actions `Spawn`, `Exit`, `Reap`, `Migrate`, and `ChangeNs`,
which is `unshare` or `setns` and moves a process to another namespace of one type; a
PID namespace is for life, since these calls choose only that of later children. The
incarnation tells the successive holders of one pid apart; a file read is abstracted to
the incarnation it came from (`ReadFrom`), 0 standing for the value the code substitutes
when the file is gone. A zombie is still listed and still has a cgroup; of its
namespaces it has those of `pid` and `user` (`HasNs`).

**PodSnapshot.** A query over a changing set: the answer contains all that stayed,
nothing that never was there, and one process per pid; or it is an error.

**PodScan** has one action for each system call `ListPodProcesses` makes:
`ReadDirEntry`, `ReadDirEnd` (which includes the sort by name), `ReadDirError`,
`ReadCgroup` (with the early `continue`), `ReadPPID`, `ReadComm`, `ReadPidNs` (which
appends the record) and `Return`. Between any two of them the table may change
(`Churn`). `NameRank` is the order of the pids *as names*, in which "10" is before
"9". `stable` and `ever` are history variables.

**PodReaders** takes the listing in one step, as any answer that
`PodSnapshot!Answerable` allows (what PodScan is shown to give), and then makes one step
per file opened. `op` selects the caller: `NamespaceRow`, `ReadMounts`,
`ReadInterfaces`, `ListFds`/`ReadFdInfo`/`MergeObjects`, `ReadAffinity`, and
`PodPIDs`/`ReadSchedStat`/`ReadSchedComm`, whose listing is one of its own that ignores
the error of `ReadDir` (`BrokenListing`). `kept` is the history of what each process has
had all through the call, an object at a descriptor, a CPU list or a namespace of a
type: all that a reader of several files can be held to. `MergeObjects` takes one object
per step, as the loop of the code does. Two exercises are the same loops and are
operations here too: `sched-latency-reader --all` (`listPodPIDs`, `parseSchedStat`), and
`bpf-fdinfo-reader` for one given pid (`GivenPid`, `ScanBPFFDs`, `PrintFds`), which
fails where `scanPIDFDs` passes over and removes no duplicates.

**ProcReaders.** `tool` is the program. A record's `from` says which incarnation each
file was read from, `val` what it said; `Files` is the order the files are opened in.
`os.ReadDir` lists everything first; `readdir` of the C library hands out what one
getdents has found, so that part d of `oom-score-demo` reads scores between two
getdents (`ReadDirEnd`). `Insert` is the insertion into the list of the highest
scores, `ReadMap` the table `namespace-inspector` prints of its target after the
survey. `lived` holds the processes alive ever since the call, with the score or the
namespaces they have kept for the programs that show these.

**KubeInspect** runs through `Sections` in the order of `main()`. Each section's outcome
is `data`, `zeros` (reads that failed silently), `partial`, `empty` or `error`. `Asked`
is what `main` comes to with a set of flags: `--node` is among the flags that get past
the usage test and no section tests it. `JsonDump` is the early return of `--json` with
`--pod`. `ProcMatch`, `WalkMatch` and `GlobMatch` are the lookups: by the cgroup path of
a process, by a walk of `/sys/fs/cgroup/kubepods`, by a glob of `kubepods.slice`.
`PodDeleted` may happen before any step.

**CounterReaders.** `tool` is the program that runs. Kernel actions move the
counters, replace or move devices and end the watched process; the tools read a line
at a time. `Delta` is unsigned subtraction, modulo `Modulus` for 2^64. A percentage
is compared by multiplication; at the thresholds this agrees with the code's
floating point. Hypervisor detection is a free choice.

**KmsgScan.** The log is a ring of `Capacity` records that `Printk` moves on; a record
has keywords or not, and a dictionary line, which the scanner takes for a line of its
own, or not. The loop's bound is looked at when the next line has been read, as in the
code.

**ClusterJoin, TcpEcho, InotifyDemo, BpfDemo** have one action per call that other
parties can tell apart. In ClusterJoin the ticker's channel has capacity one and
`select` picks any ready case. In TcpEcho a byte is the number of its message and a
read returns any non-empty prefix; the calls before `fork` are left out. InotifyDemo
has the child's work as a table of calls (`child_work`) and a queue of events, a
rename putting in two; with SIGCHLD ignored (`nochld`) a child that ends leaves no
zombie. The installer that cluster-join runs may end with 0 and have installed nothing,
as an error page would. BpfDemo holds the 14 instructions as data (`Prog`) and runs
them one at a time per CPU; the verifier is not modelled.

**ForkStdio** is the machine the four demos over it share: where each process is, how
it has ended, and what is in its stdout buffer. `fork` copies the buffer, `exit` and
the return from `main` write it out, `_exit`, `exec`, SIGKILL and the end of `clone`'s
function lose it; on a terminal there is none. SIGCHLD may be ignored when the program
starts, and then `waitpid` finds no child. `Kill` may strike either process at any step.

**CgroupDemo** has one action per call that matters to another party. Another run of
the demo may have left its cgroup, or may still be in it and remove it. The limit holds
what is charged; what is swapped out is not. **CloneDemo** keeps the hostname of both
UTS namespaces. In **MiniUnshare** `ns[w]` is the set of new namespaces of a process
and `proc` the mount namespaces that got the new procfs. **OomScoreDemo** leaves out
the two sleeps: their length orders nothing. **SyscallTracer** has the kernel's side
(`child`, `mode`, `stop`, `reported`) and the tracer's (`status`, `in_syscall`,
`printed`); a signal stops the tracee before it is back in user mode, and the tracer
throws it away. `PTRACE_TRACEME` may be refused (`traced`): the first stop is then a job
control stop that `waitpid` does not report, and the program runs to its end untraced
if somebody continues it. With SIGCHLD ignored such a child leaves no zombie either, and
the loop then judges a `status` nobody has stored (`Statuses`).

An operator whose comment begins "Wrong variant of" is a plausible bug; it is used to
show that a property notices it, and it is no part of any specification.

## 3. Runs

| run | shows | instance and why it is enough |
|---|---|---|
| `podscan` | `CompleteAndSound`, `InNameOrder`, `TornOnlyByDeath`, `FieldsInReadOrder`; `AnswersSnapshot` is the refinement of PodSnapshot, with its liveness | pids 9 and 10, two cgroups, two holders per pid: a pid can be reused once in mid-record, and name order differs from number order. The safety properties are proved for all sizes |
| `podreaders` | `RowOfSurvivor`, `FirstProcessOrItsSuccessor`, `BPFComplete`, `SchedComplete`, `PerfRows` of PodReaders; `GroupsAreNamespaces`, `TopIsHighest`, `ReportsOneHolder` of ProcReaders | two pids and holders, one fd, two objects, two CPU lists: a listed pid can die, be reused, and duplicate another's object. Two types of namespaces of two inodes, one that processes change before, during and after a row or a survey, and the PID namespaces, which they keep. The target of `namespace-inspector` is pid 9 or none. A third pid for `oom-score-demo`, whose list has two places for three scores: ties, a full list and a newcomer. The constraint `Relevant` fixes what the running program never reads. 1.1 million states, the longest run: 2 minutes with two workers |
| `commands` | `SectionsAreIndependent`, `NeverReappears` of KubeInspect; `NoScriptLeft`, `CompleteMeansReady`, `GivesUpOnlyUnready`, `LabelledOnlyReady`, `Terminates` of ClusterJoin | both drivers, all spellings, all sets of up to three flags, `--node` and `--json` among them, all sections at once, and the six of the README's full dump with `--json`; all inputs of `cluster-join`, three architectures, two CPU parts, an installer that may end with 0 and install nothing. The rest of the state is finite |
| `kubeinspect_lookup`, `kubeinspect_node` | find `DocumentedCombination`, `NodeInspectsPods` violated | as in `commands` |
| `counters` | `RateIsTraffic`, `StealIsReal`, `BalloonIsReal`; `KmsgComplete` of KmsgScan | two interfaces, two devices per name, counters that start at 0 or one before the wrap; CPU loads just below, at and above each threshold, an `iowait` that falls, totals that do not move or fall. Five log records in a ring of two, two events at most: the ring can overtake the reader, and either limit can end the scan |
| `clusterjoin_stale` | finds `ReadyIsFresh` violated | ClusterJoin alone, the same instance |
| `queues` | `NothingLost`, `OneMessageAtATime`, `HangsOnlyUnaccepted` of TcpEcho; `EveryEventPrinted`, `EndsWithoutChild` of InotifyDemo; `CounterBounds`, `Terminates` of BpfDemo | the code's five messages, three bytes each, so that a read can begin, cut and merge messages; the real sequence of calls of the inotify child; SIGCHLD ignored or not; two CPUs and two foreign datagrams: two filter runs can overlap and one datagram can come before the filter |
| `bpf_counter`, `bpf_payload` | find `CounterIsExact`, `PayloadArrives` violated | BpfDemo alone, as in `queues` |
| `childdemos` | `LinesAccountedFor` of all four demos over ForkStdio; `Contained`, `NothingLeft` of CgroupDemo; `FatesTold` of CloneDemo and MiniUnshare; `CommandIsIsolated`; `RowsOfOwnChildren`; `TracerInStep`, `TracerEnds` | the code's ten steps and limit of eight, its three children; three special namespaces and one that stands for the others; four system calls, the last of which is exit_group, and two signals: signals before, between and after calls; a kernel that traces or refuses to |
| `unshare_proc` | finds `HostProcUntouched` violated | MiniUnshare alone, the same namespaces |

Programs that never run together share a run where they are about the same thing: the
MC module starts one of them and leaves the variables of the others as they are, so the
states add up and do not multiply.

Bounds: `MaxInc` (holders of a pid, devices of a name), the sum of holders in
`RelevantToSurvey`, `MaxSent` (bytes of a device), `MaxForeign` (datagrams of others),
`MaxLog` (log records), `MaxCalls` and `MaxSignals` (of a traced program), `Modulus`
(1024, larger than any difference that occurs). Deadlock is not checked in any run:
every program modelled ends, or is shown to be able to hang.

What the properties say in one place: `TornOnlyByDeath` - a record of a process that
still holds its pid has no field of another; `BPFComplete` - an object a process of the
pod keeps open through the call is reported once although duplicates are removed;
`RowOfSurvivor` - in the row of a process that lives no inode is missing, and a type it
has stayed in shows its own, though it moves in the others and though the pid had other
holders; `GroupsAreNamespaces` - two processes that live on and have stayed in their
namespaces of a type are in one group of it exactly if they share the namespace, and
nobody joins them through inode 0. Of a process that unshares in the middle the types
read before and after stand side by side in one row, and neither property speaks of the
type it changed; `TopIsHighest` - a process whose score stays is left out only for
enough scores that are no lower; `ReportsOneHolder` - what is printed of a pid never
goes back to an older holder; `SectionsAreIndependent` - what fails in one section
changes no other one, and is reported; said of all flags but `--node`, whose meaning is
a finding, and with `--json` and a pod of the process list alone; `NeverReappears` -
sections that look in the same way never show the pod gone and then there;
`GivesUpOnlyUnready` - no poll that found the node Ready is thrown away, even when the
deadline passed during it; `OneMessageAtATime` - the protocol keeps its pace only when
reads are whole, which the code takes for granted; `EveryEventPrinted` - the child's end
between `poll` and `waitpid` loses nothing; `RateIsTraffic` - rates telescope for a
device that stays; `LinesAccountedFor` - each line printed comes out as often as `exit`,
`_exit`, `exec` and SIGKILL make it; `Contained` - the child holds no memory before it
is in the cgroup and the limit is set, though the parent sets the one and the child does
the other; `EndsWithoutChild` - no child is left and the program ends, or SIGCHLD was
ignored and it has printed every event and polls for ever; `TracerInStep` - the tracer,
which only counts stops, always knows whether the tracee is in a call; `TracerEnds` - it
ends with the program but for four cases, each of which section 6 has: killed, faulting,
refused and never continued, refused under an ignored SIGCHLD.

`TypeOK` is run in `podscan` only: every other property of a run fails to evaluate on a
state that is ill-typed. The `TypeOK` of PodReaders, KubeInspect, CounterReaders,
ClusterJoin, TcpEcho, InotifyDemo and BpfDemo is part of an invariant that is proved.

## 4. Fairness

- PodScan: weak fairness of the scan's steps only. Nothing is assumed of the table.
  The listing ends because getdents moves through pids in increasing order.
- ClusterJoin: weak fairness of the tool's own steps and its timers; strong fairness
  of `TimeOut`, since Go's `select` chooses at random among ready cases and a
  timeout that is ready again and again is eventually chosen. That the download, the
  installer and `kubectl` return is assumed: `http.Get` and `exec.Command` have no
  deadline here, so one that hangs would hang the tool.
- TcpEcho, InotifyDemo: weak fairness of each process. No crash and no failing call is
  forced.
- SyscallTracer: weak fairness of the tracer, and of the traced program's going on to
  its next stop; it is taken to come to its exit, traced or not. No signal (SIGCONT for
  a child that was never traced included) and no kill is forced. A
  program that faults goes on faulting, since the signal is thrown away.
- BpfDemo: weak fairness of `main` and of the CPUs that have begun a datagram; a
  datagram sent over loopback arrives. A failing `recv` is not forced.
- All others: none, safety only. A program that may be killed at any step ends in
  ways the safety properties describe.

## 5. Proofs

Every invariant named here was checked by TLC on the instance of its run before it was
proved. The theorems are about the modules' `Safe` or `Spec`; none uses fairness.

### What is assumed

Assumptions on constants are named in the module that declares them, and TLC evaluates
them in the runs:

| assumption | why the code or the kernel justifies it |
|---|---|
| `PidsAssumption`, `CgroupsAssumption`, `InodesAssumption`, `MaxIncAssumption` (ProcTable) | pids are positive, a cgroup path contains the UID or not, no namespace has inode 0 |
| `NameRankAssumption` (PodScan, PodReaders) | different pids have different names |
| `FinitePidsAssumption`, `FdsAssumption`, `ObjectsAssumption`, `NsTypesAssumption` (PodReaders) | a process table is finite, descriptors are numbers, map and program ids start at 1 (so the test for id 0 in `ebpf.go` is always passed), the namespace types shown are a list of links |
| `SurveyPidsAssumption`, `ScoresAssumption`, `TopNAssumption` (MCPodReaders) | for the surveys: pids are positive and finitely many, a score is a number, the list has a place |
| `LinksAssumption` (MCPodReaders) | `pid` is one of the namespace types `namespace-inspector` shows, and no other file it or another exercise reads is called like one |
| `DriversAssumption`, `SpellingsAssumption`, `FlagsAssumption` (KubeInspect) | the two cgroup drivers, the UID spellings and the flags the code knows |
| `ModulusAssumption`, `BornAssumption`, `BoundsAssumption` (CounterReaders) | a counter is below 2^w, and a device sends less than that in its life: past it, two readings no longer determine the difference |
| `CpuAssumption` (CounterReaders) | the ticks since boot fit the counters, and one second of stolen ticks is far from their range |
| `MaxEventsAssumption` (MCCounterReaders), `MaxForeignAssumption`, `CpusAssumption` (MCQueueDemos) | numbers; a machine has finitely many CPUs |
| `NumMsgsAssumption`, `MsgLenAssumption` (TcpEcho) | there is a message, and it has a byte |

The bounds (`MaxInc`, `MaxSent`, `MaxLog`, `MaxForeign`, `MaxCalls`, `MaxSignals`) keep
TLC's instances finite; the theorems hold for every value of them.

### The process table and the scan

`ProcTableProofs` has the lemmas about the table: a step keeps its types, incarnations
only grow, and a holder that is present after a step was present before it. In
`PodScanProofs` the argument strengthens the properties in layers:

1. `TypeInv`: `TypeOK`, and in the middle of a record `cur` is one. Gives `TypeCorrect`.
2. `History` (the history variables bracket the members now), `Accounted` (each
   process that stayed is ahead of the directory position, in the listing, being read
   or returned) and `FromPod` (what is selected has been in the pod). `Accounted` is
   needed because completeness says nothing until the end. Gives
   `ScanCompleteAndSound`.
3. `Sorted`: result, `cur` and the rest of the listing are in order of names. Gives
   `ScanInNameOrder`.
4. `Ordered`: no field is of an incarnation that has not been yet, and unread fields
   are 0. Gives `ScanFieldsInReadOrder`.
5. `Whole`: if the selected process still holds the pid, all fields read so far are
   its own. It rests on incarnations only growing. Gives `ScanTornOnlyByDeath`.
6. `ScanAnswersSnapshot`: the refinement. Initial states map to initial states, the
   table's steps to `Churn`, `Return` and `ReadDirError` to `Return`, all else
   to stutters; the answer is allowed by 2 and 3.

### The readers of the scan

`PodReadersProofs`, invariant `ReadersInv`. `Common` holds of every operation: types,
where each operation can be (`Control`), and that nothing that was listed or read is of
an incarnation still to come (`Past`). On it stands one part per operation. Each says of
the positions *already passed* what the property says of all at the end, since the
properties speak of finished reports:

- `NamespacesInv`: the rows are those of the listing up to the position, the row under
  construction included; an inode read of a process still alive is not 0, and is its own
  if it has kept its namespace of that type.
- `FileInv`: the processes passed over are dead.
- `BPFInv`, `FdInfoInv`: an object kept by a process that has been passed is reported,
  or in the part of the fds still to be merged; the ids in the result differ.
- `SchedInv`: likewise for the CPU lists a process has kept.
- `PerfInv`: a row's two reads are of holders in their order, none before the one found,
  and those of a process still alive are its own.

### The surveys

Also in `PodReadersProofs`, invariant `SurveyInv`. `SurveyPlaces` says what each program
has done at each stage.

- `HoldersInv`: no field of a record, complete or not, is of a holder still to come, and
  the record is of one holder if the first one read lives. Gives `HoldersAreReported`.
- `OwnInv`: what was read of a process that lives since the call is its own, and an
  inode is that of its namespace if it has stayed in it (`lived` says so type by type,
  and only shrinks).
- `AllUnmissed`: such a process is ahead of getdents, listed, being read, or in the
  report. With `OwnInv` it gives `GroupsOfNamespaces`.
- `TopInv`: the list is in order and has no pid that is still to be read, and each
  process that kept its score is still to come, in the list, or has a score that a full
  list has no place for. The insertion (`InsertFacts`) keeps the order and drops nothing
  but the lowest; that it has a place for the record rests on `LeastNumber`. Gives
  `TopOfTheList`. `TopPids` is needed because a pid read twice would be listed twice.

### The command

`KubeInspectProofs`, invariant `KubeInv`: the outcomes so far are, in `main`'s order, of
the sections asked for (`Accounted`); what a section found is still so unless the pod
was deleted (`FoundBefore`); once a way of looking it up has failed because of that, it
fails for good (`GoneForGood`); past the process list no `JsonDump` is under way. The
properties compare two sections, and the last two parts are what the earlier leaves to
the later.

### Counters and the kernel log

`CounterReadersProofs`, invariant `CountersInv`. `NetInv`: each sample is of the device
behind the name now, or of an earlier one, with no more bytes than it has now
(`NotAfter`, an order); so the difference of two samples of one device is below the
modulus, and `WatchRateIsTraffic` follows for every modulus. `CpuInv`: the counters are
those of the start until the second is over, and then one load away from them.
`BalloonInv`: the balloon read is one that memory has had. `KmsgInv`: the scan's position
is between the record it started from and the end of the log, and the hits, never more
than `MaxEvents`, are those of the records in between.

### cluster-join

`ClusterJoinProofs`, about the instance `Join` of ClusterJoin in MCCommands, invariant
`JoinInv`: what each step of `main` has made sure of - the
script can lie in the temp directory only at `WithScript`; what has been announced
(`Announced`) and what kubectl has shown (`Shown`) is a function of the step.

### The demos with a child

`ChildDemosProofs`, invariant `DemosInv`, one part per demo, since only one runs.
`Machine` is common to the four over ForkStdio: which of the two processes may be where,
and how it can have ended; each demo adds its own places. `CgroupInv` has what is made,
limited and joined at each place, and the relation of what is charged to what the child
holds; `UnshareInv` the namespaces of either process at each place; `OomInv` that the rows
are those of the children before `i`. `TracerInv` is the one that needs an idea: the
tracer is `InStep` with the kernel, or at a system-call stop it has not judged yet,
`OneBehind`. That is the invariant of a traced program (`Traced`); of one whose tracing
was refused it says that it enters no call and that at most one line, the last, can be
garbage (`Untraced`), and a step cannot lead from the one case to the other but at the
first stop.

`LinesInv`, on top of it, is about stdout of the four. `StdoutInv` is common to them: a
buffer holds each line that its process has printed or was forked with once while the
process runs (`Held`), and nothing afterwards; and a line has come out once for each
process that has ended by `exit` with it in its buffer (`Flushed`). That rests on no line
being printed twice, which is each demo's own: most places are passed once, in an order
(`Ordered`), and a loop prints with its counter (`CgroupPrinted`, `OomPrinted`). How
often a line occurs is a cardinality, and `TimesFacts`, `TimesAppend` and `TimesConcat`
are all that is used of it. From mini_unshare comes that its child is forked with
everything that was ever printed, `copied = said`.

### The demos with a queue

`QueueDemosProofs`.

- **TcpEcho**: `OnTheWay` says for each buffer and channel at which position in the stream
  of all messages its bytes begin, and that the next one goes on there (`Carries`). A
  step moves positions, and no sequences are compared. `Paced` adds where the parent is
  in a message when reads are whole.
- **BpfDemo**: `RunsInv` is the meaning of the filter, what each register and the stack
  hold before each of the 14 instructions (`Holds`); `Stored` are the runs whose store has
  happened but which have not returned. `Counted`: without an overlap the counter is the
  number of stores, else between 1 and it. `Alone` says that without an overlap at most
  one CPU is in the filter.
- **InotifyDemo**: `InoFlow`, what was queued is what was printed and then what waits;
  `InoWork`, which files exist and which events were queued before each call of the child
  (`FilesBefore`, `AllEvents`); `InoPlace`, the parent has stopped reading only when the
  child's end was seen and the queue was drained, or a call failed.

### What is only model-checked

- Liveness, for which fairness and ENABLED would be needed: the liveness half of
  `AnswersSnapshot`, `Terminates`, `HangsOnlyUnaccepted`, `EndsWithoutChild`, `TracerEnds`.

## 6. Findings and limits of the code

Disagreements that a run shows:

- `--cgroup` walks `/sys/fs/cgroup/kubepods`, `--sched` and `--perf` glob
  `/sys/fs/cgroup/kubepods.slice`; a node has one of the two, so the combination shown
  in `src/README.md` cannot find the pod with all of them (`kubeinspect_lookup`).
- `--node`, "Inspect all pods on this node" in the help and in `src/README.md`, does
  nothing: a run with it alone ends with 0 and prints nothing (`kubeinspect_node`).
- `cluster-join` may announce as Ready a status left over from the machine's former
  life in the cluster (`clusterjoin_stale`).
- `bpf-syscall-demo`'s counter is not exact when other programs send to the port: two
  runs of the filter at once count as one (`bpf_counter`).
- its filter returns 1, which for a socket filter is a length: the received datagram
  has no payload, unlike the output its README shows (`bpf_payload`).
- `mini-unshare --pid --mount` mounts a new `/proc` without making the mounts private
  first, as the runc sequence the course describes does: where the host's mounts are
  shared, the host gets that `/proc` (`unshare_proc`).

Limits that the properties are worded around:

- `main.go:53`: `--json` with a pod prints the process list and returns. What
  `src/README.md:152-153` calls a full diagnostic dump has none of the six sections it
  asks for; `SectionsAreIndependent` says what it has.
- `proc.go:138`: a namespace link that cannot be read is inode 0, so two dead
  processes look as if they shared a namespace.
- `unshare` or `setns` between two links of one row: the row is of no one moment, and
  `namespace-inspector`'s table of its target may show other inodes than those its
  peers were found by.
- `bpf_syscall_demo.c:272`: a datagram of another program that comes between `bind` and
  the filter is not counted, and `recv` takes it for the demo's own.
- `inotify_demo.c:183`: with SIGCHLD ignored at the start, `waitpid` never returns the
  child and the event loop never ends.
- `inotify_demo.c:245`: the result of `rmdir` is not looked at; after a child that
  failed, the message that the directory is removed is untrue.
- `virt.go:51`: a second sample that cannot be read appears as a CRITICAL steal time;
  a first one that cannot be read turns it into the steal time since boot.
- `netns-inspector`: an interface that comes back under its old name, or a reused pid,
  prints one meaningless rate.
- `tcp_echo_demo.c`: if the child dies before `accept`, the parent waits for ever.
- `proc-walker` makes a group of inode 0, that is of all processes whose namespace it
  cannot read; `namespace-inspector` leaves them out.
- `cgroup_demo.c:149` puts every SIGKILL down to the memory controller. With stdout no
  terminal, the lines printed before `fork` come out twice, or a killed child's are lost.
- `clone_demo.c`: a killed child is said to have exited with 0; if SIGCHLD is ignored
  the status printed is uninitialized. Off a terminal nothing the child prints comes
  out: the end of `clone`'s function is `_exit`.
- `mini_unshare.c`: off a terminal, `exec` without `--pid` loses what `show_ns` has
  printed, and a child whose `exec` fails prints it a second time.
- `syscall_tracer.c`: a tracee killed by a signal leaves the tracer spinning, and one
  that faults is resumed to fault again for ever, because signals are thrown away. The
  result of `PTRACE_TRACEME` (line 57) is not looked at: where it is refused, the child
  stops for good and `waitpid` at line 66 blocks until somebody continues it; with
  SIGCHLD ignored as well, the loop judges an uninitialized `status` for ever.
- `node-health-reader`: a log with fewer than fifty hits keeps the scan waiting at its
  end; what it prints as recent are the oldest hits; being overtaken looks like the end.

## 7. Plan

All modules of the plan are written, and every safety property that a passing run
checks is proved. What is left needs fairness or ENABLED, which the prover does not
have, and stays with TLC. The proofs about a new component go where those about a
related one are.

## 8. Not modelled

- `cgroup-stats`, `node-pressure-reader`, `psi-reader`, `kernel-health-reader`,
  `virtio-stats-demo`, `arm64-sysinfo`, and the sysctls of `node-health-reader`: each
  reads some files once and prints them. Nothing relates one file to another, a file
  that cannot be read is left out, and no order of events makes the output wrong.
- `page-fault-demo`: kernel counters around straight-line code of one process.
- `sched-affinity-demo`, `perf-event-demo`: what they print is measured time and
  hardware counters; no step depends on it.
- The parsers (mountinfo, net/dev, PSI, cpu.stat, memory.events, fdinfo): their input is
  what the kernel writes, in its fixed format. A read is modelled by which process or
  device it is of, and by whether it fails.
- The ARM64 and taint tables of `internal/arch` and `internal/health`, layout and
  number formatting, and the Markdown course.
- Of `sched-latency-reader --pod` the part about `cpu.stat`, which is that of `--perf`.
