----------------------------- MODULE KubeInspect -----------------------------
(***************************************************************************)
(* One run of kube-inspect (src/kube-inspect/cmd/kube-inspect/main.go): the*)
(* order of its report sections, what each does when it fails, and the     *)
(* four ways its packages look for the cgroup of a pod on a node.          *)
(***************************************************************************)
EXTENDS Naturals, SequencesExt

CONSTANTS
    Drivers,    \* cgroup drivers a node may use: "cgroupfs", "systemd"
    Spellings,  \* ways to write a UID: "dashes", "underscores", "plain"
    FlagSets    \* combinations of flags the tool may be given

ASSUME DriversAssumption == Drivers \subseteq {"cgroupfs", "systemd"}
ASSUME SpellingsAssumption == Spellings \subseteq {"dashes", "underscores", "plain"}

PodFlags == {"namespaces", "cgroup", "psi", "mounts", "netns", "ebpf", "sched",
             "pressure", "perf"}
NodeFlags == {"health", "virt", "arch"}

ASSUME FlagsAssumption ==
    FlagSets \subseteq SUBSET (PodFlags \cup NodeFlags \cup {"node", "json"})

VARIABLES
    driver,   \* the node's cgroup driver
    uid,      \* the pod's UID: "dashes", or "plain" for a static pod's hash
    query,    \* --pod as the user spelled it; "" when it is not given
    flags,    \* the other flags given
    alive,    \* the pod exists: it has processes and a cgroup
    pc,       \* "run", "read" (after a cgroup lookup) or "exit"
    at,       \* the section main() is at
    report,   \* what has been printed: section and outcome
    code      \* exit status

input == <<driver, uid, query, flags>>
vars == <<input, alive, pc, at, report, code>>

\* The sections that --pod opens, in the order of main(), and the others.
PodSections == <<"processes", "namespaces", "cgroup", "psi", "mounts", "netns",
                 "ebpf", "sched", "pressure", "events", "perf">>
NodeSections == <<"health", "virt", "arch">>
Sections == PodSections \o NodeSections

Outcomes == {"data", "zeros", "partial", "empty", "error"}

-----------------------------------------------------------------------------
\* How the kubelet spells the UID in the directory names: the systemd driver
\* escapes "-" as "_". "dashes" is the only spelling with a dash in it.
DirSpelling == IF driver = "systemd" /\ uid = "dashes" THEN "underscores" ELSE uid

\* The directory that holds all pods.
PodRoot == IF driver = "systemd" THEN "kubepods.slice" ELSE "kubepods"

\* ListPodProcesses: the cgroup path of a process contains the query.
ProcMatch == alive /\ query = DirSpelling

\* cgroup.findPodCgroup walks /sys/fs/cgroup/kubepods for a name that contains it.
WalkMatch == alive /\ PodRoot = "kubepods" /\ query = DirSpelling

\* sched.cgroupPath, kubelet.GetPodMemEvents and metrics.findPodCgroup glob
\* /sys/fs/cgroup/kubepods.slice/[*/]*pod<query>*.
GlobMatch == alive /\ PodRoot = "kubepods.slice" /\ query = DirSpelling

(***************************************************************************)
(* main() comes to section s with these flags. "events" is the pod half of *)
(* --pressure. No section tests flagNode: it gets the run past the usage   *)
(* test and asks for nothing, unlike what its help says (NodeInspectsPods).*)
(***************************************************************************)
Asked(s) ==
    \/ s = "processes" /\ query # ""
    \/ s \in NodeFlags \cap flags
    \/ query # "" /\ s \in PodFlags \cap flags
    \/ query # "" /\ s = "events" /\ "pressure" \in flags

\* --json with --pod: the process list is encoded and main() returns behind it.
JsonDump == "json" \in flags /\ query # ""

-----------------------------------------------------------------------------
Init ==
    /\ driver \in Drivers
    /\ uid \in {"dashes", "plain"}
    /\ query \in Spellings \cup {""}
    /\ flags \in FlagSets
    /\ alive = TRUE
    /\ pc = "run" /\ at = 0
    /\ report = <<>> /\ code = 0

\* It is never called.
Off ==
    /\ driver = "cgroupfs" /\ uid = "plain"
    /\ query = "" /\ flags = {}
    /\ alive = TRUE
    /\ pc = "exit" /\ at = 0
    /\ report = <<>> /\ code = 1

\* The pod is deleted: its processes are gone and the kubelet removes the cgroup.
PodDeleted ==
    /\ alive /\ pc # "exit"
    /\ alive' = FALSE
    /\ UNCHANGED <<input, pc, at, report, code>>

ExitWith(c) == pc' = "exit" /\ code' = c /\ UNCHANGED <<at, report>>

\* main's first test: something to do must be asked for.
ParseFlags ==
    /\ pc = "run" /\ at = 0
    /\ IF query = "" /\ flags \cap (NodeFlags \cup {"node"}) = {}
       THEN ExitWith(1)
       ELSE at' = 1 /\ UNCHANGED <<pc, report, code>>
    /\ UNCHANGED <<input, alive>>

Here == Sections[at]

Section(outcome) ==
    /\ report' = Append(report, [section |-> Here, outcome |-> outcome])
    /\ at' = at + 1
    /\ pc' = "run"
    /\ UNCHANGED code

AtSection(S) == pc = "run" /\ at \in DOMAIN Sections /\ Here \in S /\ Asked(Here)

Skip ==
    /\ pc = "run" /\ at \in DOMAIN Sections
    /\ ~Asked(Here)
    /\ at' = at + 1
    /\ UNCHANGED <<input, alive, pc, report, code>>

(***************************************************************************)
(* The process list. Its failure ends the run with status 1; with --json   *)
(* it is encoded and main returns, whatever else was asked for.            *)
(***************************************************************************)
ListProcesses ==
    /\ AtSection({"processes"})
    /\ \/ ExitWith(1)
       \/ LET outcome == IF ProcMatch THEN "data" ELSE "empty"
          IN  IF JsonDump
              THEN /\ report' = <<[section |-> "processes", outcome |-> outcome]>>
                   /\ pc' = "exit"
                   /\ UNCHANGED <<at, code>>
              ELSE Section(outcome)
    /\ UNCHANGED <<input, alive>>

\* Wrong variant of Namespaces: it matches the UID in any spelling.
NamespacesAnySpelling ==
    /\ AtSection({"namespaces"})
    /\ Section("error") \/ Section(IF alive THEN "data" ELSE "empty")
    /\ UNCHANGED <<input, alive>>

\* --namespaces: an empty list is not an error; a failed one is.
Namespaces ==
    /\ AtSection({"namespaces"})
    /\ Section("error") \/ Section(IF ProcMatch THEN "data" ELSE "empty")
    /\ UNCHANGED <<input, alive>>

\* --mounts, --netns, --ebpf: an empty list is an error, and so is a process that
\* goes away in between.
OfProcesses ==
    /\ AtSection({"mounts", "netns", "ebpf"})
    /\ Section("error") \/ (ProcMatch /\ Section("data"))
    /\ UNCHANGED <<input, alive>>

\* Wrong variant of LookUpCgroup: an error ends the report.
LookUpCgroupReturn ==
    /\ AtSection({"cgroup", "psi"})
    /\ IF WalkMatch
       THEN pc' = "read" /\ UNCHANGED <<at, report, code>>
       ELSE ExitWith(0)
    /\ UNCHANGED <<input, alive>>

\* --cgroup, --psi: the lookup, or an error.
LookUpCgroup ==
    /\ AtSection({"cgroup", "psi"})
    /\ IF WalkMatch
       THEN pc' = "read" /\ UNCHANGED <<at, report, code>>
       ELSE Section("error")
    /\ UNCHANGED <<input, alive>>

\* --cgroup, --psi: then the files, whose read errors are all dropped.
ReadCgroupFiles ==
    /\ pc = "read" /\ Here \in {"cgroup", "psi"}
    /\ Section(IF alive THEN "data" ELSE "zeros")
    /\ UNCHANGED <<input, alive>>

\* --sched: a failed list is an error; a cgroup that is not found is not. Nor is one
\* whose cpuset.cpus is empty: the report says of it, too, that it was not found.
Sched ==
    /\ AtSection({"sched"})
    /\ Section("error") \/ Section("partial") \/ (GlobMatch /\ Section("data"))
    /\ UNCHANGED <<input, alive>>

\* --pressure, the node's half: fails on a kernel without PSI.
NodePressure ==
    /\ AtSection({"pressure"})
    /\ Section("error") \/ Section("data")
    /\ UNCHANGED <<input, alive>>

\* --pressure's pod half and --perf: the lookup, then one file that may be gone.
LookUpGlob ==
    /\ AtSection({"events", "perf"})
    /\ IF GlobMatch
       THEN pc' = "read" /\ UNCHANGED <<at, report, code>>
       ELSE Section("error")
    /\ UNCHANGED <<input, alive>>

ReadGlobFile ==
    /\ pc = "read" /\ Here \in {"events", "perf"}
    /\ Section(IF alive THEN "data" ELSE "error")
    /\ UNCHANGED <<input, alive>>

\* --health: a sysctl that cannot be read is 0 or "", never an error.
Health ==
    /\ AtSection({"health"})
    /\ Section("data")
    /\ UNCHANGED <<input, alive>>

\* --virt: off a virtual machine it says so; nothing it reads can fail it.
Virt ==
    /\ AtSection({"virt"})
    /\ Section("data")
    /\ UNCHANGED <<input, alive>>

\* --arch: what it cannot read is left empty.
Arch ==
    /\ AtSection({"arch"})
    /\ Section("data")
    /\ UNCHANGED <<input, alive>>

Return ==
    /\ pc = "run" /\ at > Len(Sections)
    /\ ExitWith(0)
    /\ UNCHANGED <<input, alive>>

Main ==
    \/ ParseFlags \/ Skip \/ ListProcesses \/ Namespaces \/ OfProcesses
    \/ LookUpCgroup \/ ReadCgroupFiles \/ Sched \/ NodePressure
    \/ LookUpGlob \/ ReadGlobFile \/ Health \/ Virt \/ Arch \/ Return

Next == PodDeleted \/ Main

Spec == Init /\ [][Next]_vars

-----------------------------------------------------------------------------
Rows == [section : ToSet(Sections), outcome : Outcomes]

TypeOK ==
    /\ driver \in Drivers /\ uid \in {"dashes", "plain"}
    /\ query \in Spellings \cup {""} /\ flags \in FlagSets
    /\ alive \in BOOLEAN
    /\ pc \in {"run", "read", "exit"}
    /\ at \in 0..Len(Sections) + 1
    /\ report \in Seq(Rows)
    /\ code \in {0, 1}

Outcome(s) == {report[i].outcome : i \in {j \in DOMAIN report : report[j].section = s}}

Reported == {report[i].section : i \in DOMAIN report}

(***************************************************************************)
(* Without --node, a run that gets past the process list accounts for      *)
(* every section asked for and for no other, with data or with an error,   *)
(* once and in the order of main(): no failing section takes another one   *)
(* down. With --json and --pod it prints the process list and nothing      *)
(* else, whatever sections are asked for: README.md:152-153 gives it six   *)
(* of them and calls that a full diagnostic dump, which it is not. The     *)
(* exit status is 1 only when nothing at all was printed, for a usage      *)
(* error or a failed process list.                                         *)
(***************************************************************************)
InMainsOrder ==
    \A i, j \in DOMAIN report : i < j =>
        \E k, l \in DOMAIN Sections :
            k < l /\ report[i].section = Sections[k] /\ report[j].section = Sections[l]

SectionsAreIndependent ==
    /\ pc = "exit" /\ code = 0 /\ "node" \notin flags =>
        /\ Reported = IF JsonDump THEN {"processes"} ELSE {s \in ToSet(Sections) : Asked(s)}
        /\ InMainsOrder
    /\ pc = "exit" /\ code = 1 => report = <<>>

(***************************************************************************)
(* The sections look the pod up again and again. Once one of them has seen *)
(* it gone, none that looks in the same way shows data of it: a report is  *)
(* about one pod up to some point and about no pod after it.               *)
(***************************************************************************)
LooksLike == [cgroup |-> "walk", psi |-> "walk", events |-> "glob", perf |-> "glob",
              processes |-> "list", namespaces |-> "list"]

SeenGone(r) ==
    \/ r.section \in {"cgroup", "psi", "events", "perf"} /\ r.outcome \in {"error", "zeros"}
    \/ r.outcome = "empty"

NeverReappears ==
    \A i, j \in DOMAIN report :
        /\ i < j
        /\ {report[i].section, report[j].section} \subseteq DOMAIN LooksLike
        /\ LooksLike[report[i].section] = LooksLike[report[j].section]
        /\ SeenGone(report[i])
        => report[j].outcome # "data"

(***************************************************************************)
(* README.md:179 and :274 show --cgroup --sched --perf in one run for one  *)
(* pod. On a node where the pod is found and is not deleted meanwhile, the *)
(* three would then find its cgroup.                                       *)
(***************************************************************************)
DocumentedCombination ==
    /\ pc = "exit" /\ code = 0 /\ alive /\ Outcome("processes") = {"data"}
    /\ {"cgroup", "perf"} \subseteq flags /\ "json" \notin flags
    => Outcome("cgroup") = {"data"} /\ Outcome("perf") = {"data"}

(***************************************************************************)
(* main.go:24 and README.md:155-156 say that --node inspects all pods on   *)
(* this node. A run with it on a node that has a pod all along would then  *)
(* print at least one section about a pod.                                 *)
(***************************************************************************)
NodeInspectsPods ==
    pc = "exit" /\ code = 0 /\ alive /\ "node" \in flags
        => Reported \cap ToSet(PodSections) # {}
=============================================================================
