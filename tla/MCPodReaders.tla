----------------------------- MODULE MCPodReaders -----------------------------
(***************************************************************************)
(* PodReaders and ProcReaders for TLC, one of them at a time.              *)
(*                                                                         *)
(* PodReaders: two pids, each held by two processes in turn, one fd for    *)
(* two objects, two cpu lists, and two namespace types: one a process may  *)
(* change, and one for life. ProcReaders: the same pids, and a third for   *)
(* the list of the two highest scores out of three. What the running       *)
(* program never reads is kept at one value, so that it does not multiply  *)
(* the states.                                                             *)
(***************************************************************************)
EXTENDS PodReaders

CONSTANTS SurveyPids, SurveyRank, Scores, TopN

VARIABLES table, score, tool, root, given, stage, cursor, todo, cur, rows, map, lived

survey == <<table, score, tool, root, given, stage, cursor, todo, cur, rows, map, lived>>

Survey == INSTANCE ProcReaders WITH
    Pids <- SurveyPids, NameRank <- SurveyRank, task <- table

ASSUME SurveyPidsAssumption == SurveyPids \subseteq Nat \ {0} /\ IsFiniteSet(SurveyPids)
ASSUME ScoresAssumption == Scores \subseteq Nat
ASSUME TopNAssumption == TopN \in Nat \ {0}

\* A PID namespace is one of those namespace-inspector shows, and no file of another
\* kind is called like a namespace.
ASSUME LinksAssumption ==
    /\ "pid" \in NsLinks
    /\ {"status", "comm", "oom_score", "sched", "mountinfo", "schedstat"}
            \cap NsLinks = {}

MCPids == {9, 10}
MCSurveyPids == {8, 9, 10}
MCNameRank == [p \in MCPids |-> IF p = 10 THEN 1 ELSE p]
MCSurveyRank == [p \in MCSurveyPids |-> IF p = 10 THEN 1 ELSE p]
MCNsTypes == <<"net", "pid">>

-----------------------------------------------------------------------------
\* Of each type but these, all processes are in one namespace.
OnlyDiffer(t, P, links) ==
    \A p \in P, link \in NsLinks \ links : Present(t, p) => t[p].ns[link] = 1

\* Constraints of the run: they only limit what the environment does.
RelevantToPod ==
    /\ op \notin {"bpf", "fdinfo"} => \A p \in Pids : fdtab[p] = Closed
    /\ op # "sched" => \A p \in Pids : cpus[p] = "0"
    /\ op \in {"mounts", "netns", "sched", "perf", "latency"} => privileged
    /\ OnlyDiffer(task, Pids, IF op = "namespaces" /\ privileged THEN {"net"} ELSE {})
    /\ op = "fdinfo" => Members(task) = {}
    /\ op = "namespaces" => task[9].inc + task[10].inc <= 3

RelevantToSurvey ==
    /\ table[8].inc + table[9].inc + table[10].inc <= (IF tool = "top" THEN 4 ELSE 3)
    /\ tool # "top" =>
        /\ table[8].inc = 0 /\ 8 \notin given
        /\ \A p \in SurveyPids : score[p] = 0
    /\ tool = "inspector" => 10 \notin given
    /\ \A p \in SurveyPids : Present(table, p) => table[p].cg = "sys"
    /\ OnlyDiffer(table, SurveyPids, CASE tool = "walker" -> {"pid"}
                                       [] tool = "inspector" /\ root -> {"net"}
                                       [] OTHER -> {})
    /\ tool \notin {"walker", "inspector"} => root

Relevant == RelevantToSurvey /\ RelevantToPod

-----------------------------------------------------------------------------
\* PodReaders when it is the other module's turn, and ProcReaders likewise.
Quiet ==
    /\ task = [p \in Pids |-> NoTask(0)]
    /\ fdtab = [p \in Pids |-> Closed]
    /\ cpus = [p \in Pids |-> "0"]
    /\ stable = {} /\ ever = {} /\ kept = {}
    /\ privileged = TRUE /\ op = "mounts" /\ pc = "error"
    /\ listed = <<>> /\ at = 1 /\ left = {} /\ acc = <<>> /\ out = <<>>

SurveyQuiet ==
    /\ table = [p \in SurveyPids |-> NoTask(0)]
    /\ score = [p \in SurveyPids |-> 0]
    /\ tool = "mountinfo" /\ root = TRUE /\ given = {9}
    /\ stage = "failed" /\ cursor = 0 /\ todo = {}
    /\ cur = Survey!NoRecord /\ rows = <<>> /\ map = Survey!NoRecord
    /\ lived = {}

MCInit == (Init /\ SurveyQuiet) \/ (Quiet /\ Survey!Init)
MCNext == (Next /\ UNCHANGED survey) \/ (Survey!Next /\ UNCHANGED vars)
MCSpec == MCInit /\ [][MCNext]_<<vars, survey>>

\* The groups of proc-walker and namespace-inspector are those of the kernel.
GroupsAreNamespaces == Survey!GroupsAreNamespaces

\* The list of the highest scores leaves out no process that should be in it.
TopIsHighest == Survey!TopIsHighest

\* A report is of one holder of its pid, and never goes back to an older one.
ReportsOneHolder == Survey!ReportsOneHolder
=============================================================================
