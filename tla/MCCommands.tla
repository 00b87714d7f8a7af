----------------------------- MODULE MCCommands -----------------------------
(***************************************************************************)
(* KubeInspect and ClusterJoin for TLC, one of them at a time: the two     *)
(* programs whose steps succeed, fail or are given up in an order of their *)
(* own. kube-inspect is called with every combination of up to three       *)
(* flags, which has README.md:156's and :179's, with those of the dump of  *)
(* README.md:153, and with all the report sections at once; cluster-join   *)
(* in every way, on machines of every kind.                                *)
(***************************************************************************)
EXTENDS KubeInspect

CONSTANTS Archs, CpuParts

VARIABLES call, step, said, status, script, agent, node, got, tick, expired, labels

join == <<call, step, said, status, script, agent, node, got, tick, expired, labels>>

Join == INSTANCE ClusterJoin WITH input <- call, pc <- step, code <- status

AllSections == PodFlags \cup NodeFlags

\* The sections README.md:153 asks for with --json.
DumpedSections == {"cgroup", "psi", "mounts", "netns", "sched", "perf"}

MCFlagSets ==
    {S \in SUBSET (AllSections \cup {"node", "json"}) : Cardinality(S) <= 3}
        \cup {AllSections, DumpedSections \cup {"json"}}

MCInit == (Init /\ Join!Off) \/ (Off /\ Join!Init)

\* One that is off has ended, and has no step.
MCNext == (Next /\ UNCHANGED join) \/ (Join!Next /\ UNCHANGED vars)

MCSpec == MCInit /\ [][MCNext]_<<vars, join>> /\ Join!Fairness

-----------------------------------------------------------------------------
\* cluster-join: on no regular way out does the installer stay in the temp directory.
NoScriptLeft == Join!NoScriptLeft

\* cluster-join: what its last words and its status stand for.
CompleteMeansReady == Join!CompleteMeansReady

\* cluster-join: a timeout is no earlier than --wait and ignores no node found Ready.
GivesUpOnlyUnready == Join!GivesUpOnlyUnready

\* cluster-join: labels come after Ready, a Raspberry Pi's on arm64 only.
LabelledOnlyReady == Join!LabelledOnlyReady

\* cluster-join ends, whatever the cluster does.
Terminates == Join!Terminates
=============================================================================
