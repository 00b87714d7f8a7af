----------------------------- MODULE ClusterJoin -----------------------------
(***************************************************************************)
(* src/13-rpi5-lab/exercises/cluster-join/main.go: joining this machine to *)
(* a k3s cluster. The tool installs an agent, polls the API server with    *)
(* kubectl until the node is Ready or --wait is over, and labels the node. *)
(* The agent, the API server and the controller that declares silent nodes *)
(* unready run beside it; they are external.                               *)
(***************************************************************************)
EXTENDS FiniteSets

CONSTANTS
    Archs,     \* architectures the node may report: "arm64", "amd64", others
    CpuParts   \* values of "CPU part" in this machine's /proc/cpuinfo

VARIABLES
    input,     \* how the tool was called and on which machine
    pc,        \* the step of main() it is at
    said,      \* the successes it has announced
    code,      \* exit status
    script,    \* the downloaded installer lies in the temp directory
    agent,     \* k3s-agent on this machine: "none", "broken" or "running"
    node,      \* the Node object of this machine's name, at the API server
    got,       \* what the last kubectl read of it
    tick,      \* the ticker's channel, of capacity one, holds a tick
    expired,   \* the context of --wait is done
    labels     \* hardware labels on the Node object

tool == <<pc, said, code, script>>
world == <<agent, node, labels>>
timers == <<tick, expired>>
vars == <<input, tool, world, got, timers>>

\* A Node object: what its Ready condition says, and who said it: `fresh` tells
\* a status this run's agent has posted from one left from an earlier life.
Nodes == [ready : {"absent", "no", "yes"}, fresh : BOOLEAN]
NoNode == [ready |-> "absent", fresh |-> FALSE]

Inputs == [valid : BOOLEAN,      \* --server and --token are there and well formed
           dry : BOOLEAN,        \* --dry-run
           root : BOOLEAN,       \* running as root
           kubeconf : BOOLEAN,   \* --kubeconfig names a file with the cluster's CA
           sameName : BOOLEAN,   \* the name polled is the one the agent registers
           arch : Archs,
           part : CpuParts]

Init ==
    /\ input \in Inputs
    /\ pc = "start" /\ said = {} /\ code = 0
    /\ script = FALSE
    /\ agent = "none"
    /\ node \in {NoNode} \cup [ready : {"no", "yes"}, fresh : {FALSE}]
    /\ got = NoNode
    /\ tick = FALSE /\ expired = FALSE
    /\ labels = {}

\* It is never called.
Off ==
    /\ input = [valid |-> FALSE, dry |-> FALSE, root |-> FALSE, kubeconf |-> FALSE,
                sameName |-> FALSE, arch |-> "none", part |-> "none"]
    /\ pc = "exit" /\ said = {} /\ code = 1
    /\ script = FALSE
    /\ agent = "none"
    /\ node = NoNode /\ got = NoNode
    /\ tick = FALSE /\ expired = FALSE
    /\ labels = {}

-----------------------------------------------------------------------------
Goto(l) == pc' = l /\ UNCHANGED <<said, code>>
Succeed(m, l) == pc' = l /\ said' = said \cup {m} /\ UNCHANGED code
ExitWith(c) == pc' = "exit" /\ code' = c /\ UNCHANGED said

\* The usage test and validateInputs.
CheckInputs ==
    /\ pc = "start"
    /\ IF input.valid THEN Goto("connect") ELSE ExitWith(1)
    /\ UNCHANGED <<input, script, world, got, timers>>

\* checkConnectivity: the CA comes from --kubeconfig; the server may not answer
\* within 5 seconds. Any HTTP answer counts as one, whatever its status.
CheckConnectivity ==
    /\ pc = "connect"
    /\ \/ ExitWith(1)
       \/ input.kubeconf /\ Succeed("reachable", "command")
    /\ UNCHANGED <<input, script, world, got, timers>>

\* --dry-run returns after the command is shown; otherwise root is required.
ShowCommand ==
    /\ pc = "command"
    /\ IF input.dry THEN ExitWith(0)
       ELSE IF input.root THEN Goto("download") ELSE ExitWith(1)
    /\ UNCHANGED <<input, script, world, got, timers>>

\* http.Get and CreateTemp: nothing is left if one of them fails.
CreateScript ==
    /\ pc = "download"
    /\ \/ ExitWith(1) /\ UNCHANGED script
       \/ Goto("copy") /\ script' = TRUE
    /\ UNCHANGED <<input, world, got, timers>>

\* Wrong variant of FillScript: a failed copy leaves the file.
FillScriptLeaves ==
    /\ pc = "copy"
    /\ ExitWith(1) \/ Goto("install")
    /\ UNCHANGED <<input, script, world, got, timers>>

\* io.Copy and Chmod: the file is removed again if one of them fails.
FillScript ==
    /\ pc = "copy"
    /\ \/ ExitWith(1) /\ script' = FALSE
       \/ Goto("install") /\ UNCHANGED script
    /\ UNCHANGED <<input, world, got, timers>>

\* sh runs the script, which may fail before or after it has set the agent up;
\* nothing but the exit status of sh tells whether it did. The HTTP status of the
\* download is not looked at: what runs may be an error page, and do nothing.
RunInstaller ==
    /\ pc = "install"
    /\ agent' \in {"none", "broken", "running"}
    /\ Goto("installed") \/ Goto("failed")
    /\ UNCHANGED <<input, script, node, labels, got, timers>>

\* The deferred os.Remove, then main's test of the error.
RemoveScript ==
    /\ pc \in {"installed", "failed"}
    /\ script' = FALSE
    /\ IF pc = "installed" THEN Succeed("installed", "select") ELSE ExitWith(1)
    /\ UNCHANGED <<input, world, got, timers>>

\* waitForNodeReady, the ticker's case: a kubectl is started. When the context is
\* done as well, select takes either case.
StartPoll ==
    /\ pc = "select"
    /\ tick
    /\ tick' = FALSE
    /\ Goto("kubectl")
    /\ UNCHANGED <<input, script, world, got, expired>>

\* Wrong variant of TimeOut: the deadline is also looked at when kubectl is done.
TimeOutAfterPoll ==
    /\ pc \in {"select", "judge"}
    /\ expired
    /\ ExitWith(1)
    /\ UNCHANGED <<input, script, world, got, timers>>

\* Wrong variant of TimeOut: a waiting tick goes first.
TimeOutYields ==
    /\ pc = "select"
    /\ expired /\ ~tick
    /\ ExitWith(1)
    /\ UNCHANGED <<input, script, world, got, timers>>

TimeOut ==
    /\ pc = "select"
    /\ expired
    /\ ExitWith(1)
    /\ UNCHANGED <<input, script, world, got, timers>>

\* getNode: kubectl has no deadline. It fails, or finds no such node, or prints
\* the object as it is when the API server answers.
KubectlAnswers ==
    /\ pc = "kubectl"
    /\ got' \in {NoNode} \cup (IF input.sameName THEN {node} ELSE {})
    /\ Goto("judge")
    /\ UNCHANGED <<input, script, world, timers>>

\* Wrong variant of Judge: a failed kubectl is taken for an answer.
JudgeFailed ==
    /\ pc = "judge"
    /\ IF got.ready # "no" THEN Succeed("ready", "label") ELSE Goto("select")
    /\ UNCHANGED <<input, script, world, got, timers>>

Judge ==
    /\ pc = "judge"
    /\ IF got.ready = "yes" THEN Succeed("ready", "label") ELSE Goto("select")
    /\ UNCHANGED <<input, script, world, got, timers>>

\* Wrong variant of NodeLabels: the CPU decides, whatever the architecture.
NodeLabelsByCpu ==
    {"arch"} \cup (IF input.part = "0xd0b" THEN {"cpu", "model"} ELSE {})

\* buildNodeLabels: the architecture the node reports, the CPU of this machine.
NodeLabels ==
    CASE input.arch = "arm64" ->
            {"arch", "type"} \cup (IF input.part = "0xd0b" THEN {"cpu", "model"} ELSE {})
      [] input.arch = "amd64" -> {"arch"}
      [] OTHER -> {}

\* applyLabels: a failure is reported and changes nothing else.
ApplyLabels ==
    /\ pc = "label"
    /\ \/ NodeLabels = {} /\ UNCHANGED <<labels, said>>
       \/ NodeLabels # {} /\ UNCHANGED <<labels, said>>
       \/ /\ NodeLabels # {}
          /\ node.ready # "absent"
          /\ labels' = labels \cup NodeLabels
          /\ said' = said \cup {"labels"}
    /\ pc' = "complete"
    /\ UNCHANGED <<input, code, script, agent, node, got, timers>>

JoinComplete ==
    /\ pc = "complete"
    /\ pc' = "exit" /\ said' = said \cup {"complete"}
    /\ UNCHANGED <<input, code, script, world, got, timers>>

Tool ==
    \/ CheckInputs \/ CheckConnectivity \/ ShowCommand
    \/ CreateScript \/ FillScript \/ RunInstaller \/ RemoveScript
    \/ StartPoll \/ KubectlAnswers \/ Judge
    \/ ApplyLabels \/ JoinComplete

-----------------------------------------------------------------------------
Over == pc \in {"exit", "killed"}

\* Ctrl-C: no handler, so no deferred call runs; a running installer dies as well.
Interrupt ==
    /\ ~Over
    /\ pc' = "killed"
    /\ agent' \in IF pc = "install" THEN {"none", "broken", "running"} ELSE {agent}
    /\ UNCHANGED <<input, said, code, script, node, labels, got, timers>>

\* The runtime's timers, while waitForNodeReady runs. A tick that finds the
\* channel full is dropped.
Waiting == pc \in {"select", "kubectl", "judge"}

Tick == Waiting /\ ~tick /\ tick' = TRUE /\ UNCHANGED <<input, tool, world, got, expired>>

Expire == Waiting /\ ~expired /\ expired' = TRUE /\ UNCHANGED <<input, tool, world, got, tick>>

\* The agent registers the node and posts its status, Ready or not.
AgentPosts ==
    /\ agent = "running"
    /\ node' \in [ready : {"no", "yes"}, fresh : {TRUE}]
    /\ node' # node
    /\ UNCHANGED <<input, tool, agent, labels, got, timers>>

\* The node lifecycle controller: no heartbeat, so Ready becomes Unknown.
NodeGoesUnknown ==
    /\ node.ready = "yes"
    /\ node' = [node EXCEPT !.ready = "no"]
    /\ UNCHANGED <<input, tool, agent, labels, got, timers>>

World == AgentPosts \/ NodeGoesUnknown \/ Tick \/ Expire

Next == Tool \/ TimeOut \/ Interrupt \/ World

(***************************************************************************)
(* The tool's steps and the timers go on. That the download, the installer *)
(* and kubectl return is assumed: the tool gives none of them a deadline.  *)
(* select picks among ready cases at random, so a timeout that is ready    *)
(* again and again is taken: that is strong fairness, and nothing in the   *)
(* code gives more.                                                        *)
(***************************************************************************)
Fairness ==
    /\ WF_vars(Tool) /\ WF_vars(Expire) /\ WF_vars(Tick)
    /\ SF_vars(TimeOut)

Spec == Init /\ [][Next]_vars /\ Fairness

-----------------------------------------------------------------------------
TypeOK ==
    /\ input \in Inputs
    /\ pc \in {"start", "connect", "command", "download", "copy", "install", "installed",
               "failed", "select", "kubectl", "judge", "label", "complete", "exit", "killed"}
    /\ said \subseteq {"reachable", "installed", "ready", "labels", "complete"}
    /\ code \in {0, 1}
    /\ script \in BOOLEAN
    /\ agent \in {"none", "broken", "running"}
    /\ node \in Nodes /\ got \in Nodes
    /\ tick \in BOOLEAN /\ expired \in BOOLEAN
    /\ labels \subseteq {"arch", "type", "cpu", "model"}

(***************************************************************************)
(* However the tool returns, the installer it downloaded is not left in    *)
(* the temp directory.                                                     *)
(***************************************************************************)
NoScriptLeft == pc = "exit" => ~script

(***************************************************************************)
(* "Join Complete" and status 0 stand for a node that kubectl showed Ready *)
(* after the installer had succeeded; every other end but --dry-run has    *)
(* status 1. Labels that could not be applied do not change that.          *)
(***************************************************************************)
CompleteMeansReady ==
    pc = "exit" /\ code = 0 =>
        \/ said = {"reachable"} /\ input.dry
        \/ {"installed", "ready", "complete"} \subseteq said /\ got.ready = "yes"

(***************************************************************************)
(* The tool gives up only after --wait is over, and it never throws away a *)
(* poll that found the node Ready, not even one that ended too late.       *)
(***************************************************************************)
GivesUpOnlyUnready ==
    pc = "exit" /\ code = 1 /\ "installed" \in said => expired /\ got.ready # "yes"

(***************************************************************************)
(* The hardware labels are put on a node only after it was seen Ready, and *)
(* a node is never labelled as a Raspberry Pi of another architecture.     *)
(***************************************************************************)
LabelledOnlyReady ==
    [][labels' # labels =>
        /\ {"installed", "ready"} \subseteq said
        /\ "cpu" \in labels' => "type" \in labels' /\ input.arch = "arm64"]_vars

(***************************************************************************)
(* The tool comes to an end whatever the cluster does.                     *)
(***************************************************************************)
Terminates == <>Over

(***************************************************************************)
(* README.md:83 of the exercise: the transition from NotReady to Ready is  *)
(* what the tool waits for. A node it announces as Ready would then have   *)
(* been posted Ready by the agent it installed.                            *)
(***************************************************************************)
ReadyIsFresh == "ready" \in said => got.fresh
=============================================================================
