-------------------------- MODULE ClusterJoinProofs --------------------------
(***************************************************************************)
(* Proofs about cluster-join, for every set of architectures and of CPU    *)
(* parts: what the tool leaves behind, what its last words and its status  *)
(* stand for, and when it labels a node, whatever the agent, the API       *)
(* server, the timers and Ctrl-C do in between.                            *)
(***************************************************************************)
EXTENDS MCCommands, TLAPS

\* The steps of main() while the installer's file may lie there.
WithScript == {"copy", "install", "installed", "failed", "killed"}

\* What has been announced, and what kubectl has shown, at each step of main().
Announced ==
    /\ step \in {"start", "connect"} => said = {}
    /\ step \in {"command", "download", "copy", "install", "installed", "failed"} =>
        said = {"reachable"}
    /\ step \in {"select", "kubectl", "judge"} => said = {"reachable", "installed"}
    /\ step = "label" => said = {"reachable", "installed", "ready"}
    /\ step = "complete" => {"installed", "ready"} \subseteq said

Shown ==
    /\ step \notin {"judge", "label", "complete", "exit", "killed"} => got.ready # "yes"
    /\ step \in {"label", "complete"} => got.ready = "yes"

JoinInv ==
    /\ Join!TypeOK
    /\ script => step \in WithScript
    /\ status = 1 => step = "exit"
    /\ Announced
    /\ Shown
    /\ CompleteMeansReady
    /\ GivesUpOnlyUnready

\* What kubectl and the agent say of a node is a Node object.
LEMMA NodeValues ==
  /\ Join!NoNode \in Join!Nodes /\ Join!NoNode.ready = "absent"
  /\ [ready : {"no", "yes"}, fresh : {FALSE}] \subseteq Join!Nodes
  /\ [ready : {"no", "yes"}, fresh : {TRUE}] \subseteq Join!Nodes
  BY DEF Join!Nodes, Join!NoNode

\* Nothing is downloaded and nothing is known at the start.
LEMMA JoinInvInit == Join!Init => JoinInv
<1> SUFFICES ASSUME Join!Init PROVE JoinInv
  OBVIOUS
<1>1. node \in Join!Nodes /\ got \in Join!Nodes /\ got.ready = "absent"
  BY NodeValues DEF Join!Init
<1>2. Join!TypeOK
  BY <1>1 DEF Join!Init, Join!TypeOK
<1> QED
  BY <1>1, <1>2 DEF Join!Init, JoinInv, Announced, Shown, CompleteMeansReady,
                    Join!CompleteMeansReady, GivesUpOnlyUnready,
                    Join!GivesUpOnlyUnready

-----------------------------------------------------------------------------
\* The steps before the installer runs announce at most that the server answers.
LEMMA PrepareStep ==
  ASSUME JoinInv,
         \/ Join!CheckInputs \/ Join!CheckConnectivity \/ Join!ShowCommand
         \/ Join!CreateScript \/ Join!FillScript
  PROVE  JoinInv'
<1> USE DEF JoinInv, Join!TypeOK, WithScript, Announced, Shown, CompleteMeansReady,
            Join!CompleteMeansReady, GivesUpOnlyUnready, Join!GivesUpOnlyUnready,
            Join!Goto, Join!Succeed, Join!ExitWith, Join!world, Join!timers
<1>1. CASE Join!CheckInputs
  BY <1>1 DEF Join!CheckInputs
<1>2. CASE Join!CheckConnectivity
  BY <1>2 DEF Join!CheckConnectivity
<1>3. CASE Join!ShowCommand
  BY <1>3 DEF Join!ShowCommand
<1>4. CASE Join!CreateScript
  <2>1. CASE Join!ExitWith(1)
    BY <1>4, <2>1 DEF Join!CreateScript
  <2>2. CASE Join!Goto("copy")
    BY <1>4, <2>2 DEF Join!CreateScript
  <2> QED
    BY <1>4, <2>1, <2>2 DEF Join!CreateScript
<1>5. CASE Join!FillScript
  BY <1>5 DEF Join!FillScript
<1>6. QED
  BY <1>1, <1>2, <1>3, <1>4, <1>5

\* The installer, and the wait for the node.
LEMMA InstallStep ==
  ASSUME JoinInv,
         \/ Join!RunInstaller \/ Join!RemoveScript \/ Join!StartPoll
         \/ Join!KubectlAnswers \/ Join!Judge \/ Join!TimeOut
  PROVE  JoinInv'
<1> USE DEF JoinInv, Join!TypeOK, WithScript, Announced, Shown, CompleteMeansReady,
            Join!CompleteMeansReady, GivesUpOnlyUnready, Join!GivesUpOnlyUnready,
            Join!Goto, Join!Succeed, Join!ExitWith, Join!world, Join!timers
<1>1. CASE Join!RunInstaller
  BY <1>1 DEF Join!RunInstaller
<1>2. CASE Join!RemoveScript
  <2>1. CASE step = "installed"
    BY <1>2, <2>1 DEF Join!RemoveScript
  <2>2. CASE step = "failed"
    <3>1. /\ step' = "exit" /\ status' = 1 /\ script' = FALSE /\ said' = {"reachable"}
          /\ UNCHANGED <<call, Join!world, got, Join!timers>>
      BY <1>2, <2>2 DEF Join!RemoveScript
    <3> QED
      BY <3>1
  <2> QED
    BY <1>2, <2>1, <2>2 DEF Join!RemoveScript
<1>3. CASE Join!StartPoll
  BY <1>3 DEF Join!StartPoll
<1>4. CASE Join!KubectlAnswers
  <2>1. got' \in Join!Nodes
    BY <1>4, NodeValues DEF Join!KubectlAnswers
  <2> QED
    BY <1>4, <2>1 DEF Join!KubectlAnswers
<1>5. CASE Join!Judge
  BY <1>5 DEF Join!Judge
<1>6. CASE Join!TimeOut
  BY <1>6 DEF Join!TimeOut
<1>7. QED
  BY <1>1, <1>2, <1>3, <1>4, <1>5, <1>6

\* The labels are among those of the tables of buildNodeLabels; those of a
\* Raspberry Pi come with the type, and on arm64 only.
LEMMA NodeLabelsOfArch ==
  /\ Join!NodeLabels \subseteq {"arch", "type", "cpu", "model"}
  /\ "cpu" \in Join!NodeLabels => "type" \in Join!NodeLabels /\ call.arch = "arm64"
<1>1. CASE call.arch = "arm64"
  BY <1>1 DEF Join!NodeLabels
<1>2. CASE call.arch = "amd64"
  BY <1>2 DEF Join!NodeLabels
<1>3. CASE call.arch \notin {"arm64", "amd64"}
  BY <1>3 DEF Join!NodeLabels
<1>4. QED
  BY <1>1, <1>2, <1>3

\* The labels, and the last words.
LEMMA FinishStep ==
  ASSUME JoinInv, Join!ApplyLabels \/ Join!JoinComplete
  PROVE  JoinInv'
<1> USE DEF JoinInv, Join!TypeOK, WithScript, Announced, Shown, CompleteMeansReady,
            Join!CompleteMeansReady, GivesUpOnlyUnready, Join!GivesUpOnlyUnready,
            Join!world, Join!timers
<1>1. CASE Join!ApplyLabels
  BY <1>1, NodeLabelsOfArch DEF Join!ApplyLabels
<1>2. CASE Join!JoinComplete
  BY <1>2 DEF Join!JoinComplete
<1>3. QED
  BY <1>1, <1>2

\* What runs beside the tool changes neither what it has said nor what it was shown.
LEMMA WorldStep ==
  ASSUME JoinInv, Join!World
  PROVE  JoinInv'
<1> USE DEF JoinInv, Join!TypeOK, WithScript, Announced, Shown, CompleteMeansReady,
            Join!CompleteMeansReady, GivesUpOnlyUnready, Join!GivesUpOnlyUnready,
            Join!tool, Join!world, Join!timers
<1>1. CASE Join!AgentPosts
  <2>1. node' \in Join!Nodes
    BY <1>1, NodeValues DEF Join!AgentPosts
  <2> QED
    BY <1>1, <2>1 DEF Join!AgentPosts
<1>2. CASE Join!NodeGoesUnknown
  BY <1>2 DEF Join!NodeGoesUnknown, Join!Nodes
<1>3. CASE Join!Tick
  BY <1>3 DEF Join!Tick
<1>4. CASE Join!Expire
  BY <1>4 DEF Join!Expire, Join!Waiting
<1>5. QED
  BY <1>1, <1>2, <1>3, <1>4 DEF Join!World

\* Ctrl-C cancels the context and changes nothing else.
LEMMA InterruptStep ==
  ASSUME JoinInv, Join!Interrupt
  PROVE  JoinInv'
  BY DEF Join!Interrupt, Join!Over, JoinInv, Join!TypeOK, WithScript, Announced,
         Shown, CompleteMeansReady, Join!CompleteMeansReady, GivesUpOnlyUnready,
         Join!GivesUpOnlyUnready, Join!world, Join!timers

\* Every step of cluster-join, its timers and its surroundings keeps the invariant.
LEMMA JoinInvStep == JoinInv /\ [Join!Next]_(Join!vars) => JoinInv'
<1> SUFFICES ASSUME JoinInv, [Join!Next]_(Join!vars) PROVE JoinInv'
  OBVIOUS
<1>1. CASE UNCHANGED Join!vars
  BY <1>1 DEF Join!vars, Join!tool, Join!world, Join!timers, JoinInv, Join!TypeOK,
              WithScript, Announced, Shown, CompleteMeansReady,
              Join!CompleteMeansReady, GivesUpOnlyUnready, Join!GivesUpOnlyUnready
<1>2. QED
  BY <1>1, PrepareStep, InstallStep, FinishStep, WorldStep, InterruptStep
  DEF Join!Next, Join!Tool

\* What cluster-join knows, holds on disk and has printed belong together at every step.
THEOREM JoinInvariant == Join!Spec => []JoinInv
  BY JoinInvInit, JoinInvStep, PTL DEF Join!Spec

-----------------------------------------------------------------------------
\* The variables keep their types, whatever the node reports of itself.
THEOREM JoinTypeCorrect == Join!Spec => []Join!TypeOK
<1>1. JoinInv => Join!TypeOK
  BY DEF JoinInv
<1>2. QED
  BY <1>1, JoinInvariant, PTL

(***************************************************************************)
(* Every way for main() to return passes the removal of the installer, or  *)
(* was taken before there was one.                                         *)
(***************************************************************************)
THEOREM JoinLeavesNoScript == Join!Spec => []NoScriptLeft
<1>1. JoinInv => NoScriptLeft
  BY DEF JoinInv, NoScriptLeft, Join!NoScriptLeft, WithScript
<1>2. QED
  BY <1>1, JoinInvariant, PTL

(***************************************************************************)
(* "Join Complete" with status 0 is said of a node that kubectl showed     *)
(* Ready after the installer had succeeded.                                *)
(***************************************************************************)
THEOREM JoinCompleteMeansReady == Join!Spec => []CompleteMeansReady
<1>1. JoinInv => CompleteMeansReady
  BY DEF JoinInv
<1>2. QED
  BY <1>1, JoinInvariant, PTL

(***************************************************************************)
(* The tool gives up only when --wait is over, and never on a poll that    *)
(* found the node Ready.                                                   *)
(***************************************************************************)
THEOREM JoinGivesUpOnlyUnready == Join!Spec => []GivesUpOnlyUnready
<1>1. JoinInv => GivesUpOnlyUnready
  BY DEF JoinInv
<1>2. QED
  BY <1>1, JoinInvariant, PTL

(***************************************************************************)
(* No step but applyLabels touches the labels, and that one runs after the *)
(* node was seen Ready and keeps a Raspberry Pi's labels to arm64.         *)
(***************************************************************************)
THEOREM JoinLabelsOnlyReady == Join!Spec => LabelledOnlyReady
<1> DEFINE Labelled ==
        labels' # labels =>
            /\ {"installed", "ready"} \subseteq said
            /\ "cpu" \in labels' => "type" \in labels' /\ call.arch = "arm64"
           CpuIsTyped == "cpu" \in labels => "type" \in labels /\ call.arch = "arm64"
<1>1. Join!Init => CpuIsTyped
  BY DEF Join!Init
<1>2. ASSUME JoinInv, CpuIsTyped, [Join!Next]_(Join!vars)
      PROVE  CpuIsTyped' /\ [Labelled]_(Join!vars)
  <2>1. CASE Join!ApplyLabels
    <3>1. {"installed", "ready"} \subseteq said
      BY <1>2, <2>1 DEF Join!ApplyLabels, JoinInv, Announced
    <3>2. call' = call /\ (labels' = labels \/ labels' = labels \cup Join!NodeLabels)
      BY <2>1 DEF Join!ApplyLabels
    <3> QED
      BY <1>2, <3>1, <3>2, NodeLabelsOfArch
  <2>2. CASE ~Join!ApplyLabels
    <3>1. UNCHANGED <<labels, call>>
      BY <1>2, <2>2
      DEF Join!Next, Join!Tool, Join!World, Join!CheckInputs,
          Join!CheckConnectivity, Join!ShowCommand, Join!CreateScript,
          Join!FillScript, Join!RunInstaller, Join!RemoveScript, Join!StartPoll,
          Join!KubectlAnswers, Join!Judge, Join!JoinComplete, Join!TimeOut,
          Join!Interrupt, Join!AgentPosts, Join!NodeGoesUnknown, Join!Tick,
          Join!Expire, Join!vars, Join!world
    <3> QED
      BY <1>2, <3>1
  <2>3. QED
    BY <2>1, <2>2
<1>3. QED
  BY <1>1, <1>2, JoinInvariant, PTL DEF Join!Spec, LabelledOnlyReady,
                                        Join!LabelledOnlyReady
=============================================================================
