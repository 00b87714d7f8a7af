------------------------------ MODULE MCPodScan ------------------------------
(***************************************************************************)
(* PodScan for TLC. Pids 9 and 10 are listed in one order and sorted in    *)
(* the other; each may be held by two processes in turn.                   *)
(***************************************************************************)
EXTENDS PodScan

MCPids == {9, 10}

\* "10" < "9"
MCNameRank == [p \in MCPids |-> IF p = 10 THEN 1 ELSE p]
=============================================================================
