----------------------------- MODULE OomScoreDemo -----------------------------
(***************************************************************************)
(* oom_score_demo.c, parts a to c: three children one after the other, each*)
(* writing its oom_score_adj while the parent reads it. Sleeps of 50 and   *)
(* 200 ms are to put the write before the reads and the end after them;    *)
(* nothing makes them. Part d is an operation of ProcReaders.              *)
(***************************************************************************)
EXTENDS ForkStdio

CONSTANT
    Children   \* how many there are: 3

VARIABLES
    i,      \* the loop counter
    adj,    \* oom_score_adj of the child: "own" once written, else "inherited"
    row,    \* the value read first, of the line under construction
    rows    \* the lines printed about the children

local == <<i, adj, row, rows>>
vars == <<setting, processes, local>>

Idle == i = 1 /\ adj = "inherited" /\ row = "none" /\ rows = <<>>

Init == StdioInit("self") /\ Idle

-----------------------------------------------------------------------------
ShowSelf ==
    /\ Runs("parent", "self")
    /\ printf("parent", 0)
    /\ Goto("parent", "fork")
    /\ UNCHANGED local

\* A fork that fails leaves -1 in `child`, and goes on as if it had not.
ForkChild ==
    /\ Runs("parent", "fork")
    /\ i <= Children
    /\ \/ Fork("set_oom_adj", "adj")
       \/ /\ fate' = [fate EXCEPT !["child"] = None]
          /\ at' = [at EXCEPT !["parent"] = "adj"]
          /\ Quiet /\ UNCHANGED copied
    /\ adj' = "inherited"
    /\ UNCHANGED <<i, row, rows>>

(***************************************************************************)
(* What a file of the child says: "none" (-1) without a child. A child     *)
(* that is reaped as soon as it ends may have left its pid to another      *)
(* process. A zombie keeps its adj and scores 0.                           *)
(***************************************************************************)
Values(file) ==
    IF fate["child"] = None THEN {"none"}
    ELSE IF fate["child"] = Running THEN {adj}
    ELSE IF nochld THEN {"none", "other"}
    ELSE IF file = "adj" THEN {adj} ELSE {"zero"}

ReadAdj ==
    /\ Runs("parent", "adj")
    /\ row' \in Values("adj")
    /\ Goto("parent", "score")
    /\ Quiet /\ UNCHANGED <<i, adj, rows>>

\* The second file, and the line.
show_oom_info ==
    /\ Runs("parent", "score")
    /\ \E v \in Values("score") :
        rows' = Append(rows, [child |-> i, adj |-> row, score |-> v])
    /\ printf("parent", i)
    /\ Goto("parent", "wait")
    /\ UNCHANGED <<i, adj, row>>

\* Wrong variant of WaitChild: the next child is forked at once.
WaitChildNot ==
    /\ Runs("parent", "wait")
    /\ i' = i + 1
    /\ Goto("parent", "fork")
    /\ Quiet /\ UNCHANGED <<adj, row, rows>>

\* waitpid; for -1 it would wait for any child, and there is none.
WaitChild ==
    /\ Runs("parent", "wait")
    /\ ChildWaitable
    /\ i' = i + 1
    /\ Goto("parent", "fork")
    /\ Quiet /\ UNCHANGED <<adj, row, rows>>

ShowTop ==
    /\ Runs("parent", "fork") /\ i > Children
    /\ printf("parent", 0)
    /\ Goto("parent", "return")
    /\ UNCHANGED local

Return ==
    /\ Runs("parent", "return")
    /\ Exit("parent", 0)
    /\ UNCHANGED local

Parent ==
    ShowSelf \/ ForkChild \/ ReadAdj \/ show_oom_info \/ WaitChild \/ ShowTop \/ Return

\* A write that is not permitted gives a warning, and nothing else.
set_oom_adj ==
    /\ Runs("child", "set_oom_adj")
    /\ adj' \in {"own", adj}
    /\ Goto("child", "_exit")
    /\ Quiet /\ UNCHANGED <<i, row, rows>>

\* Wrong variant of ChildExit: exit in place of _exit.
ChildExitFlush ==
    /\ Runs("child", "_exit")
    /\ Exit("child", 0)
    /\ UNCHANGED local

ChildExit ==
    /\ Runs("child", "_exit")
    /\ ExitNow("child", 0)
    /\ UNCHANGED local

Child == set_oom_adj \/ ChildExit

Killer == (\E w \in Who : Kill(w)) /\ UNCHANGED local

Next == (Parent \/ Child \/ Killer) /\ UNCHANGED setting

Spec == Init /\ [][Next]_vars

-----------------------------------------------------------------------------
(***************************************************************************)
(* However parent and child race, a line is about its own child: the pid   *)
(* cannot have been given away before the parent has waited for it. The    *)
(* child may not have written its value yet; then its score, read last, is *)
(* the only one that may be newer.                                         *)
(***************************************************************************)
RowsOfOwnChildren ==
    /\ \A k \in DOMAIN rows :
        LET r == rows[k]
        IN  /\ r.child = k
            /\ ~nochld => "other" \notin {r.adj, r.score}
            /\ r.adj = "own" => r.score # "inherited"
    /\ NoChildLeft

\* Whatever stdout is, _exit keeps every line from coming out more than once.
OomLines ==
    Over => \A l \in said : Copies(l) = IF tty \/ HasExited("parent") THEN 1 ELSE 0
=============================================================================
