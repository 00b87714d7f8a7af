----------------------------- MODULE ProcReaders -----------------------------
(***************************************************************************)
(* The exercises that survey /proc without looking for a pod: proc-walker, *)
(* namespace-inspector and the list of the highest OOM scores by           *)
(* oom-score-demo go through all pids; proc-sched-reader, mount-inspector  *)
(* and sched-latency-reader --pid take pids from the command line. Each    *)
(* opens a few files per pid, by number, while the table changes.          *)
(***************************************************************************)
EXTENDS ProcTable, FiniteSets, SequencesExt

CONSTANTS
    NameRank,   \* the order of the pids' names
    NsTypes,    \* namespace types, in the order namespace-inspector takes them
    Scores,     \* oom_score values; 0 is what a zombie has
    TopN        \* the length of the list of the highest scores: 5 in the code

VARIABLES
    score,      \* the OOM score of each pid's holder
    tool,       \* which program runs
    root,       \* it may follow the namespace links of any process
    given,      \* the pids on the command line
    stage,      \* what it does next; "done" and "failed" are its ends
    cursor,     \* getdents position
    todo,       \* pids listed, or given, and not yet looked at
    cur,        \* the record under construction
    rows,       \* the records it has made
    map,        \* namespace-inspector: the second record of the target
    lived       \* history: processes alive ever since the call, with the score or the
                \* namespaces they have had ever since, for the tools that show them

call == <<tool, root, given>>
reader == <<stage, cursor, todo, cur, rows, map>>
vars == <<task, score, call, reader, lived>>

Surveys == {"walker", "inspector", "top"}
Tools == Surveys \cup {"sched", "mountinfo", "latency"}

\* namespace-inspector takes one pid or none, proc-sched-reader any number, the
\* other two tools without a survey take one.
CommandLines ==
    {P \in SUBSET Pids :
        /\ tool \in {"walker", "top"} => P = {}
        /\ tool = "inspector" => Cardinality(P) <= 1
        /\ tool = "sched" => P # {}
        /\ tool \in {"mountinfo", "latency"} => Cardinality(P) = 1}

Live == {p \in Pids : task[p].st = "live"}
Alive == {<<p, task[p].inc>> : p \in Live}
AliveWithScore == {<<p, task[p].inc, score[p]>> : p \in Live}
AliveInNs == {<<p, task[p].inc, n, task[p].ns[n]>> : p \in Live, n \in NsLinks}
Observed ==
    IF tool = "top" THEN AliveWithScore
    ELSE IF tool \in {"walker", "inspector"} THEN AliveInNs
    ELSE Alive

\* `from` holds the incarnations its fields were read from, `val` what they said.
NoRecord == [pid |-> 0, from |-> <<>>, val |-> <<>>]

Init ==
    /\ TableInit
    /\ score \in [Pids -> Scores]
    /\ \A p \in Pids : task[p].st # "live" => score[p] = 0
    /\ tool \in Tools
    /\ root \in BOOLEAN
    /\ given \in CommandLines
    /\ IF tool \in Surveys
       THEN stage = "readdir" /\ todo = {}
       ELSE stage = "next" /\ todo = given
    /\ cursor = 0 /\ cur = NoRecord /\ rows = <<>> /\ map = NoRecord
    /\ lived = Observed

-----------------------------------------------------------------------------
\* A new holder of a pid starts with any score, and a zombie has none.
TableChange ==
    /\ TableStep
    /\ score' \in {[p \in Pids |-> IF task'[p].st # "live" THEN 0
                                   ELSE IF task'[p].inc > task[p].inc THEN s ELSE score[p]] :
                        s \in Scores}

\* A process grows or shrinks, or its oom_score_adj is written. Only one tool reads it.
ScoreChange ==
    /\ tool = "top"
    /\ \E p \in Live, s \in Scores : s # score[p] /\ score' = [score EXCEPT ![p] = s]
    /\ UNCHANGED task

Churn ==
    /\ UNCHANGED <<call, reader>>
    /\ TableChange \/ ScoreChange
    /\ lived' = lived \cap Observed'

-----------------------------------------------------------------------------
(* The listing. *)

Ahead == {p \in Pids : p > cursor /\ Present(task, p)}

ReadDirEntry(p) ==
    /\ stage = "readdir"
    /\ p \in Ahead
    /\ \A q \in Ahead : p <= q
    /\ cursor' = p
    /\ todo' = todo \cup {p}
    /\ UNCHANGED <<stage, cur, rows, map>>

\* Wrong variant of ReadDirEnd: all tools look at each buffer's entries in turn, and
\* take the first buffer for the whole directory.
ReadDirEndEarly ==
    /\ stage = "readdir"
    /\ todo # {} \/ Ahead = {}
    /\ stage' = "next"
    /\ UNCHANGED <<cursor, todo, cur, rows, map>>

(***************************************************************************)
(* os.ReadDir lists all of /proc first. readdir of the C library hands out *)
(* what getdents has put into its buffer before it calls it again.         *)
(***************************************************************************)
ReadDirEnd ==
    /\ stage = "readdir"
    /\ IF tool = "top" THEN todo # {} \/ Ahead = {} ELSE Ahead = {}
    /\ stage' = "next"
    /\ UNCHANGED <<cursor, todo, cur, rows, map>>

\* /proc cannot be opened: only namespace-inspector goes on, with no processes.
ReadDirError ==
    /\ stage = "readdir" /\ cursor = 0
    /\ stage' = IF tool # "inspector" THEN "failed" ELSE IF given = {} THEN "done" ELSE "map"
    /\ UNCHANGED <<cursor, todo, cur, rows, map>>

\* Names in string order for os.ReadDir, pids in the kernel's order for readdir, and
\* in any order on a command line.
IsNext(p) ==
    /\ p \in todo
    /\ \A q \in todo :
        \/ tool = "sched"
        \/ IF tool = "top" THEN p <= q ELSE NameRank[p] <= NameRank[q]

NextPid(p) ==
    /\ stage = "next"
    /\ IsNext(p)
    /\ todo' = todo \ {p}
    /\ cur' = [NoRecord EXCEPT !.pid = p]
    /\ stage' = "read"
    /\ UNCHANGED <<cursor, rows, map>>

\* No pid left: the end, but for readdir's next buffer and the inspector's map.
NoPidLeft ==
    /\ stage = "next" /\ todo = {}
    /\ stage' = IF tool = "top" /\ Ahead # {} THEN "readdir"
                ELSE IF tool = "inspector" /\ given # {} THEN "map" ELSE "done"
    /\ UNCHANGED <<cursor, todo, cur, rows, map>>

-----------------------------------------------------------------------------
(* The files of a pid, in the order they are opened. *)

WalkerFiles == <<"status", "comm", "pid">>
InspectorFiles == NsTypes \o <<"comm">>
TopFiles == <<"oom_score", "comm">>
SchedFiles == <<"sched", "status">>
LatencyFiles == <<"schedstat", "comm">>

Files ==
    CASE tool = "walker" -> WalkerFiles
      [] tool = "inspector" -> InspectorFiles
      [] tool = "top" -> TopFiles
      [] tool = "sched" -> SchedFiles
      [] tool = "mountinfo" -> <<"mountinfo">>
      [] tool = "latency" -> LatencyFiles

\* A zombie has no mount namespace for mountinfo to show.
Opens(p, f) ==
    /\ Present(task, p)
    /\ f \in NsLinks => root /\ HasNs(task, p, f)
    /\ f = "mountinfo" => task[p].st = "live"

From(p, f) == IF Opens(p, f) THEN task[p].inc ELSE 0

Value(p, f) ==
    IF ~Opens(p, f) THEN 0
    ELSE IF f \in NsLinks THEN task[p].ns[f]
    ELSE IF f = "oom_score" THEN score[p]
    ELSE 0

\* A pid is passed over when this file cannot be read, or shows no score.
Missing(p, f) ==
    \/ f \in {"sched", "mountinfo", "schedstat"} /\ ~Opens(p, f)
    \/ f = "status" /\ tool = "sched" /\ ~Opens(p, f)
    \/ f = "oom_score" /\ Value(p, f) = 0

\* Where a record comes to stand in a list: it changes places with the lower scores
\* ahead of it, and equal ones stay there.
Place(list, r) ==
    Min({k \in 1..Len(list) + 1 : \A j \in k..Len(list) : list[j].val[1] < r.val[1]})

\* Wrong variant of Insert: a score that is no higher than the lowest gets in, too.
InsertAlways(list, r) ==
    LET kept == IF Len(list) = TopN THEN SubSeq(list, 1, TopN - 1) ELSE list
    IN  InsertAt(kept, Place(kept, r), r)

\* The insertion of show_top_oom: into a list that is full only if the score is higher
\* than the last one, in whose place it is put.
Insert(list, r) ==
    IF Len(list) = TopN
    THEN IF r.val[1] > Last(list).val[1]
         THEN InsertAt(Front(list), Place(Front(list), r), r)
         ELSE list
    ELSE InsertAt(list, Place(list, r), r)

Complete(r) ==
    /\ rows' = IF tool = "top" THEN Insert(rows, r) ELSE Append(rows, r)
    /\ stage' = "next"
    /\ cur' = NoRecord
    /\ UNCHANGED map

\* Wrong variant of AfterMissing: a pid that is gone ends the program.
AfterMissingStop(f) == "failed"

\* mount-inspector ends with an error, the others go on to the next pid.
AfterMissing(f) == IF f = "mountinfo" THEN "failed" ELSE "next"

ReadFile ==
    /\ stage = "read"
    /\ LET f == Files[Len(cur.from) + 1]
           r == [cur EXCEPT !.from = Append(@, From(cur.pid, f)),
                            !.val = Append(@, Value(cur.pid, f))]
       IN  IF Missing(cur.pid, f)
           THEN /\ stage' = AfterMissing(f)
                /\ cur' = NoRecord /\ UNCHANGED <<rows, map>>
           ELSE IF Len(r.from) = Len(Files)
           THEN Complete(r)
           ELSE cur' = r /\ UNCHANGED <<stage, rows, map>>
    /\ UNCHANGED <<cursor, todo>>

(***************************************************************************)
(* inspectPID: the files of the target are opened again, by number, for    *)
(* the table above the list of its peers. (The symbolic link and the inode *)
(* of a type are two calls; the inode, read last, stands for both.)        *)
(***************************************************************************)
MapFiles == <<"comm">> \o NsTypes

ReadMap ==
    /\ stage = "map"
    /\ \E p \in given :
        LET f == MapFiles[Len(map.from) + 1]
        IN  map' = [pid |-> p, from |-> Append(map.from, From(p, f)),
                    val |-> Append(map.val, Value(p, f))]
    /\ stage' = IF Len(map'.from) = Len(MapFiles) THEN "done" ELSE stage
    /\ UNCHANGED <<cursor, todo, cur, rows>>

Reader ==
    /\ \/ \E p \in Pids : ReadDirEntry(p) \/ NextPid(p)
       \/ ReadDirEnd \/ ReadDirError \/ NoPidLeft
       \/ ReadFile \/ ReadMap
    /\ UNCHANGED <<task, score, call, lived>>

Over == stage \in {"done", "failed"}

Next == (~Over /\ Churn) \/ Reader

Spec == Init /\ [][Next]_vars

-----------------------------------------------------------------------------
Rows == {rows[k] : k \in DOMAIN rows}
Of(r) == <<r.pid, Last(r.from)>>

\* The process of a row has been in n, of this type, ever since the call.
Stays(r, t, n) == <<r.pid, Last(r.from), t, n>> \in lived

\* The inode a row has for a namespace type, 0 for none.
Inode(r, t) == r.val[CHOOSE k \in DOMAIN Files : Files[k] = t]

\* namespace-inspector leaves inode 0 out of its groups and lists of peers;
\* proc-walker makes a group of it.
Together(r, s, t) ==
    /\ Inode(r, t) = Inode(s, t)
    /\ tool = "inspector" => Inode(r, t) # 0

Types == IF tool = "walker" THEN {"pid"} ELSE {NsTypes[k] : k \in DOMAIN NsTypes}

(***************************************************************************)
(* proc-walker and namespace-inspector: all processes that live from the   *)
(* call to the report are in it. Two that have stayed in their namespaces  *)
(* of a type all that time, whatever they did to the other types, are in   *)
(* one group of that type exactly if they share the namespace, and in none *)
(* with a row that has no namespace. The table of the target has the inode *)
(* its peers were found by, for each type the target has stayed in.        *)
(***************************************************************************)
GroupsAreNamespaces ==
    tool \in {"walker", "inspector"} /\ stage = "done" /\ root =>
        /\ rows # <<>> => \A m \in lived : \E r \in Rows : Of(r) = <<m[1], m[2]>>
        /\ \A r, s \in Rows, t \in Types, n, o \in NsInodes : Stays(r, t, n) =>
            /\ Stays(s, t, o) => (Together(r, s, t) <=> n = o)
            /\ Together(r, s, t) => Inode(s, t) # 0
        /\ \A r \in Rows, k \in DOMAIN NsTypes, n \in NsInodes :
            r.pid \in given /\ Stays(r, NsTypes[k], n) =>
                map.val[k + 1] = n /\ Inode(r, NsTypes[k]) = n

(***************************************************************************)
(* The list of the highest OOM scores is in order, has no pid twice, and   *)
(* leaves out a process that lives on with a score that does not change    *)
(* only for TopN scores that are no lower.                                 *)
(***************************************************************************)
TopIsHighest ==
    tool = "top" =>
        /\ Len(rows) <= TopN
        /\ \A j, k \in DOMAIN rows :
            j < k => rows[j].val[1] >= rows[k].val[1] /\ rows[j].pid # rows[k].pid
        /\ stage = "done" => \A m \in lived :
            \/ m[3] = 0
            \/ \E r \in Rows : r.pid = m[1] /\ r.from[1] = m[2] /\ r.val[1] = m[3]
            \/ Len(rows) = TopN /\ \A r \in Rows : r.val[1] >= m[3]

(***************************************************************************)
(* What is printed of a pid never goes back to an older holder from one    *)
(* file to the next, and is all about one process if the first one read    *)
(* still lives. A pid of the command line has no report only if its        *)
(* process is gone.                                                        *)
(***************************************************************************)
OneHolder(r) ==
    /\ \A j, k \in DOMAIN r.from : j < k => r.from[k] = 0 \/ r.from[j] <= r.from[k]
    /\ root /\ r.from # <<>> /\ <<r.pid, r.from[1]>> \in Alive =>
        \A k \in DOMAIN r.from : r.from[k] = r.from[1]

ReportsOneHolder ==
    /\ \A r \in Rows \cup {map} : OneHolder(r)
    /\ tool \notin Surveys /\ Over =>
        \A m \in lived : m[1] \in given => \E r \in Rows : Of(r) = m
=============================================================================
