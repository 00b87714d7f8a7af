------------------------------- MODULE PodScan -------------------------------
(***************************************************************************)
(* ListPodProcesses of src/kube-inspect/internal/proc/proc.go, step by     *)
(* step, over a process table that changes between any two of its reads.   *)
(*                                                                         *)
(* /proc is listed with getdents calls that walk the pids upwards; os.     *)
(* ReadDir then sorts the names as strings. Each listed pid costs up to    *)
(* four opens, each by pid number, so each may meet another process or     *)
(* none.                                                                   *)
(***************************************************************************)
EXTENDS ProcTable, Sequences

CONSTANT
    NameRank   \* the place of a pid's decimal name in string order ("10" < "9")

ASSUME NameRankAssumption ==
    /\ NameRank \in [Pids -> Nat]
    /\ \A p, q \in Pids : NameRank[p] = NameRank[q] => p = q

VARIABLES
    stable,   \* history: processes in the pod ever since the call
    ever,     \* history: processes in the pod at some time since the call
    pc,       \* what the reader does next
    cursor,   \* getdents position: the last pid it returned
    todo,     \* listed pids the loop has not come to
    cur,      \* the record under construction
    result    \* the records appended so far

reader == <<pc, cursor, todo, cur, result>>
vars == <<task, stable, ever, reader>>

Incs == 0..MaxInc

\* A Process record: each field is the incarnation of `pid` it was read from
\* (ReadFrom), `cgroup` being the one whose cgroup path matched.
Process == [pid : Pids, cgroup : Incs, ppid : Incs, comm : Incs, pidns : Incs]

NoRecord == [pid |-> 0, cgroup |-> 0, ppid |-> 0, comm |-> 0, pidns |-> 0]

\* Wrong variant of IsNext: the listing is left in the kernel's order.
IsNextByPid(p) == p \in todo /\ \A q \in todo : p <= q

\* The first name of the sorted listing that the loop has not come to.
IsNext(p) == p \in todo /\ \A q \in todo : NameRank[p] <= NameRank[q]

TypeOK ==
    /\ TableTypeOK
    /\ stable \subseteq Pids \X Incs
    /\ ever \subseteq Pids \X Incs
    /\ pc \in {"readdir", "next", "ppid", "comm", "pidns", "done", "error"}
    /\ cursor \in Pids \cup {0}
    /\ todo \subseteq Pids
    /\ cur \in Process \cup {NoRecord}
    /\ result \in Seq(Process)

Init ==
    /\ TableInit
    /\ stable = Members(task)
    /\ ever = Members(task)
    /\ pc = "readdir"
    /\ cursor = 0
    /\ todo = {}
    /\ cur = NoRecord
    /\ result = <<>>

-----------------------------------------------------------------------------
\* The table changes; the history variables follow it.
Churn ==
    /\ TableStep
    /\ stable' = stable \cap Members(task')
    /\ ever' = ever \cup Members(task')
    /\ UNCHANGED reader

\* The present pids getdents has not come to.
Ahead == {p \in Pids : p > cursor /\ Present(task, p)}

\* One directory entry: the lowest present pid above the last one.
ReadDirEntry(p) ==
    /\ pc = "readdir"
    /\ p \in Ahead
    /\ \A q \in Ahead : p <= q
    /\ cursor' = p
    /\ todo' = todo \cup {p}
    /\ UNCHANGED <<task, stable, ever, pc, cur, result>>

\* No entry left: the listing is complete and is sorted by name.
ReadDirEnd ==
    /\ pc = "readdir"
    /\ Ahead = {}
    /\ pc' = "next"
    /\ UNCHANGED <<task, stable, ever, cursor, todo, cur, result>>

\* Wrong variant of ReadDirError: what was listed so far is used.
ReadDirErrorPartial ==
    /\ pc = "readdir"
    /\ pc' = "next"
    /\ UNCHANGED <<task, stable, ever, cursor, todo, cur, result>>

\* os.ReadDir fails, before or after some entries: nothing is returned.
ReadDirError ==
    /\ pc = "readdir"
    /\ pc' = "error"
    /\ todo' = {}
    /\ UNCHANGED <<task, stable, ever, cursor, cur, result>>

\* The record of a selected pid, of which nothing else has been read.
NewRecord(p) == [pid |-> p, cgroup |-> ReadFrom(p), ppid |-> 0, comm |-> 0, pidns |-> 0]

\* Wrong variant of ReadCgroup: break instead of continue at a process of another pod.
ReadCgroupBreak(p) ==
    /\ pc = "next"
    /\ IsNext(p)
    /\ IF InPod(task, p)
       THEN /\ cur' = NewRecord(p)
            /\ pc' = "ppid"
            /\ todo' = todo \ {p}
       ELSE todo' = {} /\ UNCHANGED <<cur, pc>>
    /\ UNCHANGED <<task, stable, ever, cursor, result>>

\* readCgroupV2Path and the Contains test: a pid that is gone reads as "".
ReadCgroup(p) ==
    /\ pc = "next"
    /\ IsNext(p)
    /\ todo' = todo \ {p}
    /\ IF InPod(task, p)
       THEN /\ cur' = NewRecord(p)
            /\ pc' = "ppid"
       ELSE UNCHANGED <<cur, pc>>
    /\ UNCHANGED <<task, stable, ever, cursor, result>>

ReadPPID ==
    /\ pc = "ppid"
    /\ cur' = [cur EXCEPT !.ppid = ReadFrom(cur.pid)]
    /\ pc' = "comm"
    /\ UNCHANGED <<task, stable, ever, cursor, todo, result>>

ReadComm ==
    /\ pc = "comm"
    /\ cur' = [cur EXCEPT !.comm = ReadFrom(cur.pid)]
    /\ pc' = "pidns"
    /\ UNCHANGED <<task, stable, ever, cursor, todo, result>>

\* Wrong variant of ReadPidNs: the inode of the last pid of the listing.
ReadPidNsOfLast ==
    /\ pc = "pidns"
    /\ result' = Append(result, [cur EXCEPT !.pidns = ReadFrom(cursor)])
    /\ cur' = NoRecord
    /\ pc' = "next"
    /\ UNCHANGED <<task, stable, ever, cursor, todo>>

\* Wrong variant of ReadPidNs: the cgroup is read again for the record.
ReadPidNsAndCgroup ==
    /\ pc = "pidns"
    /\ result' = Append(result, [cur EXCEPT !.pidns = ReadFrom(cur.pid),
                                            !.cgroup = ReadFrom(cur.pid)])
    /\ cur' = NoRecord
    /\ pc' = "next"
    /\ UNCHANGED <<task, stable, ever, cursor, todo>>

\* nsInode, then the append that completes the record.
ReadPidNs ==
    /\ pc = "pidns"
    /\ result' = Append(result, [cur EXCEPT !.pidns = ReadFrom(cur.pid)])
    /\ cur' = NoRecord
    /\ pc' = "next"
    /\ UNCHANGED <<task, stable, ever, cursor, todo>>

\* The loop has come to the end of the listing.
Return ==
    /\ pc = "next"
    /\ todo = {}
    /\ pc' = "done"
    /\ UNCHANGED <<task, stable, ever, cursor, todo, cur, result>>

ListPodProcesses ==
    \/ \E p \in Pids : ReadDirEntry(p) \/ ReadCgroup(p)
    \/ ReadDirEnd
    \/ ReadDirError
    \/ ReadPPID
    \/ ReadComm
    \/ ReadPidNs
    \/ Return

Over == pc \in {"done", "error"}

\* The history ends with the call: what happens after it cannot matter to it.
Next == (~Over /\ Churn) \/ ListPodProcesses

\* The reader is a running program; no process is obliged to do anything.
Safe == Init /\ [][Next]_vars
Spec == Safe /\ WF_vars(ListPodProcesses)

-----------------------------------------------------------------------------
Returned == {<<result[i].pid, result[i].cgroup>> : i \in DOMAIN result}

(***************************************************************************)
(* Whatever forks, exits or moves around the scan: a process that is in    *)
(* the pod from the call to the return is listed, and a listed process was *)
(* in the pod at some time in between - no record is about one that only   *)
(* took over a listed pid.                                                 *)
(***************************************************************************)
Complete == pc = "done" => stable \subseteq Returned

Sound == Returned \subseteq ever

CompleteAndSound == Complete /\ Sound

(***************************************************************************)
(* The records come in the order of the names, so no pid appears twice,    *)
(* even when it is reused during the scan. Callers use the first record.   *)
(***************************************************************************)
InNameOrder ==
    \A i, j \in DOMAIN result :
        i < j => NameRank[result[i].pid] < NameRank[result[j].pid]

(***************************************************************************)
(* A record is torn only by a death: if the process whose cgroup matched   *)
(* still holds its pid, every field of its record is its own.              *)
(***************************************************************************)
OwnFields(r) == r.ppid = r.cgroup /\ r.comm = r.cgroup /\ r.pidns = r.cgroup

TornOnlyByDeath ==
    \A i \in DOMAIN result :
        result[i].cgroup = ReadFrom(result[i].pid) => OwnFields(result[i])

(***************************************************************************)
(* In a torn record the fields are of ever younger processes or missing:   *)
(* a field is never older than the cgroup that selected the record, and    *)
(* no field read later is older than one read before it.                   *)
(***************************************************************************)
Younger(a, b) == a = 0 \/ b = 0 \/ a <= b

InReadOrder(r) ==
    /\ r.cgroup > 0
    /\ Younger(r.cgroup, r.ppid)
    /\ Younger(r.cgroup, r.comm)
    /\ Younger(r.cgroup, r.pidns)
    /\ Younger(r.ppid, r.comm)
    /\ Younger(r.ppid, r.pidns)
    /\ Younger(r.comm, r.pidns)

FieldsInReadOrder == \A i \in DOMAIN result : InReadOrder(result[i])

(***************************************************************************)
(* The scan answers the query of PodSnapshot, and it does answer it,       *)
(* however the table changes.                                              *)
(***************************************************************************)
Snapshot == INSTANCE PodSnapshot WITH
    Processes <- Pids \X Incs,
    members <- Members(task),
    answer <- [done |-> Over,
               ok |-> pc = "done",
               procs |-> IF pc = "done" THEN Returned ELSE {}]

AnswersSnapshot == Snapshot!Spec
=============================================================================
