---------------------------- MODULE PodScanProofs ----------------------------
(***************************************************************************)
(* Proofs that ListPodProcesses keeps its promises for every set of pids,  *)
(* every order of their names, every number of cgroups and namespaces and  *)
(* every number of holders a pid may have. Each invariant is proved by     *)
(* induction over the steps, on top of the ones proved before it.          *)
(***************************************************************************)
EXTENDS PodScan, ProcTableProofs

\* The loop is reading the files of one listed process.
Mid == pc \in {"ppid", "comm", "pidns"}

\* The process whose cgroup selected the record under construction.
Selected == <<cur.pid, cur.cgroup>>

TypeInv == TypeOK /\ (Mid => cur \in Process)

\* The history variables keep up with the table.
History == stable \subseteq Members(task) /\ Members(task) \subseteq ever

\* Where each process that has stayed in the pod is in the scan.
Accounted ==
    /\ pc # "error" =>
        \A m \in stable :
            \/ m[1] \in todo
            \/ m \in Returned
            \/ Mid /\ m = Selected
            \/ pc = "readdir" /\ m[1] > cursor
    /\ pc = "done" => todo = {}

\* Nothing selected or returned was ever outside the pod.
FromPod == Returned \subseteq ever /\ (Mid => Selected \in ever)

Rank(i) == NameRank[result[i].pid]

\* Records, the process being read and the rest of the listing follow one another.
Sorted ==
    /\ InNameOrder
    /\ pc = "readdir" => result = <<>>
    /\ \A i \in DOMAIN result, q \in todo : Rank(i) < NameRank[q]
    /\ Mid => /\ \A i \in DOMAIN result : Rank(i) < NameRank[cur.pid]
              /\ \A q \in todo : NameRank[cur.pid] < NameRank[q]

\* No field of a record is of a process that has not been there yet.
Seen(r) ==
    /\ r.cgroup <= task[r.pid].inc
    /\ r.ppid <= task[r.pid].inc
    /\ r.comm <= task[r.pid].inc
    /\ r.pidns <= task[r.pid].inc

\* A field that has not been read is still 0, which is in order with any other.
Ordered ==
    /\ \A i \in DOMAIN result : Seen(result[i]) /\ InReadOrder(result[i])
    /\ Mid => Seen(cur) /\ InReadOrder(cur) /\ cur.pidns = 0
    /\ pc \in {"ppid", "comm"} => cur.comm = 0
    /\ pc = "ppid" => cur.ppid = 0

\* As TornOnlyByDeath, for the fields of `cur` that have been read.
Whole ==
    /\ TornOnlyByDeath
    /\ Mid /\ cur.cgroup = ReadFrom(cur.pid) =>
         /\ pc \in {"comm", "pidns"} => cur.ppid = cur.cgroup
         /\ pc = "pidns" => cur.comm = cur.cgroup

-----------------------------------------------------------------------------
(***************************************************************************)
(* Type correctness.                                                       *)
(***************************************************************************)
LEMMA TypeInvInit == Init => TypeInv
<1> SUFFICES ASSUME Init PROVE TypeInv
  OBVIOUS
<1>1. TableTypeOK
  BY TableInitType DEF Init
<1>2. Members(task) \subseteq Pids \X Incs
  BY <1>1, MembersType DEF Incs
<1>3. QED
  BY <1>1, <1>2 DEF Init, TypeInv, TypeOK, Mid

\* Every step keeps the types.
LEMMA TypeInvStep == TypeInv /\ [Next]_vars => TypeInv'
<1> SUFFICES ASSUME TypeInv, [Next]_vars PROVE TypeInv'
  OBVIOUS
<1> USE DEF TypeInv, TypeOK, Mid
<1>1. CASE Churn
  <2>1. TableTypeOK'
    BY <1>1, TableStepType DEF Churn
  <2>2. Members(task') \subseteq Pids \X Incs
    BY <2>1, MembersType DEF Incs, Members, TableTypeOK, Tasks, InPod
  <2> QED
    BY <1>1, <2>1, <2>2 DEF Churn, reader
<1> USE DEF TableTypeOK
<1>2. ASSUME NEW p \in Pids, ReadDirEntry(p) PROVE TypeInv'
  BY <1>2 DEF ReadDirEntry
<1>3. ASSUME NEW p \in Pids, ReadCgroup(p) PROVE TypeInv'
  <2>1. ReadFrom(p) \in Incs
    BY ReadFromType DEF Incs
  <2>2. NewRecord(p) \in Process
    BY <2>1, MaxIncAssumption DEF NewRecord, Process, Incs
  <2> QED
    BY <1>3, <2>2 DEF ReadCgroup
<1>4. CASE ReadDirEnd
  BY <1>4 DEF ReadDirEnd
<1>5. CASE ReadDirError
  BY <1>5 DEF ReadDirError
<1>6. CASE ReadPPID
  <2>1. cur \in Process
    BY <1>6 DEF ReadPPID
  <2>2. ReadFrom(cur.pid) \in Incs
    BY <2>1, ReadFromType DEF Incs, Process
  <2>3. [cur EXCEPT !.ppid = ReadFrom(cur.pid)] \in Process
    BY <2>1, <2>2 DEF Process
  <2> QED
    BY <1>6, <2>3 DEF ReadPPID
<1>7. CASE ReadComm
  <2>1. cur \in Process
    BY <1>7 DEF ReadComm
  <2>2. ReadFrom(cur.pid) \in Incs
    BY <2>1, ReadFromType DEF Incs, Process
  <2>3. [cur EXCEPT !.comm = ReadFrom(cur.pid)] \in Process
    BY <2>1, <2>2 DEF Process
  <2> QED
    BY <1>7, <2>3 DEF ReadComm
<1>8. CASE ReadPidNs
  <2>1. cur \in Process
    BY <1>8 DEF ReadPidNs
  <2>2. ReadFrom(cur.pid) \in Incs
    BY <2>1, ReadFromType DEF Incs, Process
  <2>3. [cur EXCEPT !.pidns = ReadFrom(cur.pid)] \in Process
    BY <2>1, <2>2 DEF Process
  <2> QED
    BY <1>8, <2>3 DEF ReadPidNs
<1>9. CASE Return
  BY <1>9 DEF Return
<1>10. CASE UNCHANGED vars
  BY <1>10 DEF vars, reader
<1>11. QED
  BY <1>1, <1>2, <1>3, <1>4, <1>5, <1>6, <1>7, <1>8, <1>9, <1>10
  DEF Next, ListPodProcesses

\* The scan's variables always have their types.
THEOREM TypeCorrect == Safe => []TypeOK
<1>1. TypeInv => TypeOK
  BY DEF TypeInv
<1>2. QED
  BY <1>1, TypeInvInit, TypeInvStep, PTL DEF Safe

-----------------------------------------------------------------------------
(***************************************************************************)
(* Completeness and soundness.                                             *)
(***************************************************************************)
\* A reader's step leaves the table and the history alone.
LEMMA ReaderStep ==
  ListPodProcesses => UNCHANGED <<task, stable, ever>>
  BY DEF ListPodProcesses, ReadDirEntry, ReadCgroup, ReadDirEnd, ReadDirError,
         ReadPPID, ReadComm, ReadPidNs, Return

\* ReadPidNs appends the record of the process that was selected.
LEMMA AppendRecord ==
  ASSUME TypeInv, ReadPidNs
  PROVE  /\ Len(result') = Len(result) + 1
         /\ \A i \in DOMAIN result : i \in DOMAIN result' /\ result'[i] = result[i]
         /\ DOMAIN result' = DOMAIN result \cup {Len(result')}
         /\ result'[Len(result')] = [cur EXCEPT !.pidns = ReadFrom(cur.pid)]
         /\ result'[Len(result')].pid = cur.pid
         /\ result'[Len(result')].cgroup = cur.cgroup
<1>1. cur \in Process
  BY DEF TypeInv, Mid, ReadPidNs
<1>2. ReadFrom(cur.pid) \in Incs
  BY <1>1, ReadFromType DEF Incs, Process, TypeInv, TypeOK
<1> DEFINE r == [cur EXCEPT !.pidns = ReadFrom(cur.pid)]
<1>3. r \in Process /\ r.pid = cur.pid /\ r.cgroup = cur.cgroup
  BY <1>1, <1>2 DEF Process
<1>4. result' = Append(result, r)
  BY DEF ReadPidNs
<1> HIDE DEF r
<1>5. /\ Len(result') = Len(result) + 1
      /\ \A i \in DOMAIN result : i \in DOMAIN result' /\ result'[i] = result[i]
      /\ DOMAIN result' = DOMAIN result \cup {Len(result')}
      /\ result'[Len(result')] = r
  BY <1>3, <1>4 DEF TypeInv, TypeOK
<1>6. QED
  BY <1>3, <1>5 DEF r

\* The record that is complete is of the process selected.
LEMMA ReturnedStep ==
  ASSUME TypeInv, ReadPidNs
  PROVE  Returned' = Returned \cup {Selected}
<1>1. \A m : m \in Returned' <=>
        \E i \in DOMAIN result' : m = <<result'[i].pid, result'[i].cgroup>>
  BY DEF Returned
<1>2. \A m : m \in Returned <=>
        \E i \in DOMAIN result : m = <<result[i].pid, result[i].cgroup>>
  BY DEF Returned
<1>3. /\ \A i \in DOMAIN result : i \in DOMAIN result' /\ result'[i] = result[i]
      /\ DOMAIN result' = DOMAIN result \cup {Len(result')}
      /\ result'[Len(result')].pid = cur.pid
      /\ result'[Len(result')].cgroup = cur.cgroup
  BY AppendRecord
<1>4. \A m : m \in Returned' => m \in Returned \/ m = <<cur.pid, cur.cgroup>>
  <2> SUFFICES ASSUME NEW m, m \in Returned'
               PROVE  m \in Returned \/ m = <<cur.pid, cur.cgroup>>
    OBVIOUS
  <2>1. PICK i \in DOMAIN result' : m = <<result'[i].pid, result'[i].cgroup>>
    BY <1>1
  <2>2. CASE i = Len(result')
    BY <1>3, <2>1, <2>2
  <2>3. CASE i # Len(result')
    <3>1. i \in DOMAIN result /\ result'[i] = result[i]
      BY <1>3, <2>3
    <3> QED
      BY <1>2, <2>1, <3>1
  <2> QED
    BY <2>2, <2>3
<1>5. \A m : m \in Returned => m \in Returned'
  <2> SUFFICES ASSUME NEW m, m \in Returned PROVE m \in Returned'
    OBVIOUS
  <2>1. PICK i \in DOMAIN result : m = <<result[i].pid, result[i].cgroup>>
    BY <1>2
  <2>2. i \in DOMAIN result' /\ result'[i] = result[i]
    BY <1>3
  <2> QED
    BY <1>1, <2>1, <2>2
<1>6. <<cur.pid, cur.cgroup>> \in Returned'
  <2>1. Len(result') \in DOMAIN result'
    BY <1>3
  <2> QED
    BY <1>1, <1>3, <2>1
<1>7. QED
  BY <1>4, <1>5, <1>6 DEF Selected

\* The history is about the members of the pod since the call.
LEMMA HistoryStep == History /\ [Next]_vars => History'
<1> SUFFICES ASSUME History, [Next]_vars PROVE History'
  OBVIOUS
<1>1. CASE Churn
  BY <1>1 DEF Churn, History, Members, InPod, Present
<1>2. CASE ListPodProcesses
  BY <1>2, ReaderStep DEF History, Members, InPod, Present
<1>3. CASE UNCHANGED vars
  BY <1>3 DEF vars, History, Members, InPod, Present
<1>4. QED
  BY <1>1, <1>2, <1>3 DEF Next

\* A process that stays in the pod is never passed over.
LEMMA AccountedStep ==
  TypeInv /\ History /\ Accounted /\ [Next]_vars => Accounted'
<1> SUFFICES ASSUME TypeInv, History, Accounted, [Next]_vars PROVE Accounted'
  OBVIOUS
<1>1. \A m \in stable : /\ m[1] \in Pids /\ InPod(task, m[1])
                        /\ m = <<m[1], task[m[1]].inc>>
  BY MembersType DEF History, TypeInv, TypeOK
<1>2. CASE Churn
  BY <1>2 DEF Churn, reader, Accounted, Returned, Mid, Selected
<1>3. CASE UNCHANGED vars
  BY <1>3 DEF vars, reader, Accounted, Returned, Mid, Selected
<1>4. ASSUME NEW p \in Pids, ReadDirEntry(p) PROVE Accounted'
  <2>1. \A m \in stable : m[1] > cursor => p <= m[1]
    BY <1>1, <1>4 DEF ReadDirEntry, Ahead, InPod
  <2>2. \A m \in stable : m[1] > cursor => m[1] = p \/ m[1] > p
    BY <1>1, <2>1, PidsAssumption
  <2>3. Returned' = Returned
    BY <1>4 DEF ReadDirEntry, Returned
  <2> QED
    BY <1>4, <2>2, <2>3 DEF ReadDirEntry, Accounted, Mid
<1>5. CASE ReadDirEnd
  <2>1. \A m \in stable : ~(m[1] > cursor)
    BY <1>1, <1>5 DEF ReadDirEnd, Ahead, InPod
  <2> QED
    BY <1>5, <2>1 DEF ReadDirEnd, Accounted, Returned, Mid
<1>6. CASE ReadDirError
  BY <1>6 DEF ReadDirError, Accounted
<1>7. ASSUME NEW p \in Pids, ReadCgroup(p) PROVE Accounted'
  <2>1. Returned' = Returned /\ stable' = stable /\ pc = "next"
    BY <1>7 DEF ReadCgroup, Returned
  <2>2. CASE InPod(task, p)
    <3>1. ReadFrom(p) = task[p].inc
      BY <2>2 DEF ReadFrom, InPod
    <3>2. pc' = "ppid" /\ Selected' = <<p, task[p].inc>> /\ todo' = todo \ {p}
      BY <1>7, <2>2, <3>1 DEF ReadCgroup, Selected, NewRecord
    <3> QED
      BY <1>1, <2>1, <3>2 DEF Accounted, Mid
  <2>3. CASE ~InPod(task, p)
    <3>1. pc' = "next" /\ todo' = todo \ {p}
      BY <1>7, <2>3 DEF ReadCgroup
    <3> QED
      BY <1>1, <2>1, <2>3, <3>1 DEF Accounted, Mid
  <2> QED
    BY <2>2, <2>3
<1>8. CASE ReadPPID \/ ReadComm
  <2>1. Selected' = Selected
    BY <1>8 DEF ReadPPID, ReadComm, Selected, TypeInv, Mid, Process
  <2> QED
    BY <1>8, <2>1 DEF ReadPPID, ReadComm, Accounted, Mid, Returned
<1>9. CASE ReadPidNs
  <2>1. Returned' = Returned \cup {Selected}
    BY <1>9, ReturnedStep
  <2> QED
    BY <1>9, <2>1 DEF ReadPidNs, Accounted, Mid
<1>10. CASE Return
  BY <1>10 DEF Return, Accounted, Mid, Returned
<1>11. QED
  BY <1>2, <1>3, <1>4, <1>5, <1>6, <1>7, <1>8, <1>9, <1>10
  DEF Next, ListPodProcesses

\* What is selected has been in the pod.
LEMMA FromPodStep ==
  TypeInv /\ History /\ FromPod /\ [Next]_vars => FromPod'
<1> SUFFICES ASSUME TypeInv, History, FromPod, [Next]_vars PROVE FromPod'
  OBVIOUS
<1>1. CASE Churn
  BY <1>1 DEF Churn, reader, FromPod, Returned, Mid, Selected
<1>2. CASE UNCHANGED vars
  BY <1>2 DEF vars, reader, FromPod, Returned, Mid, Selected
<1>3. ASSUME NEW p \in Pids, ReadCgroup(p) PROVE FromPod'
  <2>1. CASE InPod(task, p)
    <3>1. <<p, ReadFrom(p)>> \in ever
      BY <2>1, MembersType DEF ReadFrom, InPod, History, TypeInv, TypeOK
    <3> QED
      BY <1>3, <2>1, <3>1 DEF ReadCgroup, FromPod, Returned, Mid, Selected, NewRecord
  <2>2. CASE ~InPod(task, p)
    BY <1>3, <2>2 DEF ReadCgroup, FromPod, Returned, Mid
  <2> QED
    BY <2>1, <2>2
<1>4. CASE ReadPPID \/ ReadComm
  <2>1. Selected' = Selected
    BY <1>4 DEF ReadPPID, ReadComm, Selected, TypeInv, Mid, Process
  <2> QED
    BY <1>4, <2>1 DEF ReadPPID, ReadComm, FromPod, Mid, Returned
<1>5. CASE ReadPidNs
  <2>1. Returned' = Returned \cup {Selected}
    BY <1>5, ReturnedStep
  <2> QED
    BY <1>5, <2>1 DEF ReadPidNs, FromPod, Mid
<1>6. ASSUME NEW p \in Pids, ReadDirEntry(p) PROVE FromPod'
  BY <1>6 DEF ReadDirEntry, FromPod, Mid, Returned
<1>7. CASE ReadDirEnd \/ ReadDirError \/ Return
  BY <1>7 DEF ReadDirEnd, ReadDirError, Return, FromPod, Mid, Returned
<1>8. QED
  BY <1>1, <1>2, <1>3, <1>4, <1>5, <1>6, <1>7 DEF Next, ListPodProcesses

\* The invariant holds when the call is made.
LEMMA ScanInvInit == Init => TypeInv /\ History /\ Accounted /\ FromPod
<1> SUFFICES ASSUME Init PROVE TypeInv /\ History /\ Accounted /\ FromPod
  OBVIOUS
<1>1. TypeInv
  BY TypeInvInit
<1>2. \A m \in stable : m[1] \in Pids
  BY MembersType, <1>1 DEF Init, TypeInv, TypeOK
<1>3. \A p \in Pids : p > 0
  BY PidsAssumption
<1>4. pc = "readdir" /\ cursor = 0
  BY DEF Init
<1>5. Accounted
  BY <1>2, <1>3, <1>4 DEF Accounted
<1>6. History /\ FromPod
  BY DEF Init, History, FromPod, Returned, Mid
<1>7. QED
  BY <1>1, <1>5, <1>6

(***************************************************************************)
(* ListPodProcesses lists every process that stays in the pod and no       *)
(* process that was never in it.                                           *)
(***************************************************************************)
THEOREM ScanCompleteAndSound == Safe => []CompleteAndSound
<1> DEFINE I == TypeInv /\ History /\ Accounted /\ FromPod
<1>1. Init => I
  BY ScanInvInit
<1>2. I /\ [Next]_vars => I'
  BY TypeInvStep, HistoryStep, AccountedStep, FromPodStep
<1>3. I => CompleteAndSound
  BY DEF CompleteAndSound, Complete, Sound, Accounted, FromPod, Mid
<1>4. QED
  BY <1>1, <1>2, <1>3, PTL DEF Safe

-----------------------------------------------------------------------------
(***************************************************************************)
(* Order of the records.                                                   *)
(***************************************************************************)
LEMMA SortedStep ==
  TypeInv /\ Sorted /\ [Next]_vars => Sorted'
<1> SUFFICES ASSUME TypeInv, Sorted, [Next]_vars PROVE Sorted'
  OBVIOUS
<1>1. CASE Churn \/ UNCHANGED vars
  BY <1>1 DEF Churn, vars, reader, Sorted, InNameOrder, Rank, Mid
<1>2. ASSUME NEW p \in Pids, ReadDirEntry(p) PROVE Sorted'
  BY <1>2 DEF ReadDirEntry, Sorted, InNameOrder, Rank, Mid
<1>3. CASE ReadDirEnd \/ ReadDirError \/ Return
  BY <1>3 DEF ReadDirEnd, ReadDirError, Return, Sorted, InNameOrder, Rank, Mid
<1>4. ASSUME NEW p \in Pids, ReadCgroup(p) PROVE Sorted'
  <2>1. /\ p \in todo /\ result' = result /\ todo' = todo \ {p}
        /\ pc = "next" /\ pc' \in {"next", "ppid"}
        /\ pc' = "ppid" => cur'.pid = p
    BY <1>4 DEF ReadCgroup, IsNext, NewRecord
  <2>2. \A q \in todo \ {p} : NameRank[p] < NameRank[q]
    <3>1. \A q \in todo : NameRank[p] <= NameRank[q]
      BY <1>4 DEF ReadCgroup, IsNext
    <3>2. \A q \in todo : q \in Pids
      BY DEF TypeInv, TypeOK
    <3>3. \A q \in todo : NameRank[q] \in Nat /\ NameRank[p] \in Nat
      BY <3>2, NameRankAssumption
    <3> QED
      BY <3>1, <3>2, <3>3, NameRankAssumption
  <2> QED
    BY <2>1, <2>2 DEF Sorted, InNameOrder, Rank, Mid
<1>5. CASE ReadPPID \/ ReadComm
  <2>1. cur'.pid = cur.pid
    BY <1>5 DEF ReadPPID, ReadComm, TypeInv, Mid, Process
  <2> QED
    BY <1>5, <2>1 DEF ReadPPID, ReadComm, Sorted, InNameOrder, Rank, Mid
<1>6. CASE ReadPidNs
  <2> DEFINE NewRank(i) == NameRank[result'[i].pid]
  <2>1. /\ \A i \in DOMAIN result : i \in DOMAIN result' /\ NewRank(i) = Rank(i)
        /\ DOMAIN result' = DOMAIN result \cup {Len(result')}
        /\ NewRank(Len(result')) = NameRank[cur.pid]
    BY <1>6, AppendRecord DEF Rank
  <2>2. Len(result') = Len(result) + 1 /\ Len(result) \in Nat
    BY <1>6, AppendRecord DEF TypeInv, TypeOK
  <2>3. \A i \in DOMAIN result : i < Len(result')
    BY <2>2 DEF TypeInv, TypeOK
  <2>4. \A i \in DOMAIN result : Rank(i) < NameRank[cur.pid]
    BY <1>6 DEF ReadPidNs, Sorted, Mid
  <2>5. \A i, j \in DOMAIN result' : i < j => NewRank(i) < NewRank(j)
    <3>1. SUFFICES ASSUME NEW i \in DOMAIN result', NEW j \in DOMAIN result', i < j
                   PROVE  NewRank(i) < NewRank(j)
      OBVIOUS
    <3>2. i \in DOMAIN result
      BY <2>1, <2>2, <2>3, <3>1 DEF TypeInv, TypeOK
    <3>3. CASE j = Len(result')
      BY <2>1, <2>4, <3>2, <3>3
    <3>4. CASE j \in DOMAIN result
      BY <2>1, <3>1, <3>2, <3>4 DEF Sorted, InNameOrder, Rank
    <3> QED
      BY <2>1, <3>3, <3>4
  <2>6. \A i \in DOMAIN result', q \in todo : NewRank(i) < NameRank[q]
    BY <1>6, <2>1 DEF ReadPidNs, Sorted, Mid
  <2>7. pc' = "next" /\ todo' = todo
    BY <1>6 DEF ReadPidNs
  <2> QED
    BY <2>5, <2>6, <2>7 DEF Sorted, InNameOrder, Rank, Mid
<1>7. QED
  BY <1>1, <1>2, <1>3, <1>4, <1>5, <1>6 DEF Next, ListPodProcesses

(***************************************************************************)
(* The records come in the order of the names, one per pid.                *)
(***************************************************************************)
THEOREM ScanInNameOrder == Safe => []InNameOrder
<1>1. Init => TypeInv /\ Sorted
  BY TypeInvInit DEF Init, Sorted, InNameOrder, Mid
<1>2. TypeInv /\ Sorted /\ [Next]_vars => (TypeInv /\ Sorted)'
  BY TypeInvStep, SortedStep
<1>3. TypeInv /\ Sorted => InNameOrder
  BY DEF Sorted
<1>4. QED
  BY <1>1, <1>2, <1>3, PTL DEF Safe

-----------------------------------------------------------------------------
(***************************************************************************)
(* What the fields of a record are of.                                     *)
(***************************************************************************)
\* The holder counts only grow while the reader waits.
LEMMA ChurnStep ==
  ASSUME TypeInv, Churn
  PROVE  /\ UNCHANGED reader
         /\ \A p \in Pids :
              /\ task[p].inc \in Nat /\ task'[p].inc \in Nat
              /\ task[p].inc <= task'[p].inc
              /\ \A i \in 1..task[p].inc : ReadFrom(p)' = i => ReadFrom(p) = i
<1>1. TableTypeOK /\ TableStep
  BY DEF TypeInv, TypeOK, Churn
<1>2. TableTypeOK'
  BY <1>1, TableStepType
<1>3. \A p \in Pids : task[p].inc \in Nat /\ task'[p].inc \in Nat
  BY <1>1, <1>2, MaxIncAssumption DEF TableTypeOK, Tasks
<1>4. QED
  BY <1>1, <1>3, ReadFromStep DEF Churn

\* No field of a record is of a holder to come, and a change of the table keeps it so.
LEMMA SeenStep ==
  ASSUME TypeInv, Churn, NEW r \in Process, Seen(r)
  PROVE  Seen(r)'
<1>1. r.pid \in Pids /\ {r.cgroup, r.ppid, r.comm, r.pidns} \subseteq Int
  BY MaxIncAssumption DEF Process, Incs
<1>2. task[r.pid].inc \in Int /\ task'[r.pid].inc \in Int
      /\ task[r.pid].inc <= task'[r.pid].inc
  BY <1>1, ChurnStep
<1>3. QED
  BY <1>1, <1>2 DEF Seen

\* What a read of a pid gives is in order after anything seen of it before.
LEMMA ReadIsYoungest ==
  ASSUME TypeInv, Mid, Seen(cur)
  PROVE  /\ cur \in Process
         /\ ReadFrom(cur.pid) \in Incs
         /\ ReadFrom(cur.pid) <= task[cur.pid].inc
         /\ Younger(cur.cgroup, ReadFrom(cur.pid))
         /\ Younger(cur.ppid, ReadFrom(cur.pid))
         /\ Younger(cur.comm, ReadFrom(cur.pid))
<1>1. cur \in Process /\ cur.pid \in Pids /\ TableTypeOK
  BY DEF TypeInv, TypeOK, Process
<1>2. /\ task[cur.pid].inc \in Incs
      /\ ReadFrom(cur.pid) \in Incs
      /\ ReadFrom(cur.pid) = 0 \/ ReadFrom(cur.pid) = task[cur.pid].inc
  BY <1>1, ReadFromType DEF Incs
<1>3. QED
  BY <1>1, <1>2, MaxIncAssumption DEF Seen, Younger, Incs, Process

\* A field read later is never of an earlier holder.
LEMMA OrderedStep ==
  TypeInv /\ Ordered /\ [Next]_vars => Ordered'
<1> SUFFICES ASSUME TypeInv, Ordered, [Next]_vars PROVE Ordered'
  OBVIOUS
<1>1. \A i \in DOMAIN result : result[i] \in Process
  BY DEF TypeInv, TypeOK
<1>2. Mid => cur \in Process
  BY DEF TypeInv
<1>3. CASE Churn
  <2>1. UNCHANGED reader
    BY <1>3, ChurnStep
  <2>2. \A i \in DOMAIN result : Seen(result[i])'
    BY <1>1, <1>3, <2>1, SeenStep DEF Ordered, reader, Seen
  <2>3. Mid => Seen(cur)'
    BY <1>2, <1>3, <2>1, SeenStep DEF Ordered, reader, Seen
  <2> QED
    BY <2>1, <2>2, <2>3 DEF Ordered, reader, Mid, InReadOrder, Younger
<1>4. CASE UNCHANGED vars
  BY <1>4 DEF vars, reader, Ordered, Mid, Seen, InReadOrder, Younger
<1>5. ASSUME NEW p \in Pids, ReadDirEntry(p) PROVE Ordered'
  BY <1>5 DEF ReadDirEntry, Ordered, Mid, Seen, InReadOrder, Younger
<1>6. CASE ReadDirEnd \/ ReadDirError \/ Return
  BY <1>6 DEF ReadDirEnd, ReadDirError, Return, Ordered, Mid, Seen, InReadOrder, Younger
<1>7. ASSUME NEW p \in Pids, ReadCgroup(p) PROVE Ordered'
  <2>1. /\ task' = task /\ result' = result
        /\ pc = "next" /\ pc' \in {"next", "ppid"}
        /\ pc' = "ppid" => InPod(task, p) /\ cur' = NewRecord(p)
    BY <1>7 DEF ReadCgroup
  <2>2. InPod(task, p) => /\ ReadFrom(p) = task[p].inc
                          /\ ReadFrom(p) > 0 /\ ReadFrom(p) \in Nat
    BY ReadFromType, MaxIncAssumption DEF TypeInv, TypeOK, InPod
  <2>3. pc' = "ppid" => /\ Seen(cur)' /\ InReadOrder(cur)'
                        /\ cur'.pidns = 0 /\ cur'.comm = 0 /\ cur'.ppid = 0
    BY <2>1, <2>2 DEF Seen, InReadOrder, Younger, NewRecord
  <2> QED
    BY <2>1, <2>3 DEF Ordered, Mid, Seen, InReadOrder, Younger
<1>8. CASE ReadPPID
  <2>1. Mid /\ Seen(cur) /\ InReadOrder(cur) /\ cur.comm = 0 /\ cur.pidns = 0
    BY <1>8 DEF ReadPPID, Ordered, Mid
  <2>2. /\ task' = task /\ result' = result /\ pc' = "comm"
        /\ cur' = [cur EXCEPT !.ppid = ReadFrom(cur.pid)]
    BY <1>8 DEF ReadPPID
  <2>3. Seen(cur)' /\ InReadOrder(cur)' /\ cur'.comm = 0 /\ cur'.pidns = 0
    BY <2>1, <2>2, ReadIsYoungest DEF Process, Seen, InReadOrder, Younger
  <2> QED
    BY <2>2, <2>3 DEF Ordered, Mid, Seen, InReadOrder, Younger
<1>9. CASE ReadComm
  <2>1. Mid /\ Seen(cur) /\ InReadOrder(cur) /\ cur.pidns = 0
    BY <1>9 DEF ReadComm, Ordered, Mid
  <2>2. /\ task' = task /\ result' = result /\ pc' = "pidns"
        /\ cur' = [cur EXCEPT !.comm = ReadFrom(cur.pid)]
    BY <1>9 DEF ReadComm
  <2>3. Seen(cur)' /\ InReadOrder(cur)' /\ cur'.pidns = 0
    BY <2>1, <2>2, ReadIsYoungest DEF Process, Seen, InReadOrder, Younger
  <2> QED
    BY <2>2, <2>3 DEF Ordered, Mid, Seen, InReadOrder, Younger
<1>10. CASE ReadPidNs
  <2>1. Mid /\ Seen(cur) /\ InReadOrder(cur)
    BY <1>10 DEF ReadPidNs, Ordered, Mid
  <2> DEFINE r == [cur EXCEPT !.pidns = ReadFrom(cur.pid)]
  <2>2. Seen(r) /\ InReadOrder(r)
    BY <2>1, ReadIsYoungest DEF Process, Seen, InReadOrder, Younger
  <2> HIDE DEF r
  <2>3. /\ task' = task /\ pc' = "next"
        /\ \A i \in DOMAIN result' :
             result'[i] = r \/ (i \in DOMAIN result /\ result'[i] = result[i])
    BY <1>10, AppendRecord DEF ReadPidNs, r
  <2>4. \A i \in DOMAIN result' : Seen(result'[i]) /\ InReadOrder(result'[i])
    BY <2>2, <2>3 DEF Ordered
  <2> QED
    BY <2>3, <2>4 DEF Ordered, Mid, Seen, InReadOrder, Younger
<1>11. QED
  BY <1>3, <1>4, <1>5, <1>6, <1>7, <1>8, <1>9, <1>10 DEF Next, ListPodProcesses

(***************************************************************************)
(* In a torn record the fields are of ever younger processes or missing.   *)
(***************************************************************************)
THEOREM ScanFieldsInReadOrder == Safe => []FieldsInReadOrder
<1>1. Init => TypeInv /\ Ordered
  BY TypeInvInit DEF Init, Ordered, Mid
<1>2. TypeInv /\ Ordered /\ [Next]_vars => (TypeInv /\ Ordered)'
  BY TypeInvStep, OrderedStep
<1>3. TypeInv /\ Ordered => FieldsInReadOrder
  BY DEF Ordered, FieldsInReadOrder
<1>4. QED
  BY <1>1, <1>2, <1>3, PTL DEF Safe

-----------------------------------------------------------------------------
(***************************************************************************)
(* Torn records.                                                           *)
(***************************************************************************)
LEMMA WholeStep ==
  TypeInv /\ Ordered /\ Whole /\ [Next]_vars => Whole'
<1> SUFFICES ASSUME TypeInv, Ordered, Whole, [Next]_vars PROVE Whole'
  OBVIOUS
<1>1. \A i \in DOMAIN result : result[i] \in Process
  BY DEF TypeInv, TypeOK
<1>2. Mid => cur \in Process
  BY DEF TypeInv
<1>3. CASE Churn
  <2>1. UNCHANGED reader
    BY <1>3, ChurnStep
  <2> DEFINE After(p) == IF Present(task', p) THEN task'[p].inc ELSE 0
  <2>2. ASSUME NEW r \in Process, Seen(r), r.cgroup > 0
        PROVE  r.cgroup = After(r.pid) => r.cgroup = ReadFrom(r.pid)
    <3>1. r.pid \in Pids /\ r.cgroup \in Nat
      BY MaxIncAssumption DEF Process, Incs
    <3>2. task[r.pid].inc \in Nat /\ r.cgroup \in 1..task[r.pid].inc
      BY <1>3, <2>2, <3>1, ChurnStep DEF Seen
    <3>3. ReadFrom(r.pid)' = After(r.pid)
      BY DEF ReadFrom, Present
    <3> QED
      BY <1>3, <3>1, <3>2, <3>3, ChurnStep
  <2> HIDE DEF After
  <2>3. \A i \in DOMAIN result :
          result[i].cgroup = After(result[i].pid)
            => result[i].cgroup = ReadFrom(result[i].pid)
    BY <1>1, <2>2 DEF Ordered, InReadOrder
  <2>4. Mid => (cur.cgroup = After(cur.pid) => cur.cgroup = ReadFrom(cur.pid))
    BY <1>2, <2>2 DEF Ordered, InReadOrder
  <2>5. TornOnlyByDeath'
    BY <2>1, <2>3 DEF Whole, TornOnlyByDeath, OwnFields, reader, ReadFrom, Present, After
  <2> QED
    BY <2>1, <2>4, <2>5 DEF Whole, Mid, reader, ReadFrom, Present, After
<1>4. CASE UNCHANGED vars
  BY <1>4 DEF vars, reader, Whole, TornOnlyByDeath, OwnFields, Mid, ReadFrom, Present
<1>5. ASSUME NEW p \in Pids, ReadDirEntry(p) PROVE Whole'
  BY <1>5 DEF ReadDirEntry, Whole, TornOnlyByDeath, OwnFields, Mid, ReadFrom, Present
<1>6. CASE ReadDirEnd \/ ReadDirError \/ Return
  BY <1>6 DEF ReadDirEnd, ReadDirError, Return, Whole, TornOnlyByDeath, OwnFields,
              Mid, ReadFrom, Present
<1>7. ASSUME NEW p \in Pids, ReadCgroup(p) PROVE Whole'
  <2>1. task' = task /\ result' = result /\ pc' \in {"next", "ppid"}
    BY <1>7 DEF ReadCgroup
  <2> QED
    BY <2>1 DEF Whole, TornOnlyByDeath, OwnFields, Mid, ReadFrom, Present
<1>8. CASE ReadPPID
  <2>1. /\ task' = task /\ result' = result /\ pc' = "comm"
        /\ cur' = [cur EXCEPT !.ppid = ReadFrom(cur.pid)]
    BY <1>8 DEF ReadPPID
  <2>2. cur'.ppid = ReadFrom(cur.pid) /\ cur'.cgroup = cur.cgroup /\ cur'.pid = cur.pid
    BY <1>2, <1>8, <2>1 DEF ReadPPID, Mid, Process
  <2> QED
    BY <2>1, <2>2 DEF Whole, TornOnlyByDeath, OwnFields, Mid, ReadFrom, Present
<1>9. CASE ReadComm
  <2>1. /\ task' = task /\ result' = result /\ pc = "comm" /\ pc' = "pidns"
        /\ cur' = [cur EXCEPT !.comm = ReadFrom(cur.pid)]
    BY <1>9 DEF ReadComm
  <2>2. /\ cur'.comm = ReadFrom(cur.pid) /\ cur'.ppid = cur.ppid
        /\ cur'.cgroup = cur.cgroup /\ cur'.pid = cur.pid
    BY <1>2, <1>9, <2>1 DEF Mid, Process
  <2> QED
    BY <2>1, <2>2 DEF Whole, TornOnlyByDeath, OwnFields, Mid, ReadFrom, Present
<1>10. CASE ReadPidNs
  <2> DEFINE r == [cur EXCEPT !.pidns = ReadFrom(cur.pid)]
  <2>1. /\ r.pid = cur.pid /\ r.cgroup = cur.cgroup /\ r.ppid = cur.ppid
        /\ r.comm = cur.comm /\ r.pidns = ReadFrom(cur.pid)
    BY <1>2, <1>10 DEF ReadPidNs, Mid, Process
  <2>2. r.cgroup = ReadFrom(r.pid) => OwnFields(r)
    BY <1>10, <2>1 DEF ReadPidNs, Whole, Mid, OwnFields
  <2> HIDE DEF r
  <2>3. /\ task' = task /\ pc' = "next"
        /\ \A i \in DOMAIN result' :
             result'[i] = r \/ (i \in DOMAIN result /\ result'[i] = result[i])
    BY <1>10, AppendRecord DEF ReadPidNs, r
  <2>4. \A i \in DOMAIN result' :
          result'[i].cgroup = ReadFrom(result'[i].pid) => OwnFields(result'[i])
    BY <2>2, <2>3 DEF Whole, TornOnlyByDeath
  <2> QED
    BY <2>3, <2>4 DEF Whole, TornOnlyByDeath, OwnFields, Mid, ReadFrom, Present
<1>11. QED
  BY <1>3, <1>4, <1>5, <1>6, <1>7, <1>8, <1>9, <1>10 DEF Next, ListPodProcesses

(***************************************************************************)
(* A record whose process still holds its pid is that process's throughout.*)
(***************************************************************************)
THEOREM ScanTornOnlyByDeath == Safe => []TornOnlyByDeath
<1> DEFINE I == TypeInv /\ Ordered /\ Whole
<1>1. Init => I
  BY TypeInvInit DEF Init, Ordered, Whole, TornOnlyByDeath, Mid
<1>2. I /\ [Next]_vars => I'
  BY TypeInvStep, OrderedStep, WholeStep
<1>3. I => TornOnlyByDeath
  BY DEF Whole
<1>4. QED
  BY <1>1, <1>2, <1>3, PTL DEF Safe

-----------------------------------------------------------------------------
(***************************************************************************)
(* The scan implements the query of PodSnapshot.                           *)
(***************************************************************************)
\* What the loop has returned when it is done is an answer to the query.
LEMMA ReturnedAnswers ==
  ASSUME TypeInv, Accounted, FromPod, Sorted, pc = "next", todo = {}
  PROVE  Snapshot!Answerable(Returned)
<1>1. stable \subseteq Returned /\ Returned \subseteq ever
  BY DEF Accounted, FromPod, Mid
<1>2. ASSUME NEW x \in Returned, NEW y \in Returned, x[1] = y[1]
      PROVE  x = y
  <2>1. PICK i \in DOMAIN result : x = <<result[i].pid, result[i].cgroup>>
    BY <1>2 DEF Returned
  <2>2. PICK j \in DOMAIN result : y = <<result[j].pid, result[j].cgroup>>
    BY <1>2 DEF Returned
  <2>3. result[i].pid = result[j].pid
    BY <1>2, <2>1, <2>2
  <2>4. ~(i < j) /\ ~(j < i)
    <3>1. result[i] \in Process
      BY DEF TypeInv, TypeOK
    <3>2. result[i].pid \in Pids
      BY <3>1 DEF Process
    <3>3. NameRank[result[i].pid] \in Nat
      BY <3>2, NameRankAssumption
    <3> QED
      BY <2>3, <3>3 DEF Sorted, InNameOrder
  <2>5. i = j
    BY <2>4 DEF TypeInv, TypeOK
  <2> QED
    BY <2>1, <2>2, <2>5
<1>3. QED
  BY <1>1, <1>2 DEF Snapshot!Answerable

(***************************************************************************)
(* Every behaviour of the scan is one of the query: it fails, or answers   *)
(* with all processes that stayed in the pod, only processes that were in  *)
(* it, and one for each pid.                                               *)
(***************************************************************************)
THEOREM ScanAnswersSnapshot == Safe => Snapshot!Safe
<1> DEFINE I == TypeInv /\ History /\ Accounted /\ FromPod /\ Sorted
<1>1. Init => Snapshot!Init
  <2> SUFFICES ASSUME Init PROVE Snapshot!Init
    OBVIOUS
  <2>1. Members(task) \subseteq Pids \X Incs
    BY TypeInvInit, MembersType DEF TypeInv, TypeOK, Incs
  <2>2. Over = FALSE /\ (pc = "done") = FALSE
    BY DEF Init, Over
  <2> QED
    BY <2>1, <2>2 DEF Init, Snapshot!Init, Snapshot!Pending
<1>2. I /\ [Next]_vars => [Snapshot!Next]_Snapshot!vars
  <2> SUFFICES ASSUME I, [Next]_vars PROVE [Snapshot!Next]_Snapshot!vars
    OBVIOUS
  <2>1. CASE Churn
    <3>1. Members(task') \subseteq Pids \X Incs
      BY TypeInvStep, MembersType DEF TypeInv, TypeOK, Incs, Members, TableTypeOK,
         Tasks, InPod
    <3>2. Snapshot!Churn
      BY <2>1, <3>1 DEF Churn, reader, Snapshot!Churn, Over, Returned, Members, InPod, Present
    <3> QED
      BY <3>2 DEF Snapshot!Next
  <2>2. CASE Return
    <3>1. Snapshot!Answerable(Returned) /\ Returned \subseteq ever
      BY <2>2, ReturnedAnswers DEF Return, FromPod
    <3>2. /\ pc = "next" /\ pc' = "done"
          /\ Returned' = Returned /\ UNCHANGED <<task, stable, ever>>
      BY <2>2 DEF Return, Returned
    <3>3. Snapshot!Return
      BY <3>1, <3>2 DEF Snapshot!Return, Snapshot!Answer, Over, Members, InPod, Present
    <3> QED
      BY <3>3 DEF Snapshot!Next
  <2>3. CASE ReadDirError
    <3>1. Snapshot!Return
      BY <2>3 DEF ReadDirError, Snapshot!Return, Snapshot!Failed, Over, Members, InPod, Present
    <3> QED
      BY <3>1 DEF Snapshot!Next
  <2>4. ASSUME UNCHANGED <<task, stable, ever>>, ~Over, ~Over'
        PROVE  UNCHANGED Snapshot!vars
    BY <2>4 DEF Snapshot!vars, Over, Members, InPod, Present
  <2>5. ASSUME NEW p \in Pids, ReadDirEntry(p) \/ ReadCgroup(p)
        PROVE  UNCHANGED Snapshot!vars
    BY <2>4, <2>5 DEF ReadDirEntry, ReadCgroup, Over
  <2>6. CASE ReadDirEnd \/ ReadPPID \/ ReadComm \/ ReadPidNs
    BY <2>4, <2>6 DEF ReadDirEnd, ReadPPID, ReadComm, ReadPidNs, Over
  <2>7. CASE UNCHANGED vars
    BY <2>7 DEF vars, reader, Snapshot!vars, Over, Returned, Members, InPod, Present
  <2> QED
    BY <2>1, <2>2, <2>3, <2>5, <2>6, <2>7 DEF Next, ListPodProcesses
<1>3. Init => I
  <2>1. Init => Sorted
    BY DEF Init, Sorted, InNameOrder, Mid
  <2> QED
    BY <2>1, ScanInvInit
<1>4. I /\ [Next]_vars => I'
  BY TypeInvStep, HistoryStep, AccountedStep, FromPodStep, SortedStep
<1>5. QED
  BY <1>1, <1>2, <1>3, <1>4, PTL DEF Safe, Snapshot!Safe
=============================================================================
