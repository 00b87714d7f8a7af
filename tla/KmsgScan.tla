------------------------------- MODULE KmsgScan -------------------------------
(***************************************************************************)
(* scanKmsg of node-health-reader: the kernel log is a ring that the       *)
(* kernel goes on writing while /dev/kmsg is read, one record to a read,   *)
(* from the oldest. Go polls a file opened with O_NONBLOCK, so that the    *)
(* read at the end of the log waits for the next record.                   *)
(***************************************************************************)
EXTENDS Naturals, Sequences

CONSTANTS
    Capacity,   \* records the ring holds
    MaxLog,     \* bound: records ever written
    MaxEvents   \* max: 50 in the code

VARIABLES
    log,      \* kernel: all records ever written
    oldest,   \* kernel: the first one that is still in the ring
    scan,     \* where scanKmsg is: "off", "open", "read", "done", "error"
    first,    \* history: the record its file was opened at
    seq,      \* the record the file stands at
    rest,     \* the buffer still holds the second line of the last record
    events,   \* the records it has appended
    lost      \* history: the kernel has overwritten the record at seq

reader == <<scan, first, seq, rest, events, lost>>
vars == <<log, oldest, reader>>

\* Whether the message has one of the keywords, and whether a dictionary line,
\* which has no ";", follows it.
Record == [hit : BOOLEAN, dict : BOOLEAN]

Start(pc) ==
    /\ oldest = 1
    /\ scan = pc /\ first = 1 /\ seq = 1
    /\ rest = FALSE /\ events = <<>> /\ lost = FALSE

Init == log \in UNION {[1..n -> Record] : n \in 0..1} /\ Start("open")

Off == log = <<>> /\ Start("off")

-----------------------------------------------------------------------------
Printk ==
    /\ Len(log) < MaxLog
    /\ \E r \in Record : log' = Append(log, r)
    /\ oldest' = IF Len(log') - oldest >= Capacity THEN oldest + 1 ELSE oldest
    /\ UNCHANGED reader

OpenKmsg ==
    /\ scan = "open"
    /\ \/ scan' = "read" /\ first' = oldest /\ seq' = oldest
       \/ scan' = "error" /\ UNCHANGED <<first, seq>>
    /\ UNCHANGED <<rest, events, lost>>

\* Wrong variant of Full: the loop ends one event early.
FullBefore == Len(events) + 1 >= MaxEvents

\* The loop's condition, which is looked at when the next line has been read.
Full == Len(events) = MaxEvents

\* The body of the loop, for the first line of a record.
ScanRecord ==
    /\ scan = "read" /\ ~rest
    /\ seq \in oldest..Len(log)
    /\ seq' = seq + 1
    /\ IF Full
       THEN scan' = "done" /\ UNCHANGED <<rest, events>>
       ELSE /\ rest' = log[seq].dict
            /\ events' = IF log[seq].hit THEN Append(events, seq) ELSE events
            /\ UNCHANGED scan
    /\ UNCHANGED <<first, lost>>

\* A dictionary line is passed over.
ScanDictionary ==
    /\ scan = "read" /\ rest
    /\ rest' = FALSE
    /\ scan' = IF Full THEN "done" ELSE scan
    /\ UNCHANGED <<first, seq, events, lost>>

\* EPIPE: the record has been overwritten. Scan returns FALSE; Err is not asked.
ScanOverrun ==
    /\ scan = "read" /\ ~rest
    /\ seq < oldest
    /\ lost' = TRUE
    /\ scan' = "done"
    /\ UNCHANGED <<first, seq, rest, events>>

scanKmsg ==
    /\ OpenKmsg \/ ScanRecord \/ ScanDictionary \/ ScanOverrun
    /\ UNCHANGED <<log, oldest>>

Next == scan \in {"open", "read"} /\ (Printk \/ scanKmsg)

Spec == Init /\ [][Next]_vars

-----------------------------------------------------------------------------
(***************************************************************************)
(* The events are the hits among the records from the oldest on, none left *)
(* out and none twice, although the ring moves on under the reader; and    *)
(* the scan ends early only because the ring has overtaken it. (So those   *)
(* printed as "recent" are the oldest, and a quiet log never ends it.)     *)
(***************************************************************************)
KmsgComplete ==
    LET hits == {i \in first..seq - 1 : log[i].hit}
        Done(i) == \E k \in DOMAIN events : events[k] = i
    IN  /\ \A k \in DOMAIN events : events[k] \in hits
        /\ \A k, l \in DOMAIN events : k < l => events[k] < events[l]
        /\ \A i \in hits :
            \/ Done(i)
            \/ Len(events) = MaxEvents /\ \A k \in DOMAIN events : events[k] < i
        /\ scan = "done" => lost \/ Len(events) = MaxEvents
=============================================================================
