--------------------------- MODULE MCCounterReaders ---------------------------
(***************************************************************************)
(* CounterReaders and KmsgScan for TLC, one of them at a time. The CPU     *)
(* counters start with and without steal; the loads are 0, 1, 4, 5, 9 and  *)
(* 10 percent of a hundred ticks, one with an iowait that falls, and two   *)
(* that leave the total where it was or behind. The shares of the balloon  *)
(* are on both sides of 10 and 25.                                         *)
(***************************************************************************)
EXTENDS CounterReaders, Sequences

CONSTANTS Capacity, MaxLog, MaxEvents

ASSUME MaxEventsAssumption == MaxEvents \in Nat

VARIABLES log, oldest, scan, first, seq, rest, events, lost

kmsg == <<log, oldest, scan, first, seq, rest, events, lost>>

Kmsg == INSTANCE KmsgScan

Cpu(s, i, r) == [steal |-> s, iowait |-> i, rest |-> r]

MCBoots == {Cpu(0, 20, 80), Cpu(30, 20, 50)}

MCLoads ==
    {Cpu(k, 0, 100 - k) : k \in {0, 1, 4, 5, 9, 10}} \cup
    {Cpu(10, -5, 95), Cpu(2, -3, 1), Cpu(1, -3, 1)}

MCMemories ==
    {[balloon |-> b, total |-> 1000] : b \in {0, 100, 101, 250, 251}}

\* A constraint of the run: what the running tool never reads has one value.
Relevant ==
    /\ tool \in Virts => \A i \in Ifaces : dev[i].up /\ dev[i].born = 0
    /\ tool \in Nets => cpu = Cpu(0, 20, 80) /\ mem.balloon = 0
    /\ tool # "watch" => ~gone

\* The counters when it is the kernel log that is read.
Quiet ==
    /\ tool = "virt" /\ pc = "done"
    /\ dev = [i \in Ifaces |-> [inc |-> 1, up |-> TRUE, born |-> 0, sent |-> 0]]
    /\ gone = FALSE
    /\ cpu = Cpu(0, 20, 80)
    /\ mem = [balloon |-> 0, total |-> 1000] /\ mems = {mem}
    /\ sampled = FALSE /\ prev = <<>> /\ curr = <<>> /\ todo = {}
    /\ rows = {} /\ last = <<>>
    /\ s1 = NoRead /\ s2 = NoRead /\ held = 0 /\ report = Blank

MCInit == (Init /\ Kmsg!Off) \/ (Quiet /\ Kmsg!Init)
MCNext == (Next /\ UNCHANGED kmsg) \/ (Kmsg!Next /\ UNCHANGED vars)
MCSpec == MCInit /\ [][MCNext]_<<vars, kmsg>>

\* scanKmsg gives the hits from the oldest record on: KmsgScan says it in full.
KmsgComplete == Kmsg!KmsgComplete
=============================================================================
