---------------------------- MODULE CounterReaders ----------------------------
(***************************************************************************)
(* The tools that read a kernel counter twice and print the difference,    *)
(* in 64-bit unsigned arithmetic, here modulo Modulus: netns-inspector     *)
(* (once and with --watch), kube-inspect --virt (internal/virt) and        *)
(* vcpu-inspector. What they read may fail, run backwards, or belong to    *)
(* something else than it did the time before.                             *)
(***************************************************************************)
EXTENDS Integers, FiniteSets

CONSTANTS
    Modulus,    \* the counters are integers modulo this (2^64 in the code)
    Ifaces,     \* interface names in the namespace of the process watched
    Born,       \* counter values an interface may appear with
    MaxInc,     \* bound: how many devices may successively have one name
    MaxSent,    \* bound: the bytes one device ever receives
    Boots,      \* what the CPU counters may say when the tool starts
    Loads,      \* what the kernel may add to them between two samples
    Memories    \* pairs of ballooned and total memory

ASSUME ModulusAssumption == Modulus \in Nat \ {0}
ASSUME BornAssumption == Born \subseteq 0..Modulus - 1

\* No device ever receives 2^64 bytes.
ASSUME BoundsAssumption == MaxInc \in Nat \ {0} /\ MaxSent \in 0..Modulus - 1

\* The ticks of a line of /proc/stat, and the line after some more of them.
Ticks(c) == c.steal + c.iowait + c.rest

Later(c, l) == [steal |-> c.steal + l.steal, iowait |-> c.iowait + l.iowait,
                rest |-> c.rest + l.rest]

(***************************************************************************)
(* The ticks since boot fit the counters, and the steal of the second      *)
(* between the samples is nowhere near a hundredth of their range. What    *)
(* the kernel says after it is no value to start with: that tells the two  *)
(* times apart.                                                            *)
(***************************************************************************)
ASSUME CpuAssumption ==
    /\ Boots \subseteq [steal : Nat, iowait : Nat, rest : Nat]
    /\ Loads \subseteq [steal : Nat, iowait : Int, rest : Nat]
    /\ \A b \in Boots, l \in Loads :
        /\ Later(b, l) \notin Boots
        /\ b.steal + l.steal < Modulus
        /\ Ticks(b) < Modulus /\ Ticks(b) + Ticks(l) \in 0..Modulus - 1
        /\ Ticks(l) < 0 => 100 * l.steal < Modulus + Ticks(l)

VARIABLES
    tool,     \* which program runs
    pc,       \* what it does next; "done" and "exit1" are its ends
    dev,      \* kernel: the device behind each interface name
    gone,     \* kernel: the process watched has ended
    cpu,      \* kernel: the "cpu" line of /proc/stat
    mem,      \* kernel: /proc/meminfo
    mems,     \* history: what it has said since it was first read
    sampled,  \* netns-inspector: the first sample has been taken
    prev,     \* netns-inspector: the devices of the sample before
    curr,     \* netns-inspector: those of this one
    todo,     \* names whose line has not been read yet
    rows,     \* the rates printed last, with what they should be
    last,     \* history: the last sample taken, whatever prev holds
    s1, s2,   \* the two samples of the CPU counters
    held,     \* the ballooned memory read
    report    \* the indicators printed for steal time and balloon

net == <<sampled, prev, curr, todo, rows, last>>
kernel == <<dev, gone, cpu, mem, mems>>
virt == <<s1, s2, held, report>>
vars == <<tool, pc, kernel, net, virt>>

Devices == [inc : 0..MaxInc, up : BOOLEAN, born : Born, sent : 0..MaxSent]

\* What the kernel prints for a device: history variables tell what it means.
Counter(d) == (d.born + d.sent) % Modulus

NoRead == [steal |-> 0, iowait |-> 0, rest |-> 0, read |-> FALSE]

\* Unsigned subtraction.
Delta(a, b) == (b - a) % Modulus

Nets == {"netns", "watch"}
Virts == {"virt", "vcpu"}
Blank == [steal |-> "none", balloon |-> "none"]

Init ==
    /\ tool \in Nets \cup Virts
    /\ pc = IF tool \in Nets THEN "open" ELSE "detect"
    /\ dev \in [Ifaces -> [inc : {1}, up : BOOLEAN, born : Born, sent : {0}]]
    /\ gone \in BOOLEAN
    /\ cpu \in Boots
    /\ mem \in Memories /\ mems = {mem}
    /\ sampled = FALSE /\ prev = <<>> /\ curr = <<>> /\ todo = {}
    /\ rows = {} /\ last = <<>>
    /\ s1 = NoRead /\ s2 = NoRead /\ held = 0
    /\ report = Blank

-----------------------------------------------------------------------------
(* The kernel. *)

Over == pc \in {"done", "exit1"}

Receive(i) ==
    /\ dev[i].up /\ dev[i].sent < MaxSent
    /\ dev' = [dev EXCEPT ![i].sent = @ + 1]
    /\ UNCHANGED <<gone, cpu, mem, mems>>

\* The device leaves the namespace for another, or comes back from it.
Move(i) ==
    /\ dev' = [dev EXCEPT ![i].up = ~@]
    /\ UNCHANGED <<gone, cpu, mem, mems>>

\* The name becomes another device's: the old one is deleted and one of the same
\* name created, or the pid is given to a process of another namespace.
Replace(i) ==
    /\ dev[i].inc < MaxInc
    /\ \E b \in Born :
        dev' = [dev EXCEPT ![i] = [inc |-> @.inc + 1, up |-> TRUE, born |-> b, sent |-> 0]]
    /\ UNCHANGED <<gone, cpu, mem, mems>>

WatchedEnds ==
    /\ ~gone
    /\ gone' = TRUE
    /\ UNCHANGED <<dev, cpu, mem, mems>>

\* The second between the samples passes. proc(5): iowait may decrease.
TimePasses ==
    /\ pc = "sleep"
    /\ cpu \in Boots
    /\ \E l \in Loads : cpu' = Later(cpu, l)
    /\ UNCHANGED <<dev, gone, mem, mems>>

BalloonMoves ==
    /\ pc \in {"detect", "balloon", "total"}
    /\ \E m \in Memories : m # mem /\ mem' = m
    /\ mems' = IF pc = "total" THEN mems \cup {mem'} ELSE {mem'}
    /\ UNCHANGED <<dev, gone, cpu>>

Kernel ==
    /\ \/ /\ tool \in Nets
          /\ WatchedEnds \/ \E i \in Ifaces : Receive(i) \/ Move(i) \/ Replace(i)
       \/ tool \in Virts /\ (TimePasses \/ BalloonMoves)
    /\ UNCHANGED <<tool, pc, net, virt>>

-----------------------------------------------------------------------------
(* netns-inspector. *)

\* readNetDev: open pins the namespace, whatever becomes of the process.
OpenNetDev ==
    /\ pc = "open"
    /\ IF gone
       THEN pc' = "exit1" /\ UNCHANGED todo
       ELSE pc' = "lines" /\ todo' = Ifaces
    /\ rows' = {}
    /\ UNCHANGED <<sampled, prev, curr, last>>

\* One line; a device that is not there has none. The kernel's lines all parse.
ReadLine(i) ==
    /\ pc = "lines"
    /\ i \in todo
    /\ todo' = todo \ {i}
    /\ curr' = IF dev[i].up
               THEN [n \in DOMAIN curr \cup {i} |-> IF n = i THEN dev[i] ELSE curr[n]]
               ELSE curr
    /\ UNCHANGED <<pc, sampled, prev, rows, last>>

\* One shot: the counters as they are. --watch: they are the first sample.
PrintTable ==
    /\ pc = "lines" /\ todo = {}
    /\ ~sampled
    /\ pc' = IF tool = "watch" THEN "open" ELSE "done"
    /\ sampled' = TRUE
    /\ prev' = curr /\ last' = curr
    /\ curr' = <<>>
    /\ UNCHANGED <<todo, rows>>

Before(i) == IF i \in DOMAIN prev THEN Counter(prev[i]) ELSE 0

\* The rate of an interface, and what the device behind it has received.
Row(i) ==
    LET same == i \in DOMAIN last /\ last[i].inc = curr[i].inc
    IN  [iface |-> i, rate |-> Delta(Before(i), Counter(curr[i])), same |-> same,
         received |-> curr[i].sent - (IF same THEN last[i].sent ELSE 0)]

\* Wrong variant of PrintDeltaTable: the first sample stays the one compared with.
PrintDeltaTableSinceStart ==
    /\ pc = "lines" /\ todo = {}
    /\ sampled
    /\ rows' = {Row(i) : i \in DOMAIN curr}
    /\ last' = curr
    /\ curr' = <<>>
    /\ pc' = "open"
    /\ UNCHANGED <<sampled, prev, todo>>

\* The division by the seconds between the samples is left out.
PrintDeltaTable ==
    /\ pc = "lines" /\ todo = {}
    /\ sampled
    /\ rows' = {Row(i) : i \in DOMAIN curr}
    /\ prev' = curr /\ last' = curr
    /\ curr' = <<>>
    /\ pc' = "open"
    /\ UNCHANGED <<sampled, todo>>

NetnsInspector ==
    /\ \/ OpenNetDev
       \/ \E i \in Ifaces : ReadLine(i)
       \/ PrintTable
       \/ PrintDeltaTable
    /\ UNCHANGED virt

-----------------------------------------------------------------------------
(* internal/virt and vcpu-inspector. *)

\* On bare metal both end without an indicator (internal/virt has read them then).
DetectHypervisor ==
    /\ pc = "detect"
    /\ pc' \in {"first", "done"}
    /\ UNCHANGED virt

\* readCPUStat: zeros when /proc/stat cannot be opened.
CpuSample == {[steal |-> cpu.steal, iowait |-> cpu.iowait, rest |-> cpu.rest, read |-> TRUE],
              NoRead}

FirstSample ==
    /\ pc = "first"
    /\ s1' \in CpuSample
    /\ pc' = "sleep"
    /\ UNCHANGED <<s2, held, report>>

Total(s) == Ticks(s) % Modulus

\* A percentage is the pair of its parts, compared by multiplication.
AtLeast(part, whole, pct) == whole # 0 /\ part * 100 >= pct * whole

\* Wrong variant of StealClass: ten percent is still a warning.
StealClassAbove(part, whole) ==
    IF AtLeast(part, whole, 11) THEN "CRITICAL"
    ELSE IF AtLeast(part, whole, 5) THEN "WARNING"
    ELSE IF tool = "virt" \/ AtLeast(part, whole, 1) THEN "OK"
    ELSE "Excellent"

\* calcStealPct and the indicator of Print and main.
StealClass(part, whole) ==
    IF AtLeast(part, whole, 10) THEN "CRITICAL"
    ELSE IF AtLeast(part, whole, 5) THEN "WARNING"
    ELSE IF tool = "virt" \/ AtLeast(part, whole, 1) THEN "OK"
    ELSE "Excellent"

SecondSample ==
    /\ pc = "sleep"
    /\ cpu \notin Boots
    /\ \E s \in CpuSample :
        /\ s2' = s
        /\ report' = [report EXCEPT !.steal =
                        StealClass(Delta(s1.steal, s.steal), Delta(Total(s1), Total(s)))]
    /\ pc' = "balloon"
    /\ UNCHANGED <<s1, held>>

\* readBalloon: 0 when meminfo has no such line, or cannot be opened.
ReadBalloon ==
    /\ pc = "balloon"
    /\ held' \in {mem.balloon, 0}
    /\ pc' = "total"
    /\ UNCHANGED <<s1, s2, report>>

\* Wrong variant of BalloonClass: the total is not compared with 0 before dividing.
BalloonClassUnchecked(part, whole) ==
    IF part = 0 THEN "not inflated"
    ELSE IF part * 100 > 25 * whole THEN "CRITICAL"
    ELSE "WARNING"

(***************************************************************************)
(* meminfo is opened again for the total; one that cannot be read gives    *)
(* the share 0. An inflated balloon is never better than a WARNING to      *)
(* internal/virt, but may be OK to vcpu-inspector.                         *)
(***************************************************************************)
BalloonClass(part, whole) ==
    IF part = 0 THEN "not inflated"
    ELSE IF whole # 0 /\ part * 100 > 25 * whole THEN "CRITICAL"
    ELSE IF tool = "virt" \/ (whole # 0 /\ part * 100 > 10 * whole) THEN "WARNING"
    ELSE "OK"

ReadTotal ==
    /\ pc = "total"
    /\ \E total \in {mem.total, 0} :
        report' = [report EXCEPT !.balloon = BalloonClass(held, total)]
    /\ pc' = "done"
    /\ UNCHANGED <<s1, s2, held>>

VirtStatus ==
    /\ \/ DetectHypervisor
       \/ FirstSample
       \/ SecondSample
       \/ ReadBalloon
       \/ ReadTotal
    /\ UNCHANGED net

Tool == (NetnsInspector \/ VirtStatus) /\ UNCHANGED <<tool, kernel>>

Next == ~Over /\ (Kernel \/ Tool)

Spec == Init /\ [][Next]_vars

-----------------------------------------------------------------------------
Samples == UNION {[S -> Devices] : S \in SUBSET Ifaces}

Indicators == {"none", "not inflated", "Excellent", "OK", "WARNING", "CRITICAL"}

TypeOK ==
    /\ dev \in [Ifaces -> Devices]
    /\ prev \in Samples /\ curr \in Samples /\ last \in Samples
    /\ todo \subseteq Ifaces
    /\ \A r \in rows : r.rate \in 0..Modulus - 1 /\ r.received \in 0..MaxSent
    /\ report \in [steal : Indicators, balloon : Indicators]

(***************************************************************************)
(* --watch: the rate printed for an interface is what its device received  *)
(* from one sample to the next, however the counter wraps and whatever     *)
(* other interfaces do; nothing is counted in two intervals or in none.    *)
(* Only a device that was not there under this name may show another rate. *)
(***************************************************************************)
RateIsTraffic == \A r \in rows : r.same => r.rate = r.received

(***************************************************************************)
(* The steal indicator is right whenever the second sample was read: for   *)
(* the time between the samples, or since boot when the first was not      *)
(* read. A total that went backwards never makes an alarm.                 *)
(***************************************************************************)
StealIsReal ==
    LET part == s2.steal - s1.steal
        whole == part + (s2.iowait - s1.iowait) + (s2.rest - s1.rest)
        Share(pct) == whole > 0 /\ part * 100 >= pct * whole
    IN  s2.read =>
            /\ report.steal = "CRITICAL" <=> Share(10)
            /\ report.steal = "WARNING" <=> Share(5) /\ ~Share(10)
            /\ report.steal = "Excellent" <=> tool = "vcpu" /\ ~Share(1)

(***************************************************************************)
(* A CRITICAL balloon was held, at the time it was read, against a total   *)
(* that memory had since: an unreadable total is no alarm, and with a      *)
(* balloon that does not move the indicator is about that very moment.     *)
(***************************************************************************)
BalloonIsReal ==
    report.balloon = "CRITICAL" =>
        \E a, b \in mems : a.balloon * 100 > 25 * b.total /\ a.balloon = held
=============================================================================
