------------------------- MODULE CounterReadersProofs -------------------------
(***************************************************************************)
(* Proofs about the readers of counters, for every width of a counter,     *)
(* every number of interfaces, every load and every kernel log.            *)
(***************************************************************************)
EXTENDS MCCounterReaders, TLAPS

-----------------------------------------------------------------------------
\* Which program is where.
Control ==
    /\ tool \in Nets \cup Virts
    /\ tool \in Nets => pc \in {"open", "lines", "done", "exit1"}
    /\ tool \in Virts => pc \in {"detect", "first", "sleep", "balloon", "total", "done"}

\* d was behind a name when e is behind it, or before.
NotAfter(d, e) ==
    /\ d.inc <= e.inc
    /\ d.inc = e.inc => d.born = e.born /\ d.sent <= e.sent

\* Every sample is behind the kernel, and the last one behind the one being taken. The
\* tool compares with the last.
NetInv ==
    /\ prev = last
    /\ \A i \in DOMAIN last : NotAfter(last[i], dev[i])
    /\ \A i \in DOMAIN curr : NotAfter(curr[i], dev[i])
    /\ \A i \in DOMAIN last \cap DOMAIN curr : NotAfter(last[i], curr[i])
    /\ RateIsTraffic

Sampled(c) == [steal |-> c.steal, iowait |-> c.iowait, rest |-> c.rest, read |-> TRUE]

\* The counters are those of the start until the second has passed, and then one load
\* away from them; the first sample, if it was read, is of the start.
CpuInv ==
    /\ pc \in {"open", "lines", "detect", "first"} => cpu \in Boots /\ s1 = NoRead
    /\ pc = "sleep" => \E b \in Boots :
        /\ cpu = b \/ \E l \in Loads : cpu = Later(b, l)
        /\ s1 = NoRead \/ s1 = Sampled(b)
    /\ tool \in Nets \/ pc \in {"detect", "first", "sleep"} => s2 = NoRead
    /\ StealIsReal

\* The balloon read is one that memory had, and nothing is said before the end.
BalloonInv ==
    /\ mem \in mems
    /\ pc = "total" => held = 0 \/ \E a \in mems : a.balloon = held
    /\ pc # "done" => report.balloon = "none"
    /\ BalloonIsReal

CountersInv == TypeOK /\ Control /\ NetInv /\ CpuInv /\ BalloonInv

-----------------------------------------------------------------------------
(***************************************************************************)
(* Arithmetic modulo a width: what the subtraction of the code gives.      *)
(***************************************************************************)
LEMMA RemainderRange ==
  ASSUME NEW m \in Nat \ {0}, NEW x \in Int
  PROVE  x % m \in 0..m - 1
  OBVIOUS

\* A difference that is not negative and below the modulus is itself.
LEMMA RemainderSmall ==
  ASSUME NEW m \in Nat \ {0}, NEW x \in 0..m - 1
  PROVE  x % m = x
  OBVIOUS

\* A negative difference wraps around once.
LEMMA RemainderNegative ==
  ASSUME NEW m \in Nat \ {0}, NEW x \in Int, -m <= x, x < 0
  PROVE  x % m = x + m
  OBVIOUS

\* A sum past the modulus wraps around once.
LEMMA RemainderLarge ==
  ASSUME NEW m \in Nat \ {0}, NEW x \in Int, m <= x, x < 2 * m
  PROVE  x % m = x - m
  OBVIOUS

\* A sum that wraps at most once.
LEMMA WrapsOnce ==
  ASSUME NEW m \in Nat \ {0}, NEW a \in 0..m - 1, NEW b \in 0..m - 1
  PROVE  (a + b) % m = a + b \/ (a + b) % m = a + b - m
<1> DEFINE s == a + b
<1>1. s \in Int /\ 0 <= s /\ s < 2 * m
  OBVIOUS
<1> HIDE DEF s
<1>2. CASE s < m
  <2>1. s \in 0..m - 1
    BY <1>1, <1>2
  <2> QED
    BY <2>1, RemainderSmall DEF s
<1>3. CASE m <= s
  <2>1. s % m = s - m
    BY <1>1, <1>3, RemainderLarge
  <2> QED
    BY <2>1 DEF s
<1> QED
  BY <1>1, <1>2, <1>3

\* However often the counter wraps, the difference of two readings of a device is what it
\* received in between.
LEMMA CounterDelta ==
  ASSUME NEW b \in 0..Modulus - 1, NEW m \in 0..MaxSent, NEW n \in 0..MaxSent, m <= n
  PROVE  Delta((b + m) % Modulus, (b + n) % Modulus) = n - m
<1>1. /\ Modulus \in Nat \ {0} /\ m \in 0..Modulus - 1 /\ n \in 0..Modulus - 1
  BY ModulusAssumption, BoundsAssumption
<1> DEFINE before == (b + m) % Modulus
           after == (b + n) % Modulus
<1>2. before = b + m \/ before = b + m - Modulus
  BY <1>1, WrapsOnce
<1>3. after = b + n \/ after = b + n - Modulus
  BY <1>1, WrapsOnce
<1>4. before \in 0..Modulus - 1 /\ after \in 0..Modulus - 1
  <2>1. b + m \in Int /\ b + n \in Int
    BY <1>1
  <2> QED
    BY <1>1, <2>1, RemainderRange
<1> HIDE DEF before, after
<1>5. CASE after - before = n - m
  <2>1. after - before \in 0..Modulus - 1
    BY <1>1, <1>5
  <2> QED
    BY <1>1, <1>5, <2>1, RemainderSmall DEF Delta, before, after
<1>6. CASE after - before = n - m - Modulus
  <2>1. -Modulus <= after - before /\ after - before < 0 /\ after - before \in Int
    BY <1>1, <1>4, <1>6
  <2>2. (after - before) % Modulus = after - before + Modulus
    BY <1>1, <2>1, RemainderNegative
  <2>3. after - before + Modulus = n - m
    BY <1>1, <1>6
  <2> QED
    BY <2>2, <2>3 DEF Delta, before, after
<1>7. after - before = n - m \/ after - before = n - m - Modulus
  BY <1>1, <1>2, <1>3, <1>4
<1> QED
  BY <1>5, <1>6, <1>7

-----------------------------------------------------------------------------
(***************************************************************************)
(* Devices and samples.                                                    *)
(***************************************************************************)
LEMMA DeviceFacts ==
  ASSUME NEW d \in Devices
  PROVE  /\ d.inc \in 0..MaxInc /\ d.sent \in 0..MaxSent /\ d.born \in Born
         /\ d.inc \in Int /\ d.sent \in Int
         /\ d = [inc |-> d.inc, up |-> d.up, born |-> d.born, sent |-> d.sent]
  BY BoundsAssumption DEF Devices

\* The order of samples of one name in time is transitive.
LEMMA NotAfterTransitive ==
  ASSUME NEW d \in Devices, NEW e \in Devices, NEW f \in Devices,
         NotAfter(d, e), NotAfter(e, f)
  PROVE  NotAfter(d, f)
<1>1. \A g \in Devices : g.inc \in Int /\ g.sent \in Int
  BY DeviceFacts
<1> QED
  BY <1>1 DEF NotAfter

\* And reflexive.
LEMMA NotAfterItself ==
  ASSUME NEW d \in Devices
  PROVE  NotAfter(d, d)
  BY DeviceFacts DEF NotAfter

\* A sample gives some of the names a device each.
LEMMA SampleFacts ==
  ASSUME NEW c
  PROVE  /\ c \in Samples => /\ DOMAIN c \subseteq Ifaces
                             /\ \A i \in DOMAIN c : c[i] \in Devices
                             /\ c = [i \in DOMAIN c |-> c[i]]
         /\ \A S \in SUBSET Ifaces : c \in [S -> Devices] => c \in Samples
  BY DEF Samples

\* The first sample of netns-inspector has no interface.
LEMMA EmptySample == <<>> \in Samples /\ DOMAIN <<>> = {}
<1>1. <<>> \in [{} -> Devices]
  OBVIOUS
<1> QED
  BY <1>1, SampleFacts

\* Whatever becomes of a device, it is not after what comes after it under its name.
LEMMA DevicesAge ==
  ASSUME TypeOK, Kernel
  PROVE  /\ UNCHANGED <<tool, pc, net, virt>>
         /\ dev' \in [Ifaces -> Devices]
         /\ \A i \in Ifaces : NotAfter(dev[i], dev'[i])
<1>1. UNCHANGED <<tool, pc, net, virt>>
  BY DEF Kernel
<1>2. dev \in [Ifaces -> Devices] /\ \A i \in Ifaces : dev[i] \in Devices
  BY DEF TypeOK
<1>3. CASE UNCHANGED dev
  BY <1>1, <1>2, <1>3, NotAfterItself
<1>4. CASE \E i \in Ifaces, d \in Devices : dev' = [dev EXCEPT ![i] = d] /\ NotAfter(dev[i], d)
  BY <1>1, <1>2, <1>4, NotAfterItself
<1>5. ASSUME NEW i \in Ifaces, Receive(i)
      PROVE  \E d \in Devices : dev' = [dev EXCEPT ![i] = d] /\ NotAfter(dev[i], d)
  <2> DEFINE e == dev[i]
             d == [e EXCEPT !.sent = e.sent + 1]
  <2>1. e \in Devices /\ e.sent < MaxSent /\ dev' = [dev EXCEPT ![i] = d]
    BY <1>2, <1>5 DEF Receive
  <2> HIDE DEF e
  <2>2. e.sent + 1 \in 0..MaxSent
    BY <2>1, BoundsAssumption, DeviceFacts
  <2>3. d \in Devices
    BY <2>1, <2>2 DEF Devices
  <2>4. NotAfter(e, d)
    BY <2>1, DeviceFacts DEF NotAfter, Devices
  <2> QED
    BY <2>1, <2>3, <2>4 DEF e
<1>6. ASSUME NEW i \in Ifaces, Move(i)
      PROVE  \E d \in Devices : dev' = [dev EXCEPT ![i] = d] /\ NotAfter(dev[i], d)
  <2> DEFINE e == dev[i]
             d == [e EXCEPT !.up = ~e.up]
  <2>1. e \in Devices /\ dev' = [dev EXCEPT ![i] = d]
    BY <1>2, <1>6 DEF Move
  <2> HIDE DEF e
  <2>2. d \in Devices
    BY <2>1 DEF Devices
  <2>3. NotAfter(e, d)
    BY <2>1, DeviceFacts DEF NotAfter, Devices
  <2> QED
    BY <2>1, <2>2, <2>3 DEF e
<1>7. ASSUME NEW i \in Ifaces, Replace(i)
      PROVE  \E d \in Devices : dev' = [dev EXCEPT ![i] = d] /\ NotAfter(dev[i], d)
  <2>1. PICK b \in Born :
          dev' = [dev EXCEPT ![i] = [inc |-> dev[i].inc + 1, up |-> TRUE, born |-> b, sent |-> 0]]
    BY <1>7, <1>2 DEF Replace
  <2> DEFINE d == [inc |-> dev[i].inc + 1, up |-> TRUE, born |-> b, sent |-> 0]
  <2>2. dev[i].inc + 1 \in 0..MaxInc /\ 0 \in 0..MaxSent /\ dev[i].inc \in Int
    BY <1>2, <1>7, BoundsAssumption, DeviceFacts DEF Replace
  <2>3. d \in Devices
    BY <2>2 DEF Devices
  <2>4. NotAfter(dev[i], d)
    BY <2>2 DEF NotAfter
  <2> QED
    BY <2>1, <2>3, <2>4
<1>8. UNCHANGED dev \/ \E i \in Ifaces : Receive(i) \/ Move(i) \/ Replace(i)
  BY DEF Kernel, WatchedEnds, TimePasses, BalloonMoves
<1> QED
  BY <1>3, <1>4, <1>5, <1>6, <1>7, <1>8

-----------------------------------------------------------------------------
(***************************************************************************)
(* netns-inspector.                                                        *)
(***************************************************************************)
\* A row compares two readings, of the same device or not.
LEMMA RowFacts ==
  ASSUME TypeOK, NetInv, NEW i \in DOMAIN curr
  PROVE  /\ Row(i).rate \in 0..Modulus - 1 /\ Row(i).received \in 0..MaxSent
         /\ Row(i).same => Row(i).rate = Row(i).received
<1> DEFINE same == i \in DOMAIN last /\ last[i].inc = curr[i].inc
<1>1. /\ Row(i).rate = Delta(Before(i), Counter(curr[i])) /\ (Row(i).same <=> same)
      /\ Row(i).received = curr[i].sent - (IF same THEN last[i].sent ELSE 0)
  BY DEF Row
<1>2. curr[i] \in Devices /\ (i \in DOMAIN last => last[i] \in Devices) /\ prev = last
  BY SampleFacts DEF TypeOK, NetInv
<1>3. /\ \A d \in Devices : Counter(d) \in 0..Modulus - 1
      /\ Before(i) \in 0..Modulus - 1
  <2>1. ASSUME NEW d \in Devices
        PROVE  Counter(d) \in 0..Modulus - 1
    <3>1. d.born + d.sent \in Int
      BY DeviceFacts, BornAssumption, ModulusAssumption, BoundsAssumption
    <3> QED
      BY <3>1, ModulusAssumption, RemainderRange DEF Counter
  <2>2. Before(i) \in 0..Modulus - 1
    BY <1>2, <2>1, ModulusAssumption DEF Before
  <2> QED
    BY <2>1, <2>2
<1>4. Row(i).rate \in 0..Modulus - 1
  <2>1. Counter(curr[i]) - Before(i) \in Int
    BY <1>2, <1>3
  <2> QED
    BY <1>1, <2>1, ModulusAssumption, RemainderRange DEF Delta
<1>5. same => /\ last[i].born = curr[i].born /\ last[i].sent <= curr[i].sent
              /\ last[i].sent \in 0..MaxSent
  BY <1>2, DeviceFacts DEF NetInv, NotAfter
<1>6. curr[i].sent \in 0..MaxSent /\ curr[i].born \in 0..Modulus - 1
  BY <1>2, DeviceFacts, BornAssumption
<1>7. Row(i).received \in 0..MaxSent
  <2> HIDE DEF same
  <2>1. CASE same
    BY <1>1, <1>5, <1>6, <2>1, BoundsAssumption
  <2>2. CASE ~same
    BY <1>1, <1>6, <2>2, BoundsAssumption
  <2> QED
    BY <2>1, <2>2
<1>8. ASSUME same
      PROVE  Row(i).rate = Row(i).received
  <2>1. /\ Row(i).rate = Delta((curr[i].born + last[i].sent) % Modulus,
                                (curr[i].born + curr[i].sent) % Modulus)
        /\ Row(i).received = curr[i].sent - last[i].sent
    BY <1>1, <1>2, <1>5, <1>8 DEF Before, Counter
  <2>2. Delta((curr[i].born + last[i].sent) % Modulus, (curr[i].born + curr[i].sent) % Modulus)
          = curr[i].sent - last[i].sent
    BY <1>5, <1>6, <1>8, CounterDelta
  <2> QED
    BY <2>1, <2>2
<1> HIDE DEF same
<1> QED
  BY <1>1, <1>4, <1>7, <1>8

\* What the invariant says of the rest of the program while netns-inspector runs.
NetRest == UNCHANGED <<tool, kernel, virt>>

\* A step of netns-inspector leaves the vcpu half of the state alone.
LEMMA NetStepRest ==
  ASSUME CountersInv, NetRest, pc \in {"open", "lines"}, pc' \in {"open", "lines", "done", "exit1"}
  PROVE  Control' /\ CpuInv' /\ BalloonInv'
<1>1. tool \in Nets /\ tool \notin Virts /\ tool' = tool
  BY DEF CountersInv, Control, Nets, Virts, NetRest
<1>2. UNCHANGED <<dev, cpu, mem, mems, s1, s2, held, report>>
  BY DEF NetRest, kernel, virt
<1>3. Control'
  BY <1>1 DEF Control
<1>4. CpuInv'
  <2>1. cpu \in Boots /\ s1 = NoRead /\ s2 = NoRead
    BY <1>1 DEF CountersInv, CpuInv
  <2>2. StealIsReal'
    BY <1>1, <1>2 DEF CountersInv, CpuInv, StealIsReal
  <2> QED
    BY <1>1, <1>2, <2>1, <2>2 DEF CpuInv
<1>5. BalloonInv'
  <2>1. mem \in mems /\ report.balloon = "none"
    BY DEF CountersInv, BalloonInv
  <2> QED
    BY <1>2, <2>1 DEF BalloonInv, BalloonIsReal
<1> QED
  BY <1>3, <1>4, <1>5

\* The file is opened, of whoever holds the pid then.
LEMMA OpenNetDevStep ==
  ASSUME CountersInv, OpenNetDev, NetRest
  PROVE  CountersInv'
<1>1. /\ pc = "open" /\ pc' \in {"exit1", "lines"} /\ todo' \in {todo, Ifaces} /\ rows' = {}
      /\ UNCHANGED <<sampled, prev, curr, last, dev, report>>
  BY DEF OpenNetDev, NetRest, kernel, virt
<1>2. Control' /\ CpuInv' /\ BalloonInv'
  BY <1>1, NetStepRest
<1>3. TypeOK'
  BY <1>1 DEF CountersInv, TypeOK
<1>4. NetInv'
  BY <1>1 DEF CountersInv, NetInv, RateIsTraffic
<1> QED
  BY <1>2, <1>3, <1>4 DEF CountersInv

\* A line is compared with that of the last round, if there was one.
LEMMA ReadLineStep ==
  ASSUME CountersInv, NEW i \in Ifaces, ReadLine(i), NetRest
  PROVE  CountersInv'
<1>1. /\ pc = "lines" /\ todo' = todo \ {i}
      /\ UNCHANGED <<pc, sampled, prev, rows, last, dev, report>>
      /\ \/ curr' = curr
         \/ curr' = [n \in DOMAIN curr \cup {i} |-> IF n = i THEN dev[i] ELSE curr[n]]
  BY DEF ReadLine, NetRest, kernel, virt
<1>2. Control' /\ CpuInv' /\ BalloonInv'
  BY <1>1, NetStepRest
<1>3. /\ curr \in Samples /\ dev[i] \in Devices /\ DOMAIN curr \subseteq Ifaces
      /\ \A n \in DOMAIN curr : curr[n] \in Devices
  BY SampleFacts DEF CountersInv, TypeOK
<1>4. curr' \in Samples
  <2>1. CASE curr' = [n \in DOMAIN curr \cup {i} |-> IF n = i THEN dev[i] ELSE curr[n]]
    <3>1. curr' \in [DOMAIN curr \cup {i} -> Devices] /\ DOMAIN curr \cup {i} \in SUBSET Ifaces
      BY <1>3, <2>1
    <3> QED
      BY <3>1, SampleFacts
  <2> QED
    BY <1>1, <1>3, <2>1
<1>5. TypeOK'
  BY <1>1, <1>4 DEF CountersInv, TypeOK
<1>6. ASSUME NEW n \in DOMAIN curr'
      PROVE  (n \in DOMAIN curr /\ curr'[n] = curr[n]) \/ (n = i /\ curr'[n] = dev[i])
  <2>1. CASE curr' = curr
    BY <2>1
  <2>2. CASE curr' = [m \in DOMAIN curr \cup {i} |-> IF m = i THEN dev[i] ELSE curr[m]]
    BY <2>2
  <2> QED
    BY <1>1, <2>1, <2>2
<1>7. NetInv'
  <2>1. \A n \in DOMAIN curr' : NotAfter(curr'[n], dev[n])
    BY <1>3, <1>6, NotAfterItself DEF CountersInv, NetInv
  <2>2. \A n \in DOMAIN last \cap DOMAIN curr' : NotAfter(last[n], curr'[n])
    BY <1>6 DEF CountersInv, NetInv
  <2> QED
    BY <1>1, <2>1, <2>2 DEF CountersInv, NetInv, RateIsTraffic
<1> QED
  BY <1>2, <1>5, <1>7 DEF CountersInv

\* A sample is complete: it is now the one that the next is compared with.
LEMMA PrintStep ==
  ASSUME CountersInv, PrintTable \/ PrintDeltaTable, NetRest
  PROVE  CountersInv'
<1>1. /\ pc = "lines" /\ pc' \in {"open", "done"} /\ prev' = curr /\ last' = curr /\ curr' = <<>>
      /\ rows' = rows \/ rows' = {Row(i) : i \in DOMAIN curr}
      /\ UNCHANGED <<todo, dev, report>>
  BY DEF PrintTable, PrintDeltaTable, NetRest, kernel, virt
<1>2. Control' /\ CpuInv' /\ BalloonInv'
  BY <1>1, NetStepRest
<1>3. /\ \A r \in rows' : r.rate \in 0..Modulus - 1 /\ r.received \in 0..MaxSent
      /\ \A r \in rows' : r.same => r.rate = r.received
  <2>1. CASE rows' = rows
    BY <2>1 DEF CountersInv, TypeOK, NetInv, RateIsTraffic
  <2>2. CASE rows' = {Row(i) : i \in DOMAIN curr}
    BY <2>2, RowFacts DEF CountersInv
  <2> QED
    BY <1>1, <2>1, <2>2
<1>4. TypeOK'
  BY <1>1, <1>3, EmptySample DEF CountersInv, TypeOK
<1>5. NetInv'
  <2>1. DOMAIN curr' = {}
    BY <1>1, EmptySample
  <2> QED
    BY <1>1, <1>3, <2>1 DEF CountersInv, NetInv, RateIsTraffic
<1> QED
  BY <1>2, <1>4, <1>5 DEF CountersInv

-----------------------------------------------------------------------------
(***************************************************************************)
(* internal/virt and vcpu-inspector.                                       *)
(***************************************************************************)
LEMMA VirtAt ==
  ASSUME CountersInv, pc \in {"detect", "first", "sleep", "balloon", "total"}
  PROVE  tool \in Virts /\ tool \notin Nets
  BY DEF CountersInv, Control, Nets, Virts

\* What it does leaves the network and the kernel alone.
VirtRest == UNCHANGED <<tool, kernel, net>>

\* A step of the virt report leaves the network half of the state alone.
LEMMA VirtStepRest ==
  ASSUME CountersInv, VirtRest, report' \in [steal : Indicators, balloon : Indicators],
         pc \in {"detect", "first", "sleep", "balloon", "total"},
         pc' \in {"first", "sleep", "balloon", "total", "done"}
  PROVE  TypeOK' /\ Control' /\ NetInv'
<1>1. tool \in Virts /\ tool \notin Nets /\ tool' = tool
  BY VirtAt DEF VirtRest
<1>2. UNCHANGED <<dev, prev, curr, last, todo, rows>>
  BY DEF VirtRest, kernel, net
<1>3. TypeOK'
  BY <1>2 DEF CountersInv, TypeOK
<1>4. NetInv'
  BY <1>2 DEF CountersInv, NetInv, RateIsTraffic
<1> QED
  BY <1>1, <1>3, <1>4 DEF Control

\* Without a hypervisor there is no report.
LEMMA DetectHypervisorStep ==
  ASSUME CountersInv, DetectHypervisor, VirtRest
  PROVE  CountersInv'
<1>1. /\ pc = "detect" /\ pc' \in {"first", "done"}
      /\ UNCHANGED <<tool, cpu, mem, mems, s1, s2, held, report>>
  BY DEF DetectHypervisor, VirtRest, kernel, virt
<1>2. TypeOK' /\ Control' /\ NetInv'
  <2>1. report' \in [steal : Indicators, balloon : Indicators]
    BY <1>1 DEF CountersInv, TypeOK
  <2> QED
    BY <1>1, <2>1, VirtStepRest
<1>3. CpuInv'
  BY <1>1 DEF CountersInv, CpuInv, StealIsReal
<1>4. BalloonInv'
  BY <1>1 DEF CountersInv, BalloonInv, BalloonIsReal
<1> QED
  BY <1>2, <1>3, <1>4 DEF CountersInv

\* The first sample is of the counters at the start, if it can be read.
LEMMA FirstSampleStep ==
  ASSUME CountersInv, FirstSample, VirtRest
  PROVE  CountersInv'
<1>1. /\ pc = "first" /\ pc' = "sleep" /\ s1' \in {Sampled(cpu), NoRead}
      /\ UNCHANGED <<tool, cpu, mem, mems, s2, held, report>>
  BY DEF FirstSample, CpuSample, Sampled, VirtRest, kernel
<1>2. TypeOK' /\ Control' /\ NetInv'
  <2>1. report' \in [steal : Indicators, balloon : Indicators]
    BY <1>1 DEF CountersInv, TypeOK
  <2> QED
    BY <1>1, <2>1, VirtStepRest
<1>3. CpuInv'
  <2>1. cpu \in Boots /\ s2 = NoRead
    BY <1>1 DEF CountersInv, CpuInv
  <2>2. ~s2'.read
    BY <1>1, <2>1 DEF NoRead
  <2>3. StealIsReal'
    BY <2>2 DEF StealIsReal
  <2> QED
    BY <1>1, <2>1, <2>3 DEF CpuInv
<1>4. BalloonInv'
  BY <1>1 DEF CountersInv, BalloonInv, BalloonIsReal
<1> QED
  BY <1>2, <1>3, <1>4 DEF CountersInv

(***************************************************************************)
(* The two differences, as the code takes them, are those of the counters, *)
(* unless the total went backwards; then its difference is so big that no  *)
(* share of it is reached.                                                 *)
(***************************************************************************)
LEMMA StealArithmetic ==
  ASSUME NEW part \in 0..Modulus - 1, NEW whole \in Int, whole < Modulus, -Modulus < whole,
         whole < 0 => 100 * part < Modulus + whole,
         NEW pct \in {1, 5, 10}
  PROVE  AtLeast(part % Modulus, whole % Modulus, pct) <=> whole > 0 /\ part * 100 >= pct * whole
<1>1. Modulus \in Nat \ {0} /\ part % Modulus = part
  BY ModulusAssumption, RemainderSmall
<1>2. CASE whole >= 0
  <2>1. whole \in 0..Modulus - 1
    BY <1>1, <1>2
  <2>2. whole % Modulus = whole
    BY <1>1, <2>1, RemainderSmall
  <2> QED
    BY <1>1, <1>2, <2>2 DEF AtLeast
<1>3. CASE whole < 0
  <2>1. -Modulus <= whole
    BY <1>1
  <2>2. whole % Modulus = whole + Modulus
    BY <1>1, <1>3, <2>1, RemainderNegative
  <2> DEFINE big == whole + Modulus
  <2>3. big \in Nat \ {0} /\ 100 * part < big
    BY <1>1, <1>3
  <2>4. ~(part * 100 >= pct * big)
    <3> HIDE DEF big
    <3> QED
      BY <2>3
  <2> QED
    BY <1>1, <1>3, <2>2, <2>4 DEF AtLeast
<1> QED
  BY <1>2, <1>3

\* A steal percentage has one of the classes.
LEMMA StealClassIndicates ==
  ASSUME NEW part, NEW whole
  PROVE  StealClass(part, whole) \in Indicators
  BY DEF StealClass, Indicators

\* The differences between the samples: one load, or all there is since boot.
LEMMA SampleDifference ==
  ASSUME NEW b \in Boots, NEW l \in Loads, cpu = Later(b, l), s1 = NoRead \/ s1 = Sampled(b)
  PROVE  LET s == Sampled(cpu)
             part == s.steal - s1.steal
             whole == part + (s.iowait - s1.iowait) + (s.rest - s1.rest)
         IN  /\ part \in 0..Modulus - 1
             /\ whole \in Int /\ whole < Modulus /\ -Modulus < whole
             /\ whole < 0 => 100 * part < Modulus + whole
             /\ Delta(s1.steal, s.steal) = part % Modulus
             /\ Delta(Total(s1), Total(s)) = whole % Modulus
<1> DEFINE s == Sampled(cpu)
           part == s.steal - s1.steal
           whole == part + (s.iowait - s1.iowait) + (s.rest - s1.rest)
<1>1. /\ b.steal \in Nat /\ b.iowait \in Nat /\ b.rest \in Nat
      /\ l.steal \in Nat /\ l.iowait \in Int /\ l.rest \in Nat
      /\ Modulus \in Nat \ {0}
  BY CpuAssumption, ModulusAssumption
<1>2. /\ b.steal + l.steal < Modulus
      /\ Ticks(b) < Modulus /\ Ticks(b) + Ticks(l) \in 0..Modulus - 1
      /\ Ticks(l) < 0 => 100 * l.steal < Modulus + Ticks(l)
  BY CpuAssumption
<1>3. Ticks(b) = b.steal + b.iowait + b.rest /\ Ticks(l) = l.steal + l.iowait + l.rest
  BY DEF Ticks
<1>4. /\ s.steal = b.steal + l.steal /\ s.iowait = b.iowait + l.iowait
      /\ s.rest = b.rest + l.rest
  BY DEF Sampled, Later
<1>5. Ticks(s) = Ticks(b) + Ticks(l) /\ Ticks(s) \in 0..Modulus - 1
  BY <1>1, <1>2, <1>3, <1>4 DEF Ticks
<1>6. Total(s) = Ticks(s)
  BY <1>1, <1>5, RemainderSmall DEF Total
<1>7. CASE s1 = NoRead
  <2>1. s1.steal = 0 /\ s1.iowait = 0 /\ s1.rest = 0
    BY <1>7 DEF NoRead
  <2>2. Ticks(s1) = 0 /\ 0 \in 0..Modulus - 1
    BY <1>1, <2>1 DEF Ticks
  <2>3. Total(s1) = 0
    BY <1>1, <2>2, RemainderSmall DEF Total
  <2>4. part = b.steal + l.steal /\ whole = Ticks(s)
    BY <1>1, <1>3, <1>4, <1>5, <2>1
  <2>5. /\ part \in 0..Modulus - 1 /\ whole \in Int /\ whole < Modulus /\ -Modulus < whole
        /\ ~(whole < 0)
    BY <1>1, <1>2, <1>5, <2>4
  <2>6. Total(s) - Total(s1) = whole
    BY <1>5, <1>6, <2>3, <2>4, ModulusAssumption
  <2> HIDE DEF whole, part
  <2> QED
    BY <2>5, <2>6 DEF Delta, whole, part
<1>8. CASE s1 = Sampled(b)
  <2>1. s1.steal = b.steal /\ s1.iowait = b.iowait /\ s1.rest = b.rest
    BY <1>8 DEF Sampled
  <2>2. Ticks(s1) = Ticks(b) /\ Ticks(b) \in 0..Modulus - 1
    BY <1>1, <1>2, <1>3, <2>1 DEF Ticks
  <2>3. Total(s1) = Ticks(b)
    BY <1>1, <2>2, RemainderSmall DEF Total
  <2>4. part = l.steal /\ whole = Ticks(l)
    BY <1>1, <1>3, <1>4, <2>1
  <2>5. /\ part \in 0..Modulus - 1 /\ whole \in Int /\ whole < Modulus /\ -Modulus < whole
        /\ whole < 0 => 100 * part < Modulus + whole
    BY <1>1, <1>2, <1>3, <2>2, <2>4
  <2>6. Total(s) - Total(s1) = whole
    BY <1>1, <1>3, <1>5, <1>6, <2>3, <2>4
  <2> HIDE DEF whole, part
  <2> QED
    BY <2>5, <2>6 DEF Delta, whole, part
<1> QED
  BY <1>7, <1>8

\* What is said of the steal time is true of the interval.
LEMMA SecondSampleStep ==
  ASSUME CountersInv, SecondSample, VirtRest
  PROVE  CountersInv'
<1>1. /\ pc = "sleep" /\ pc' = "balloon" /\ cpu \notin Boots
      /\ UNCHANGED <<tool, cpu, mem, mems, s1, held>>
  BY DEF SecondSample, VirtRest, kernel
<1>2. PICK s \in {Sampled(cpu), NoRead} :
        /\ s2' = s
        /\ report' = [report EXCEPT !.steal =
                        StealClass(Delta(s1.steal, s.steal), Delta(Total(s1), Total(s)))]
  BY DEF SecondSample, CpuSample, Sampled
<1> DEFINE class == StealClass(Delta(s1.steal, s.steal), Delta(Total(s1), Total(s)))
<1>3. class \in Indicators
  BY StealClassIndicates
<1>4. /\ report' \in [steal : Indicators, balloon : Indicators]
      /\ report'.steal = class /\ report'.balloon = report.balloon
  <2>1. /\ report \in [steal : Indicators, balloon : Indicators]
        /\ report' = [report EXCEPT !.steal = class]
    BY <1>2 DEF CountersInv, TypeOK
  <2> HIDE DEF class
  <2> QED
    BY <1>3, <2>1
<1>5. TypeOK' /\ Control' /\ NetInv'
  BY <1>1, <1>4, VirtStepRest
<1>6. StealIsReal'
  <2>1. CASE s = NoRead
    <3>1. ~s2'.read
      BY <1>2, <2>1 DEF NoRead
    <3> QED
      BY <3>1 DEF StealIsReal
  <2>2. CASE s = Sampled(cpu)
    <3> DEFINE part == s.steal - s1.steal
               whole == part + (s.iowait - s1.iowait) + (s.rest - s1.rest)
               Share(pct) == whole > 0 /\ part * 100 >= pct * whole
               p == Delta(s1.steal, s.steal)
               w == Delta(Total(s1), Total(s))
    <3>1. PICK b \in Boots : /\ cpu = b \/ \E l \in Loads : cpu = Later(b, l)
                             /\ s1 = NoRead \/ s1 = Sampled(b)
      BY <1>1 DEF CountersInv, CpuInv
    <3>2. PICK l \in Loads : cpu = Later(b, l)
      BY <1>1, <3>1
    <3>3. /\ part \in 0..Modulus - 1
          /\ whole \in Int /\ whole < Modulus /\ -Modulus < whole
          /\ whole < 0 => 100 * part < Modulus + whole
          /\ p = part % Modulus /\ w = whole % Modulus
      BY <2>2, <3>1, <3>2, SampleDifference
    <3> HIDE DEF part, whole, p, w
    <3>4. \A pct \in {1, 5, 10} : AtLeast(p, w, pct) <=> Share(pct)
      BY <3>3, StealArithmetic
    <3>5. (Share(10) => Share(5)) /\ (Share(5) => Share(1))
      BY <3>3
    <3> HIDE DEF Share
    <3>6. /\ class = "CRITICAL" <=> Share(10)
          /\ class = "WARNING" <=> Share(5) /\ ~Share(10)
          /\ class = "Excellent" <=> tool = "vcpu" /\ ~Share(1)
      <4>1. /\ AtLeast(p, w, 10) <=> Share(10)
            /\ AtLeast(p, w, 5) <=> Share(5)
            /\ AtLeast(p, w, 1) <=> Share(1)
        BY <3>4
      <4>2. tool \in {"virt", "vcpu"}
        BY <1>1, VirtAt DEF Virts
      <4>3. class = StealClass(p, w)
        BY DEF p, w
      <4> QED
        BY <3>5, <4>1, <4>2, <4>3 DEF StealClass
    <3>7. report'.steal = class /\ tool' = tool /\ s2' = s /\ s1' = s1
      BY <1>1, <1>2, <1>4
    <3> QED
      BY <3>6, <3>7 DEF StealIsReal, Share, part, whole
  <2> QED
    BY <1>2, <2>1, <2>2
<1>7. CpuInv'
  <2>1. tool \in Virts /\ tool \notin Nets
    BY <1>1, VirtAt
  <2> QED
    BY <1>1, <1>6, <2>1 DEF CpuInv
<1>8. BalloonInv'
  BY <1>1, <1>4 DEF CountersInv, BalloonInv, BalloonIsReal
<1> QED
  BY <1>5, <1>7, <1>8 DEF CountersInv

\* The balloon's size is read at one time.
LEMMA ReadBalloonStep ==
  ASSUME CountersInv, ReadBalloon, VirtRest
  PROVE  CountersInv'
<1>1. /\ pc = "balloon" /\ pc' = "total" /\ held' \in {mem.balloon, 0}
      /\ UNCHANGED <<tool, cpu, mem, mems, s1, s2, report>>
  BY DEF ReadBalloon, VirtRest, kernel
<1>2. tool \in Virts /\ tool \notin Nets
  BY <1>1, VirtAt
<1>3. TypeOK' /\ Control' /\ NetInv'
  <2>1. report' \in [steal : Indicators, balloon : Indicators]
    BY <1>1 DEF CountersInv, TypeOK
  <2> QED
    BY <1>1, <2>1, VirtStepRest
<1>4. CpuInv'
  BY <1>1, <1>2 DEF CountersInv, CpuInv, StealIsReal
<1>5. BalloonInv'
  BY <1>1 DEF CountersInv, BalloonInv, BalloonIsReal
<1> QED
  BY <1>3, <1>4, <1>5 DEF CountersInv

\* And the total it is compared with at a later one.
LEMMA ReadTotalStep ==
  ASSUME CountersInv, ReadTotal, VirtRest
  PROVE  CountersInv'
<1>1. /\ pc = "total" /\ pc' = "done"
      /\ UNCHANGED <<tool, cpu, mem, mems, s1, s2, held>>
  BY DEF ReadTotal, VirtRest, kernel
<1>2. PICK total \in {mem.total, 0} :
        report' = [report EXCEPT !.balloon = BalloonClass(held, total)]
  BY DEF ReadTotal
<1>3. /\ report' \in [steal : Indicators, balloon : Indicators]
      /\ report'.steal = report.steal /\ report'.balloon = BalloonClass(held, total)
  <2> DEFINE class == BalloonClass(held, total)
  <2>1. class \in Indicators
    BY DEF BalloonClass, Indicators
  <2>2. /\ report \in [steal : Indicators, balloon : Indicators]
        /\ report' = [report EXCEPT !.balloon = class]
    BY <1>2 DEF CountersInv, TypeOK
  <2> HIDE DEF class
  <2>3. /\ report' \in [steal : Indicators, balloon : Indicators]
        /\ report'.steal = report.steal /\ report'.balloon = class
    BY <2>1, <2>2
  <2> QED
    BY <2>3 DEF class
<1>4. TypeOK' /\ Control' /\ NetInv'
  BY <1>1, <1>3, VirtStepRest
<1>5. CpuInv'
  <2>1. tool \in Virts /\ tool \notin Nets
    BY <1>1, VirtAt
  <2> QED
    BY <1>1, <1>3, <2>1 DEF CountersInv, CpuInv, StealIsReal
<1>6. BalloonInv'
  <2>1. mem \in mems /\ (held = 0 \/ \E a \in mems : a.balloon = held)
    BY <1>1 DEF CountersInv, BalloonInv
  <2>2. BalloonClass(held, total) = "CRITICAL" =>
          held # 0 /\ total = mem.total /\ held * 100 > 25 * total
    BY DEF BalloonClass
  <2>3. BalloonIsReal'
    <3> SUFFICES ASSUME BalloonClass(held, total) = "CRITICAL"
                 PROVE  \E a, b \in mems : a.balloon * 100 > 25 * b.total /\ a.balloon = held
      BY <1>1, <1>3 DEF BalloonIsReal
    <3>1. PICK a \in mems : a.balloon = held
      BY <2>1, <2>2
    <3>2. a.balloon * 100 > 25 * mem.total
      BY <2>2, <3>1
    <3> QED
      BY <2>1, <3>1, <3>2
  <2> QED
    BY <1>1, <2>1, <2>3 DEF BalloonInv
<1> QED
  BY <1>4, <1>5, <1>6 DEF CountersInv

-----------------------------------------------------------------------------
(***************************************************************************)
(* The kernel goes on, between any two steps of the tool.                  *)
(***************************************************************************)
LEMMA KernelStep ==
  ASSUME CountersInv, Kernel
  PROVE  CountersInv'
<1>1. /\ UNCHANGED <<tool, pc, net, virt>> /\ dev' \in [Ifaces -> Devices]
      /\ \A i \in Ifaces : NotAfter(dev[i], dev'[i])
  BY DevicesAge DEF CountersInv
<1>2. UNCHANGED <<tool, pc, prev, curr, last, todo, rows, s1, s2, held, report>>
  BY <1>1 DEF net, virt
<1>3. TypeOK' /\ Control'
  BY <1>1, <1>2 DEF CountersInv, TypeOK, Control
<1>4. NetInv'
  <2>1. dev \in [Ifaces -> Devices] /\ curr \in Samples /\ last \in Samples
    BY DEF CountersInv, TypeOK
  <2>2. ASSUME NEW c \in Samples, \A i \in DOMAIN c : NotAfter(c[i], dev[i])
        PROVE  \A i \in DOMAIN c : NotAfter(c[i], dev'[i])
    <3> SUFFICES ASSUME NEW i \in DOMAIN c PROVE NotAfter(c[i], dev'[i])
      OBVIOUS
    <3>1. i \in Ifaces /\ c[i] \in Devices
      BY SampleFacts
    <3>2. dev[i] \in Devices /\ dev'[i] \in Devices
      BY <1>1, <2>1, <3>1
    <3> QED
      BY <1>1, <2>2, <3>1, <3>2, NotAfterTransitive
  <2>3. \A i \in DOMAIN last : NotAfter(last[i], dev'[i])
    BY <2>1, <2>2 DEF CountersInv, NetInv
  <2>4. \A i \in DOMAIN curr : NotAfter(curr[i], dev'[i])
    BY <2>1, <2>2 DEF CountersInv, NetInv
  <2> QED
    BY <1>2, <2>3, <2>4 DEF CountersInv, NetInv, RateIsTraffic
<1>5. CpuInv'
  <2>1. StealIsReal'
    BY <1>2 DEF CountersInv, CpuInv, StealIsReal
  <2>2. CASE cpu' = cpu
    BY <1>2, <2>1, <2>2 DEF CountersInv, CpuInv
  <2>3. CASE TimePasses
    <3>1. pc = "sleep" /\ cpu \in Boots /\ \E l \in Loads : cpu' = Later(cpu, l)
      BY <2>3 DEF TimePasses
    <3>2. PICK b \in Boots : /\ cpu = b \/ \E l \in Loads : cpu = Later(b, l)
                             /\ s1 = NoRead \/ s1 = Sampled(b)
      BY <3>1 DEF CountersInv, CpuInv
    <3>3. cpu = b
      BY <3>1, <3>2, CpuAssumption
    <3>4. s2 = NoRead
      BY <3>1 DEF CountersInv, CpuInv
    <3>5. (s1 = NoRead \/ s1 = Sampled(b)) /\ \E l \in Loads : cpu' = Later(b, l)
      BY <3>1, <3>2, <3>3
    <3> QED
      BY <1>2, <2>1, <3>1, <3>4, <3>5 DEF CpuInv
  <2> QED
    BY <2>2, <2>3 DEF Kernel, WatchedEnds, Receive, Move, Replace, BalloonMoves
<1>6. BalloonInv'
  <2>1. CASE UNCHANGED <<mem, mems>>
    BY <1>2, <2>1 DEF CountersInv, BalloonInv, BalloonIsReal
  <2>2. CASE BalloonMoves
    <3>1. /\ pc \in {"detect", "balloon", "total"} /\ report.balloon = "none"
      BY <2>2 DEF BalloonMoves, CountersInv, BalloonInv
    <3>2. mem' \in mems' /\ (pc = "total" => mems \subseteq mems')
      BY <2>2 DEF BalloonMoves
    <3>3. pc = "total" => held = 0 \/ \E a \in mems' : a.balloon = held
      BY <3>2 DEF CountersInv, BalloonInv
    <3> QED
      BY <1>2, <3>1, <3>2, <3>3 DEF BalloonInv, BalloonIsReal
  <2> QED
    BY <2>1, <2>2 DEF Kernel, WatchedEnds, Receive, Move, Replace, TimePasses
<1> QED
  BY <1>3, <1>4, <1>5, <1>6 DEF CountersInv

\* Nothing is read at the start.
LEMMA CountersInit == Init => CountersInv
<1> SUFFICES ASSUME Init PROVE CountersInv
  OBVIOUS
<1>1. /\ tool \in Nets \cup Virts /\ pc = (IF tool \in Nets THEN "open" ELSE "detect")
      /\ cpu \in Boots /\ mems = {mem} /\ prev = <<>> /\ curr = <<>> /\ last = <<>>
      /\ todo = {} /\ rows = {} /\ s1 = NoRead /\ s2 = NoRead /\ held = 0 /\ report = Blank
  BY DEF Init
<1>2. dev \in [Ifaces -> Devices]
  <2>1. [inc : {1}, up : BOOLEAN, born : Born, sent : {0}] \subseteq Devices
    BY BoundsAssumption DEF Devices
  <2> QED
    BY <2>1 DEF Init
<1>3. report \in [steal : Indicators, balloon : Indicators] /\ report.balloon = "none"
  BY <1>1 DEF Blank, Indicators
<1>4. TypeOK
  BY <1>1, <1>2, <1>3, EmptySample DEF TypeOK
<1>5. Control
  BY <1>1 DEF Control, Nets, Virts
<1>6. NetInv
  BY <1>1, EmptySample DEF NetInv, RateIsTraffic
<1>7. CpuInv
  <2>1. ~s2.read
    BY <1>1 DEF NoRead
  <2>2. StealIsReal
    BY <2>1 DEF StealIsReal
  <2> QED
    BY <1>1, <2>2 DEF CpuInv
<1>8. BalloonInv
  BY <1>1, <1>3 DEF BalloonInv, BalloonIsReal
<1> QED
  BY <1>4, <1>5, <1>6, <1>7, <1>8 DEF CountersInv

\* Every step of the kernel and of the tools keeps the invariant.
LEMMA CountersInvStep == CountersInv /\ [Next]_vars => CountersInv'
<1> SUFFICES ASSUME CountersInv, [Next]_vars PROVE CountersInv'
  OBVIOUS
<1>1. CASE Kernel
  BY <1>1, KernelStep
<1>2. CASE NetnsInspector /\ UNCHANGED <<tool, kernel>>
  <2>1. NetRest
    BY <1>2 DEF NetnsInspector, NetRest
  <2> QED
    BY <1>2, <2>1, OpenNetDevStep, ReadLineStep, PrintStep DEF NetnsInspector
<1>3. CASE VirtStatus /\ UNCHANGED <<tool, kernel>>
  <2>1. VirtRest
    BY <1>3 DEF VirtStatus, VirtRest
  <2> QED
    BY <1>3, <2>1, DetectHypervisorStep, FirstSampleStep, SecondSampleStep, ReadBalloonStep,
       ReadTotalStep DEF VirtStatus
<1>4. CASE UNCHANGED vars
  <2>1. UNCHANGED <<tool, pc, dev, cpu, mem, mems, prev, curr, todo, rows, last, s1, s2,
                   held, report>>
    BY <1>4 DEF vars, kernel, net, virt
  <2>2. TypeOK' /\ Control' /\ NetInv'
    BY <2>1 DEF CountersInv, TypeOK, Control, NetInv, RateIsTraffic
  <2>3. CpuInv' /\ BalloonInv'
    BY <2>1 DEF CountersInv, CpuInv, StealIsReal, BalloonInv, BalloonIsReal
  <2> QED
    BY <2>2, <2>3 DEF CountersInv
<1> QED
  BY <1>1, <1>2, <1>3, <1>4 DEF Next, Tool

(***************************************************************************)
(* The invariant of the readers of counters.                               *)
(***************************************************************************)
THEOREM CountersInvariant == Spec => []CountersInv
  BY CountersInit, CountersInvStep, PTL DEF Spec

(***************************************************************************)
(* The samples are of interfaces of the namespace, every rate fits the     *)
(* counter, and the indicators are those of Print.                         *)
(***************************************************************************)
THEOREM CountersTypeCorrect == Spec => []TypeOK
<1>1. CountersInv => TypeOK
  BY DEF CountersInv
<1> QED
  BY <1>1, CountersInvariant, PTL

(***************************************************************************)
(* A rate that --watch prints for a device it saw twice is what the device *)
(* received in between, for counters of any width that wrap at any point.  *)
(***************************************************************************)
THEOREM WatchRateIsTraffic == Spec => []RateIsTraffic
<1>1. CountersInv => RateIsTraffic
  BY DEF CountersInv, NetInv
<1> QED
  BY <1>1, CountersInvariant, PTL

(***************************************************************************)
(* The steal indicator of --virt and vcpu-inspector is right whenever the  *)
(* second sample was read, also with an iowait that decreases and a total  *)
(* that falls behind.                                                      *)
(***************************************************************************)
THEOREM VirtStealIsReal == Spec => []StealIsReal
<1>1. CountersInv => StealIsReal
  BY DEF CountersInv, CpuInv
<1> QED
  BY <1>1, CountersInvariant, PTL

(***************************************************************************)
(* A CRITICAL balloon was really held, although balloon and total are read *)
(* in two passes over a changing /proc/meminfo.                            *)
(***************************************************************************)
THEOREM VirtBalloonIsReal == Spec => []BalloonIsReal
<1>1. CountersInv => BalloonIsReal
  BY DEF CountersInv, BalloonInv
<1> QED
  BY <1>1, CountersInvariant, PTL

-----------------------------------------------------------------------------
(***************************************************************************)
(* scanKmsg of node-health-reader, in the module the run gives as Kmsg.    *)
(***************************************************************************)
KmsgInv ==
    /\ log \in Seq(Kmsg!Record) /\ oldest \in 1..Len(log) + 1
    /\ first \in Nat \ {0} /\ seq \in first..Len(log) + 1
    /\ events \in Seq(Nat) /\ Len(events) <= MaxEvents
    /\ scan = "open" => events = <<>>
    /\ KmsgComplete

\* scanKmsg starts at the oldest record of the log, with no hits.
LEMMA KmsgInit == Kmsg!Init => KmsgInv
<1> SUFFICES ASSUME Kmsg!Init PROVE KmsgInv
  OBVIOUS
<1>1. /\ oldest = 1 /\ scan = "open" /\ first = 1 /\ seq = 1 /\ events = <<>>
  BY DEF Kmsg!Init, Kmsg!Start
<1>2. log \in Seq(Kmsg!Record) /\ Len(log) \in Nat
  <2>1. PICK n \in 0..1 : log \in [1..n -> Kmsg!Record]
    BY DEF Kmsg!Init
  <2>2. n \in Nat
    OBVIOUS
  <2> QED
    BY <2>1, <2>2
<1>3. /\ events \in Seq(Nat) /\ DOMAIN events = {} /\ Len(events) = 0
  BY <1>1
<1>4. KmsgComplete
  <2>1. first..seq - 1 = {}
    BY <1>1
  <2> QED
    BY <1>1, <1>3, <2>1 DEF KmsgComplete, Kmsg!KmsgComplete
<1> QED
  BY <1>1, <1>2, <1>3, <1>4, MaxEventsAssumption DEF KmsgInv

\* The kernel adds a record at the end: what has been read stays where it was.
LEMMA PrintkStep ==
  ASSUME KmsgInv, Kmsg!Printk
  PROVE  KmsgInv'
<1>1. UNCHANGED <<scan, first, seq, events, lost>> /\ oldest' \in {oldest, oldest + 1}
  BY DEF Kmsg!Printk, Kmsg!reader
<1>2. PICK r \in Kmsg!Record : log' = Append(log, r)
  BY DEF Kmsg!Printk
<1>3. /\ log \in Seq(Kmsg!Record) /\ oldest \in 1..Len(log) + 1
      /\ first \in Nat \ {0} /\ seq \in first..Len(log) + 1 /\ Len(log) \in Nat
  BY DEF KmsgInv
<1>4. /\ log' \in Seq(Kmsg!Record) /\ Len(log') = Len(log) + 1
      /\ \A i \in 1..Len(log) : log'[i] = log[i]
  BY <1>2, <1>3
<1>5. oldest' \in 1..Len(log') + 1 /\ seq' \in first'..Len(log') + 1
  BY <1>1, <1>3, <1>4
<1>6. KmsgComplete'
  <2>1. \A i \in first..seq - 1 : log'[i] = log[i]
    BY <1>3, <1>4
  <2> QED
    BY <1>1, <2>1 DEF KmsgInv, KmsgComplete, Kmsg!KmsgComplete
<1> QED
  BY <1>1, <1>4, <1>5, <1>6 DEF KmsgInv

\* The position is that of the oldest record in the ring.
LEMMA OpenKmsgStep ==
  ASSUME KmsgInv, Kmsg!OpenKmsg, UNCHANGED <<log, oldest>>
  PROVE  KmsgInv'
<1>1. /\ scan = "open" /\ events = <<>> /\ UNCHANGED <<log, oldest, events>>
      /\ \/ scan' = "read" /\ first' = oldest /\ seq' = oldest
         \/ scan' = "error" /\ UNCHANGED <<first, seq>>
  BY DEF Kmsg!OpenKmsg, KmsgInv
<1>2. /\ log \in Seq(Kmsg!Record) /\ oldest \in 1..Len(log) + 1 /\ Len(log) \in Nat
      /\ first \in Nat \ {0} /\ seq \in first..Len(log) + 1
  BY DEF KmsgInv
<1>3. first' \in Nat \ {0} /\ seq' \in first'..Len(log) + 1 /\ scan' \in {"read", "error"}
  BY <1>1, <1>2
<1>4. DOMAIN events = {} /\ Len(events) = 0
  BY <1>1
<1>5. KmsgComplete'
  <2>1. CASE scan' = "read" /\ first' = oldest /\ seq' = oldest
    <3>1. first'..seq' - 1 = {}
      BY <1>2, <2>1
    <3> QED
      BY <1>1, <1>3, <1>4, <3>1 DEF KmsgComplete, Kmsg!KmsgComplete
  <2>2. CASE scan' = "error" /\ UNCHANGED <<first, seq>>
    BY <1>1, <2>2 DEF KmsgInv, KmsgComplete, Kmsg!KmsgComplete
  <2> QED
    BY <1>1, <2>1, <2>2
<1> QED
  BY <1>1, <1>3, <1>5 DEF KmsgInv

\* A record read is the next one, and it is kept if it is a hit.
LEMMA ScanRecordStep ==
  ASSUME KmsgInv, Kmsg!ScanRecord, UNCHANGED <<log, oldest>>
  PROVE  KmsgInv'
<1>1. /\ scan = "read" /\ seq \in oldest..Len(log) /\ seq' = seq + 1
      /\ UNCHANGED <<log, oldest, first, lost>>
  BY DEF Kmsg!ScanRecord
<1>2. /\ log \in Seq(Kmsg!Record) /\ oldest \in 1..Len(log) + 1 /\ Len(log) \in Nat
      /\ first \in Nat \ {0} /\ seq \in first..Len(log) + 1
      /\ events \in Seq(Nat) /\ Len(events) <= MaxEvents /\ Len(events) \in Nat
      /\ DOMAIN events = 1..Len(events)
  BY DEF KmsgInv
<1>3. seq' \in first..Len(log) + 1 /\ seq \in Nat
  BY <1>1, <1>2
<1>4. \A i \in first..seq' - 1 : i \in first..seq - 1 \/ i = seq
  BY <1>1, <1>2
<1>5. \A i \in first..seq - 1 : i < seq /\ i \in first..seq' - 1 /\ i \in Nat
  BY <1>1, <1>2
<1> DEFINE Hit(i) == log[i].hit
<1>6. /\ \A k \in DOMAIN events : events[k] \in first..seq - 1 /\ Hit(events[k])
      /\ \A k, l \in DOMAIN events : k < l => events[k] < events[l]
      /\ \A i \in first..seq - 1 : Hit(i) =>
            \/ \E k \in DOMAIN events : events[k] = i
            \/ Len(events) = MaxEvents /\ \A k \in DOMAIN events : events[k] < i
  BY DEF KmsgInv, KmsgComplete, Kmsg!KmsgComplete
<1>7. CASE Len(events) = MaxEvents
  <2>1. scan' = "done" /\ events' = events
    BY <1>7 DEF Kmsg!ScanRecord, Kmsg!Full
  <2>2. KmsgComplete'
    <3>1. \A k \in DOMAIN events : events[k] \in first..seq' - 1 /\ Hit(events[k])
      BY <1>5, <1>6
    <3>2. \A k \in DOMAIN events : events[k] < seq
      BY <1>5, <1>6
    <3>3. \A i \in first..seq' - 1 : Hit(i) =>
            \/ \E k \in DOMAIN events : events[k] = i
            \/ \A k \in DOMAIN events : events[k] < i
      BY <1>4, <1>6, <3>2
    <3> QED
      BY <1>1, <1>6, <1>7, <2>1, <3>1, <3>3 DEF KmsgComplete, Kmsg!KmsgComplete
  <2> QED
    BY <1>1, <1>2, <1>3, <2>1, <2>2 DEF KmsgInv
<1>8. CASE Len(events) # MaxEvents /\ ~Hit(seq)
  <2>1. scan' = scan /\ events' = events
    BY <1>8 DEF Kmsg!ScanRecord, Kmsg!Full
  <2>2. KmsgComplete'
    <3>1. \A k \in DOMAIN events : events[k] \in first..seq' - 1 /\ Hit(events[k])
      BY <1>5, <1>6
    <3>2. \A i \in first..seq' - 1 : Hit(i) => \E k \in DOMAIN events : events[k] = i
      BY <1>4, <1>6, <1>8
    <3> QED
      BY <1>1, <1>6, <2>1, <3>1, <3>2 DEF KmsgComplete, Kmsg!KmsgComplete
  <2> QED
    BY <1>1, <1>2, <1>3, <2>1, <2>2 DEF KmsgInv
<1>9. CASE Len(events) # MaxEvents /\ Hit(seq)
  <2>1. scan' = scan /\ events' = Append(events, seq)
    BY <1>9 DEF Kmsg!ScanRecord, Kmsg!Full
  <2> DEFINE n == Len(events)
  <2>2. /\ events' \in Seq(Nat) /\ Len(events') = n + 1 /\ DOMAIN events' = 1..n + 1
        /\ events'[n + 1] = seq /\ \A k \in 1..n : events'[k] = events[k]
    BY <1>2, <1>3, <2>1
  <2>3. Len(events') <= MaxEvents
    <3>1. n \in Nat /\ n <= MaxEvents /\ n # MaxEvents
      BY <1>2, <1>9
    <3> QED
      BY <2>2, <3>1, MaxEventsAssumption
  <2>4. KmsgComplete'
    <3>1. \A k \in 1..n + 1 : k \in 1..n \/ k = n + 1
      BY <1>2
    <3>2. \A k \in 1..n + 1 : events'[k] \in first..seq' - 1 /\ Hit(events'[k])
      <4>1. seq \in first..seq' - 1
        BY <1>1, <1>2
      <4> QED
        BY <1>2, <1>5, <1>6, <1>9, <2>2, <3>1, <4>1
    <3>3. ASSUME NEW k \in 1..n + 1, NEW l \in 1..n + 1, k < l
          PROVE  events'[k] < events'[l]
      <4>1. k \in 1..n /\ events'[k] = events[k]
        <5>1. n \in Nat /\ k < n + 1
          BY <1>2, <3>3
        <5> QED
          BY <2>2, <5>1
      <4>2. CASE l = n + 1
        BY <1>2, <1>5, <1>6, <2>2, <4>1, <4>2
      <4>3. CASE l # n + 1
        BY <1>2, <1>6, <2>2, <3>1, <3>3, <4>1, <4>3
      <4> QED
        BY <4>2, <4>3
    <3>4. ASSUME NEW i \in first..seq' - 1, Hit(i)
          PROVE  \E k \in 1..n + 1 : events'[k] = i
      <4>1. CASE i = seq
        <5>1. n + 1 \in 1..n + 1 /\ events'[n + 1] = i
          BY <1>2, <2>2, <4>1
        <5> QED
          BY <5>1
      <4>2. CASE i # seq
        <5>1. PICK k \in 1..n : events[k] = i
          BY <1>2, <1>4, <1>6, <1>9, <3>4, <4>2
        <5>2. k \in 1..n + 1 /\ events'[k] = i
          BY <1>2, <2>2, <5>1
        <5> QED
          BY <5>2
      <4> QED
        BY <4>1, <4>2
    <3> QED
      BY <1>1, <2>1, <2>2, <3>2, <3>3, <3>4 DEF KmsgComplete, Kmsg!KmsgComplete
  <2> QED
    BY <1>1, <1>2, <1>3, <2>1, <2>2, <2>3, <2>4 DEF KmsgInv
<1> QED
  BY <1>7, <1>8, <1>9

\* A dictionary line adds nothing, and an overrun ends the scan.
LEMMA ScanOtherStep ==
  ASSUME KmsgInv, Kmsg!ScanDictionary \/ Kmsg!ScanOverrun, UNCHANGED <<log, oldest>>
  PROVE  KmsgInv'
<1>1. scan = "read" /\ UNCHANGED <<log, oldest, first, events>>
  BY DEF Kmsg!ScanDictionary, Kmsg!ScanOverrun
<1>2. scan' \in {"read", "done"} /\ (scan' = "done" => lost' \/ Len(events) = MaxEvents)
      /\ seq' = seq
  BY <1>1 DEF Kmsg!ScanDictionary, Kmsg!ScanOverrun, Kmsg!Full
<1>3. KmsgComplete'
  BY <1>1, <1>2 DEF KmsgInv, KmsgComplete, Kmsg!KmsgComplete
<1> QED
  BY <1>1, <1>2, <1>3 DEF KmsgInv

\* Every step of the log and of the scan keeps the invariant.
LEMMA KmsgInvStep == KmsgInv /\ [Kmsg!Next]_(Kmsg!vars) => KmsgInv'
<1> SUFFICES ASSUME KmsgInv, [Kmsg!Next]_(Kmsg!vars) PROVE KmsgInv'
  OBVIOUS
<1>1. CASE Kmsg!Printk
  BY <1>1, PrintkStep
<1>2. CASE Kmsg!scanKmsg
  BY <1>2, OpenKmsgStep, ScanRecordStep, ScanOtherStep DEF Kmsg!scanKmsg
<1>3. CASE UNCHANGED Kmsg!vars
  BY <1>3 DEF Kmsg!vars, Kmsg!reader, KmsgInv, KmsgComplete, Kmsg!KmsgComplete
<1> QED
  BY <1>1, <1>2, <1>3 DEF Kmsg!Next

(***************************************************************************)
(* scanKmsg gives the hits from the oldest record on, in their order, and  *)
(* none is left out before the last it gives, for a ring of any size, a    *)
(* log of any length and any limit; it ends early only when overtaken.     *)
(***************************************************************************)
THEOREM KmsgScanComplete == Kmsg!Spec => []KmsgComplete
<1>1. KmsgInv => KmsgComplete
  BY DEF KmsgInv
<1> QED
  BY <1>1, KmsgInit, KmsgInvStep, PTL DEF Kmsg!Spec
=============================================================================
