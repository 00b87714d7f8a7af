------------------------------- MODULE BpfDemo -------------------------------
(***************************************************************************)
(* src/07-ebpf/exercises/bpf-syscall-demo/bpf_syscall_demo.c: a program    *)
(* that loads 14 instructions of BPF bytecode as the filter of a UDP       *)
(* socket, sends the socket one datagram and reads the filter's counter.   *)
(* The kernel runs the filter on whichever CPU a datagram comes in, and    *)
(* other programs may send to the port as well. CPUs, sockets and the      *)
(* instruction set are external.                                           *)
(***************************************************************************)
EXTENDS Integers, Sequences, FiniteSetsExt

CONSTANTS
    Cpus,        \* CPUs that take in datagrams
    MaxForeign   \* bound on the datagrams other programs send

VARIABLES
    pc,        \* the step of main()
    sock,      \* the receiving socket: "none", "bound", "filtered"
    own,       \* the demo's datagram: "unsent", "flying", "arrived"
    foreign,   \* datagrams other programs have sent
    queue,     \* the socket's receive queue
    map,       \* the array map
    cpu,       \* the run of the filter on each CPU
    got,       \* what recv() returned
    seen,      \* what the two lookups returned
    filtered,  \* history: runs of the filter that have ended
    overlap    \* history: two runs of the filter were under way at once

main == <<pc, got, seen>>
wire == <<sock, own, foreign, queue>>
history == <<filtered, overlap>>
vars == <<main, wire, map, cpu, history>>

MaxEntries == 8
Payload == 8    \* strlen("bpf-demo")
Header == 8     \* of UDP

-----------------------------------------------------------------------------
\* The instructions. A register holds <<"num", n>> or a pointer: into the stack,
\* relative to its top, or at a value of the map.
Op(o, d, s, n) == [op |-> o, dst |-> d, src |-> s, imm |-> n]

Mov(d, s) == Op("mov", d, s, 0)
MovImm(d, n) == Op("imm", d, 0, n)
AddImm(d, n) == Op("add", d, 0, n)
Load(d, s) == Op("load", d, s, 0)
Store(d, s) == Op("store", d, s, 0)
StWord(d, off, n) == Op("word", d, off, n)
JeqZero(d, off) == Op("jeq", d, 0, off)
LdMap(d) == Op("map", d, 0, 0)
LdMapHigh == Op("filler", 0, 0, 0)    \* the second half of the wide instruction
Lookup == Op("lookup", 0, 0, 0)
Exit == Op("exit", 0, 0, 0)

Filter(key, count, verdict) ==
    <<Mov(6, 1), LdMap(1), LdMapHigh,
      Mov(2, 10), AddImm(2, -4), StWord(10, -4, key), Lookup, JeqZero(0, 5),
      Mov(1, 0), Load(2, 1), AddImm(2, count), Store(1, 2), MovImm(0, verdict), Exit>>

\* Wrong variants of Prog: another step, another verdict.
ProgByTwo == Filter(0, 2, 1)
ProgDrops == Filter(0, 1, 0)

Prog == Filter(0, 1, 1)

Unset == <<"unset", 0>>
Regs == {0, 1, 2, 6, 10}
NoPacket == [from |-> "nobody", len |-> 0]
Idle == [pkt |-> NoPacket, at |-> 0, reg |-> [r \in Regs |-> Unset], stack |-> Unset]

Begin(p) ==
    [Idle EXCEPT !.pkt = p, !.reg[1] = <<"ctx", 0>>, !.reg[10] = <<"stack", 0>>]

Busy == {c \in Cpus : cpu[c] # Idle}
Insn(r) == Prog[r.at + 1]

\* Registers and stack after an instruction that touches nothing else. A call
\* leaves r1 to r5 unreadable; an array lookup fails only for a key out of range.
After(r, i) ==
    CASE i.op = "mov"    -> [r EXCEPT !.reg[i.dst] = r.reg[i.src]]
      [] i.op = "imm"    -> [r EXCEPT !.reg[i.dst] = <<"num", i.imm>>]
      [] i.op = "add"    -> [r EXCEPT !.reg[i.dst][2] = @ + i.imm]
      [] i.op = "map"    -> [r EXCEPT !.reg[i.dst] = <<"map", 0>>]
      [] i.op = "word"   -> [r EXCEPT !.stack = <<r.reg[i.dst][2] + i.src, i.imm>>]
      [] i.op = "lookup" -> [r EXCEPT !.reg = [@ EXCEPT ![1] = Unset, ![2] = Unset,
                             ![0] = IF r.stack[1] = r.reg[2][2] /\ r.stack[2] < MaxEntries
                                    THEN <<"value", r.stack[2]>> ELSE <<"num", 0>>]]
      [] OTHER           -> r

Jump(r, i) ==
    CASE i.op = "map" -> 2
      [] i.op = "jeq" /\ r.reg[i.dst] = <<"num", 0>> -> i.imm + 1
      [] OTHER -> 1

Step(c, r) == cpu' = [cpu EXCEPT ![c] = [r EXCEPT !.at = @ + Jump(cpu[c], Insn(cpu[c]))]]

RunLocal(c) ==
    /\ c \in Busy
    /\ Insn(cpu[c]).op \notin {"load", "store", "exit"}
    /\ Step(c, After(cpu[c], Insn(cpu[c])))
    /\ UNCHANGED <<main, wire, map, history>>

RunLoad(c) ==
    /\ c \in Busy
    /\ LET i == Insn(cpu[c])
       IN  /\ i.op = "load"
           /\ Step(c, [cpu[c] EXCEPT !.reg[i.dst] = <<"num", map[cpu[c].reg[i.src][2]]>>])
    /\ UNCHANGED <<main, wire, map, history>>

RunStore(c) ==
    /\ c \in Busy
    /\ LET i == Insn(cpu[c])
       IN  /\ i.op = "store"
           /\ map' = [map EXCEPT ![cpu[c].reg[i.dst][2]] = cpu[c].reg[i.src][2]]
    /\ Step(c, cpu[c])
    /\ UNCHANGED <<main, wire, history>>

\* The number in r0 is how many bytes to keep of the datagram, of which the header
\* is never cut; 0 drops it.
Kept(p, n) == [p EXCEPT !.len = Min({@, Max({n, Header}) - Header})]

RunExit(c) ==
    /\ c \in Busy
    /\ Insn(cpu[c]).op = "exit"
    /\ LET verdict == cpu[c].reg[0][2]
       IN  queue' = IF verdict = 0 \/ sock = "none" THEN queue
                    ELSE Append(queue, Kept(cpu[c].pkt, verdict))
    /\ cpu' = [cpu EXCEPT ![c] = Idle]
    /\ filtered' = filtered + 1
    /\ UNCHANGED <<main, sock, own, foreign, map, overlap>>

\* A datagram reaches the socket on CPU c: a bound socket with no filter takes it as
\* it is.
Arrive(c, p) ==
    /\ c \notin Busy
    /\ \/ /\ sock = "bound"
          /\ queue' = Append(queue, p)
          /\ UNCHANGED <<cpu, overlap>>
       \/ /\ sock = "filtered"
          /\ cpu' = [cpu EXCEPT ![c] = Begin(p)]
          /\ overlap' = (overlap \/ Busy # {})
          /\ UNCHANGED queue

ArriveOwn(c) ==
    /\ own = "flying" /\ own' = "arrived"
    /\ Arrive(c, [from |-> "own", len |-> Payload])
    /\ UNCHANGED <<main, sock, foreign, map, filtered>>

ArriveForeign(c) ==
    /\ foreign < MaxForeign /\ foreign' = foreign + 1
    /\ Arrive(c, [from |-> "foreign", len |-> Payload])
    /\ UNCHANGED <<main, sock, own, map, filtered>>

Kernel(c) == RunLocal(c) \/ RunLoad(c) \/ RunStore(c) \/ RunExit(c) \/ ArriveOwn(c)

-----------------------------------------------------------------------------
Init ==
    /\ pc = "create" /\ sock = "none"
    /\ own = "unsent" /\ foreign = 0 /\ queue = <<>>
    /\ map = [k \in 0..MaxEntries - 1 |-> 0]
    /\ cpu = [c \in Cpus |-> Idle]
    /\ got = NoPacket /\ seen = [k \in {0, 1} |-> 0]
    /\ filtered = 0 /\ overlap = FALSE

\* The program is over, or was never started.
Off ==
    /\ pc = "failed" /\ sock = "none"
    /\ own = "unsent" /\ foreign = 0 /\ queue = <<>>
    /\ map = [k \in 0..MaxEntries - 1 |-> 0]
    /\ cpu = [c \in Cpus |-> Idle]
    /\ got = NoPacket /\ seen = [k \in {0, 1} |-> 0]
    /\ filtered = 0 /\ overlap = FALSE

\* exit(1): the kernel closes the sockets and frees what they hold.
Fails ==
    /\ pc' = "failed"
    /\ sock' = "none" /\ queue' = <<>>
    /\ UNCHANGED <<own, got, seen>>

\* create_map and load_prog, which need CAP_BPF.
CreateMap ==
    /\ pc = "create"
    /\ Fails \/ (pc' = "bind" /\ UNCHANGED <<sock, queue, own, got, seen>>)
    /\ UNCHANGED <<foreign, map, cpu, history>>

\* setup_sockets: the port takes datagrams from bind() on, the filter comes later.
Bind ==
    /\ pc = "bind"
    /\ Fails \/ (pc' = "attach" /\ sock' = "bound" /\ UNCHANGED <<queue, own, got, seen>>)
    /\ UNCHANGED <<foreign, map, cpu, history>>

Attach ==
    /\ pc = "attach"
    /\ Fails \/ (pc' = "send" /\ sock' = "filtered" /\ UNCHANGED <<queue, own, got, seen>>)
    /\ UNCHANGED <<foreign, map, cpu, history>>

\* trigger_filter: sendto() may return before the datagram has come in.
Send ==
    /\ pc = "send"
    /\ Fails \/ (pc' = "recv" /\ own' = "flying" /\ UNCHANGED <<sock, queue, got, seen>>)
    /\ UNCHANGED <<foreign, map, cpu, history>>

\* recv() takes the first datagram, whoever sent it; it blocks until there is one.
Recv ==
    /\ pc = "recv"
    /\ queue # <<>>
    /\ got' = Head(queue) /\ queue' = Tail(queue)
    /\ pc' = "update"
    /\ UNCHANGED <<seen, sock, own, foreign, map, cpu, history>>

\* recv() may also fail, with datagrams there or without: exit(1).
RecvFails ==
    /\ pc = "recv"
    /\ Fails
    /\ UNCHANGED <<foreign, map, cpu, history>>

\* map_update and map_lookup may fail as any bpf(2) command may.
MapUpdate ==
    /\ pc = "update"
    /\ \/ Fails /\ UNCHANGED map
       \/ /\ map' = [map EXCEPT ![1] = 42]
          /\ pc' = "lookup0"
          /\ UNCHANGED <<got, seen, sock, own, queue>>
    /\ UNCHANGED <<foreign, cpu, history>>

LookupCounter ==
    /\ pc = "lookup0"
    /\ \/ Fails
       \/ /\ seen' = [seen EXCEPT ![0] = map[0]]
          /\ pc' = "lookup1"
          /\ UNCHANGED <<got, sock, own, queue>>
    /\ UNCHANGED <<foreign, map, cpu, history>>

\* The last lookup; then the sockets are closed.
LookupUser ==
    /\ pc = "lookup1"
    /\ \/ Fails
       \/ /\ seen' = [seen EXCEPT ![1] = map[1]]
          /\ pc' = "done"
          /\ sock' = "none" /\ queue' = <<>>
          /\ UNCHANGED <<got, own>>
    /\ UNCHANGED <<foreign, map, cpu, history>>

Main ==
    \/ CreateMap \/ Bind \/ Attach \/ Send \/ Recv
    \/ MapUpdate \/ LookupCounter \/ LookupUser

Next == Main \/ RecvFails \/ \E c \in Cpus : Kernel(c) \/ ArriveForeign(c)

\* The program runs on, and a CPU that has begun a datagram ends it; a datagram
\* sent over the loopback interface arrives. That recv() fails is not counted upon.
Fairness == WF_vars(Main) /\ WF_vars(\E c \in Cpus : Kernel(c))

Spec == Init /\ [][Next]_vars /\ Fairness

-----------------------------------------------------------------------------
Packets == [from : {"own", "foreign"}, len : 0..Payload]

TypeOK ==
    /\ pc \in {"create", "bind", "attach", "send", "recv", "update", "lookup0", "lookup1",
               "done", "failed"}
    /\ sock \in {"none", "bound", "filtered"}
    /\ own \in {"unsent", "flying", "arrived"}
    /\ foreign \in 0..MaxForeign
    /\ queue \in Seq(Packets) /\ got \in Packets \cup {NoPacket}
    /\ map \in [0..MaxEntries - 1 -> Nat]
    /\ \A c \in Cpus : cpu[c].at \in 0..Len(Prog) - 1 /\ DOMAIN cpu[c].reg = Regs
    /\ seen \in [{0, 1} -> Nat]

(***************************************************************************)
(* What the counter is worth: between runs of the filter it is the number  *)
(* of datagrams filtered if no two of them were filtered at the same time, *)
(* and otherwise something between 1 and that number, since the filter     *)
(* loads, adds and stores in three instructions. With nobody else on the   *)
(* port the run is the one README.md shows, lookups of 1 and 42; with      *)
(* others map[1] still holds 42: the filter never leaves its own slot.     *)
(***************************************************************************)
CounterBounds ==
    /\ Busy = {} =>
        /\ map[0] <= filtered
        /\ filtered > 0 => map[0] > 0
        /\ ~overlap => map[0] = filtered
    /\ pc = "done" =>
        /\ seen[1] = 42
        /\ foreign = 0 => got.from = "own" /\ seen[0] = 1

(***************************************************************************)
(* recv() does not block for ever: the filter lets the demo's own datagram *)
(* through, on whichever CPU it runs.                                      *)
(***************************************************************************)
Terminates == <>(pc \in {"done", "failed"})

(***************************************************************************)
(* README.md:63: the counter in map[0] reflects exactly how many packets   *)
(* passed through the filter.                                              *)
(***************************************************************************)
CounterIsExact == Busy = {} => map[0] = filtered

(***************************************************************************)
(* README.md:45: what recv() returns of the demo's datagram is all of it,  *)
(* "received 8 bytes". The filter's verdict says how many bytes to keep.   *)
(***************************************************************************)
PayloadArrives == got.from = "own" => got.len = Payload
=============================================================================
