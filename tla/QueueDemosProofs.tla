---------------------------- MODULE QueueDemosProofs ----------------------------
(***************************************************************************)
(* Proofs about the demos that wait for what the kernel queues for them.   *)
(*                                                                         *)
(* tcp_echo_demo loses, doubles and reorders no byte, whatever the reads   *)
(* return, for every number of messages and every length of one: a         *)
(* sequence is described by where its bytes stand in the stream of all     *)
(* messages, so that a step moves positions and no sequence is compared.   *)
(*                                                                         *)
(* The counter of bpf_syscall_demo is the number of runs of the filter     *)
(* that have stored it, for any number of CPUs, as long as two of them     *)
(* never ran at once.                                                      *)
(*                                                                         *)
(* inotify_demo prints every event once and in order: what the kernel      *)
(* queued is what was printed and then what waits to be read.              *)
(***************************************************************************)
EXTENDS MCQueueDemos, SequenceTheorems, FiniteSetTheorems, TLAPS

\* The message that byte b of the stream is from.
MsgOf(b) == ((b - 1) \div MsgLen) + 1

\* The bytes of s are those of the stream from position n + 1 on.
Carries(s, n) == \A k \in 1..Len(s) : s[k] = MsgOf(n + k)

\* How many messages the client has written.
SentMsgs == IF cpc = "recv" THEN i ELSE i - 1

\* The connection works in both directions.
Working == status = "running" /\ cEnd = "open"

\* What is bound to the places of the two programs.
Control ==
    /\ cpc \in {"yield", "connect"} => i = 1
    /\ cpc \in {"send", "recv"} => i <= NumMsgs
    /\ cpc \in {"close", "wait", "done"} => i = NumMsgs + 1
    /\ cEnd = "open" <=> cpc \notin {"wait", "done", "dead"}
    /\ spc = "over" <=> status # "running"
    /\ status = "running" => sEnd = "open"
    /\ status = "zero" => cEnd # "open"
    /\ spc \in {"accept", "read"} => sbuf = <<>>
    /\ cpc = "done" => status # "running"

\* Where the ways of the bytes begin and end.
OnTheWay ==
    /\ Carries(echoed, 0)
    /\ Carries(s2c, Len(echoed))
    /\ Len(echoed) + Len(s2c) <= NumMsgs * MsgLen
    /\ Working =>
        /\ Carries(sbuf, Len(echoed) + Len(s2c))
        /\ Carries(c2s, Len(echoed) + Len(s2c) + Len(sbuf))
        /\ Len(echoed) + Len(s2c) + Len(sbuf) + Len(c2s) = SentMsgs * MsgLen

\* With whole reads one place holds all that is under way.
Paced ==
    whole =>
        /\ Working =>
            /\ cpc # "recv" => s2c = <<>> /\ sbuf = <<>> /\ c2s = <<>>
            /\ \/ s2c = <<>> /\ sbuf = <<>>
               \/ s2c = <<>> /\ c2s = <<>>
               \/ sbuf = <<>> /\ c2s = <<>>
        /\ cpc \in {"wait", "done"} /\ status # "failure" =>
            Len(echoed) = NumMsgs * MsgLen

TypeInv == TypeOK /\ Control

-----------------------------------------------------------------------------
(***************************************************************************)
(* Streams and their pieces.                                               *)
(***************************************************************************)
\* Byte b of message m is from message m.
LEMMA MsgOfByte ==
  ASSUME NEW m \in Nat \ {0}, NEW b \in 1..MsgLen
  PROVE  MsgOf((m - 1) * MsgLen + b) = m
<1> DEFINE x == (m - 1) * MsgLen
<1>1. x \in Int /\ MsgLen \in Nat \ {0}
  BY MsgLenAssumption
<1>2. (x + b - 1) \div MsgLen = m - 1
  <2>1. b - 1 \in 0..MsgLen - 1
    BY <1>1
  <2>2. MsgLen * (m - 1) <= x + b - 1 /\ x + b - 1 < MsgLen * (m - 1) + MsgLen
    BY <1>1, <2>1
  <2> QED
    BY <1>1, <2>2
<1> QED
  BY <1>1, <1>2 DEF MsgOf

\* A read takes a first piece and leaves the rest.
LEMMA CarriesCut ==
  ASSUME NEW s \in Seq(Bytes), NEW p \in Nat, NEW n \in 0..Len(s)
  PROVE  /\ SubSeq(s, 1, n) \in Seq(Bytes) /\ Len(SubSeq(s, 1, n)) = n
         /\ SubSeq(s, n + 1, Len(s)) \in Seq(Bytes)
         /\ Len(SubSeq(s, n + 1, Len(s))) = Len(s) - n
         /\ Carries(s, p) =>
              Carries(SubSeq(s, 1, n), p) /\ Carries(SubSeq(s, n + 1, Len(s)), p + n)
<1>1. /\ SubSeq(s, 1, n) \in Seq(Bytes) /\ Len(SubSeq(s, 1, n)) = n
      /\ \A k \in 1..n : SubSeq(s, 1, n)[k] = s[k]
  OBVIOUS
<1>2. /\ SubSeq(s, n + 1, Len(s)) \in Seq(Bytes)
      /\ Len(SubSeq(s, n + 1, Len(s))) = Len(s) - n
      /\ \A k \in 1..Len(s) - n : SubSeq(s, n + 1, Len(s))[k] = s[n + k]
  OBVIOUS
<1>3. ASSUME Carries(s, p)
      PROVE  Carries(SubSeq(s, 1, n), p) /\ Carries(SubSeq(s, n + 1, Len(s)), p + n)
  <2>1. \A k \in 1..n : k \in 1..Len(s) /\ s[k] = MsgOf(p + k)
    BY <1>3 DEF Carries
  <2>2. Carries(SubSeq(s, 1, n), p)
    BY <1>1, <2>1 DEF Carries
  <2>3. ASSUME NEW k \in 1..Len(s) - n
        PROVE  SubSeq(s, n + 1, Len(s))[k] = MsgOf(p + n + k)
    <3>1. n + k \in 1..Len(s) /\ p + (n + k) = p + n + k
      OBVIOUS
    <3>2. s[n + k] = MsgOf(p + (n + k))
      BY <1>3, <3>1 DEF Carries
    <3> QED
      BY <1>2, <3>1, <3>2
  <2>4. Carries(SubSeq(s, n + 1, Len(s)), p + n)
    BY <1>2, <2>3 DEF Carries
  <2> QED
    BY <2>2, <2>4
<1> QED
  BY <1>1, <1>2, <1>3

\* A write adds a piece that goes on where the bytes before it end.
LEMMA CarriesJoin ==
  ASSUME NEW s \in Seq(Bytes), NEW t \in Seq(Bytes), NEW p \in Nat
  PROVE  /\ s \o t \in Seq(Bytes) /\ Len(s \o t) = Len(s) + Len(t)
         /\ Carries(s, p) /\ Carries(t, p + Len(s)) => Carries(s \o t, p)
<1>1. /\ s \o t \in Seq(Bytes) /\ Len(s \o t) = Len(s) + Len(t)
      /\ \A k \in 1..Len(s) + Len(t) :
            (s \o t)[k] = IF k <= Len(s) THEN s[k] ELSE t[k - Len(s)]
  BY ConcatProperties
<1>2. ASSUME Carries(s, p), Carries(t, p + Len(s))
      PROVE  Carries(s \o t, p)
  <2> SUFFICES ASSUME NEW k \in 1..Len(s) + Len(t)
               PROVE  (s \o t)[k] = MsgOf(p + k)
    BY <1>1 DEF Carries
  <2>1. CASE k <= Len(s)
    BY <1>1, <1>2, <2>1 DEF Carries
  <2>2. CASE k > Len(s)
    <3>1. k - Len(s) \in 1..Len(t)
      BY <2>2
    <3>2. t[k - Len(s)] = MsgOf(p + Len(s) + (k - Len(s)))
      BY <1>2, <3>1 DEF Carries
    <3>3. p + Len(s) + (k - Len(s)) = p + k
      OBVIOUS
    <3> QED
      BY <1>1, <2>2, <3>2, <3>3
  <2> QED
    BY <2>1, <2>2
<1> QED
  BY <1>1, <1>2

\* Message m, and where it goes in the stream.
LEMMA MsgCarries ==
  ASSUME NEW m \in 1..NumMsgs
  PROVE  Msg(m) \in Seq(Bytes) /\ Len(Msg(m)) = MsgLen /\ Carries(Msg(m), (m - 1) * MsgLen)
<1>1. Msg(m) \in Seq(Bytes) /\ Len(Msg(m)) = MsgLen /\ \A k \in 1..MsgLen : Msg(m)[k] = m
  BY MsgLenAssumption, NumMsgsAssumption, IsASeq DEF Msg, Bytes
<1>2. m \in Nat \ {0}
  BY NumMsgsAssumption
<1> QED
  BY <1>1, <1>2, MsgOfByte DEF Carries

\* The first m messages are what the stream begins with.
LEMMA StreamProperties ==
  ASSUME NEW m \in 0..NumMsgs
  PROVE  /\ m * MsgLen \in Nat /\ m * MsgLen <= NumMsgs * MsgLen
         /\ Stream(m) \in Seq(Bytes) /\ Len(Stream(m)) = m * MsgLen
         /\ Carries(Stream(m), 0)
<1>1. m \in Nat /\ NumMsgs \in Nat /\ MsgLen \in Nat \ {0}
  BY NumMsgsAssumption, MsgLenAssumption
<1>2. m * MsgLen \in Nat /\ m * MsgLen <= NumMsgs * MsgLen
  BY <1>1
<1>3. ASSUME NEW b \in 1..m * MsgLen
      PROVE  MsgOf(b) \in Bytes
  <2>1. (b - 1) \div MsgLen \in Nat /\ (b - 1) \div MsgLen < m
    BY <1>1, <1>2
  <2> QED
    BY <1>1, <2>1 DEF MsgOf, Bytes
<1>4. Stream(m) = [b \in 1..m * MsgLen |-> MsgOf(b)]
  BY DEF Stream, MsgOf
<1> QED
  BY <1>2, <1>3, <1>4, IsASeq DEF Carries

-----------------------------------------------------------------------------
(***************************************************************************)
(* Types, and where the two programs can be.                               *)
(***************************************************************************)
\* The start is of the right types.
LEMMA TypeInvInit == Init => TypeInv
  BY NumMsgsAssumption DEF Init, TypeInv, TypeOK, Control, Ends, Bytes

\* A client's step is one of its calls, and leaves the server's own state alone.
LEMMA ClientStep ==
  ASSUME TypeInv, Client
  PROVE  TypeInv'
<1> USE NumMsgsAssumption, MsgLenAssumption DEF TypeInv, TypeOK, Control, Ends, Closed
<1>1. CASE Yield
  BY <1>1 DEF Client, Yield, server
<1>2. CASE Connect
  BY <1>2 DEF Client, Connect, server
<1>3. CASE Send
  <2>1. i \in 1..NumMsgs
    BY <1>3 DEF Send
  <2>2. c2s \o Msg(i) \in Seq(Bytes)
    BY <2>1, MsgCarries, CarriesJoin
  <2>3. CASE sEnd \in {"reset", "broken"}
    BY <1>3, <2>1, <2>3 DEF Client, Send, ClientDies, server
  <2>4. CASE sEnd \notin {"reset", "broken"}
    BY <1>3, <2>1, <2>2, <2>4 DEF Client, Send, Bounced, server
  <2> QED
    BY <2>3, <2>4
<1>4. CASE Recv
  <2>1. i \in 1..NumMsgs
    BY <1>4 DEF Recv
  <2>2. ASSUME NEW n \in Lengths(s2c), s2c # <<>>
        PROVE  /\ echoed \o SubSeq(s2c, 1, n) \in Seq(Bytes)
               /\ SubSeq(s2c, n + 1, Len(s2c)) \in Seq(Bytes)
    <3>1. n \in 0..Len(s2c)
      BY <2>2 DEF Lengths
    <3> QED
      BY <3>1, CarriesCut, CarriesJoin
  <2>3. CASE s2c # <<>>
    <3>1. echoed' \in Seq(Bytes) /\ s2c' \in Seq(Bytes)
      BY <1>4, <2>2, <2>3 DEF Recv
    <3>2. NextMsg /\ cpc = "recv" /\ UNCHANGED <<conn, server, whole>>
      BY <1>4, <2>3 DEF Client, Recv
    <3> QED
      BY <2>1, <3>1, <3>2 DEF NextMsg, server
  <2>4. CASE s2c = <<>> /\ sEnd # "reset"
    <3>1. NextMsg /\ cpc = "recv" /\ UNCHANGED <<echoed, s2c, conn, server, whole>>
      BY <1>4, <2>4 DEF Client, Recv
    <3> QED
      BY <2>1, <3>1 DEF NextMsg, server
  <2>5. CASE s2c = <<>> /\ sEnd = "reset"
    BY <1>4, <2>1, <2>5 DEF Client, Recv, ClientDies, server
  <2> QED
    BY <2>3, <2>4, <2>5
<1>5. CASE CloseSocket
  BY <1>5 DEF Client, CloseSocket, server
<1>6. CASE Wait
  BY <1>6 DEF Client, Wait, server
<1>7. QED
  BY <1>1, <1>2, <1>3, <1>4, <1>5, <1>6 DEF Client

\* The child's end leaves what it has read and written as it is.
LEMMA EndStep ==
  ASSUME TypeInv, NEW st \in {"zero", "failure"}, ServerEnds(st), spc # "over",
         st = "zero" => cEnd # "open", UNCHANGED <<client, whole>>
  PROVE  TypeInv'
  BY DEF TypeInv, TypeOK, Control, Ends, Closed, ServerEnds, client

\* A step of the child is one of its calls, and leaves the client's state alone.
LEMMA ServerStep ==
  ASSUME TypeInv, Server
  PROVE  TypeInv'
<1> USE NumMsgsAssumption, MsgLenAssumption DEF TypeInv, TypeOK, Control, Ends
<1>1. CASE Accept
  BY <1>1 DEF Server, Accept, client
<1>2. CASE Read
  <2>1. ASSUME NEW n \in Lengths(c2s), c2s # <<>>
        PROVE  SubSeq(c2s, 1, n) \in Seq(Bytes) /\ SubSeq(c2s, n + 1, Len(c2s)) \in Seq(Bytes)
    <3>1. n \in 0..Len(c2s)
      BY <2>1 DEF Lengths
    <3> QED
      BY <3>1, CarriesCut
  <2>2. CASE c2s # <<>>
    <3>1. sbuf' \in Seq(Bytes) /\ c2s' \in Seq(Bytes)
      BY <1>2, <2>1, <2>2 DEF Read
    <3> QED
      BY <1>2, <2>2, <3>1 DEF Server, Read, client
  <2>3. CASE c2s = <<>>
    BY <1>2, <2>3, EndStep DEF Server, Read
  <2> QED
    BY <2>2, <2>3
<1>3. CASE Write
  <2>1. s2c \o sbuf \in Seq(Bytes)
    BY CarriesJoin
  <2>2. CASE cEnd \in {"reset", "broken"}
    BY <1>3, <2>2, EndStep DEF Server, Write
  <2>3. CASE cEnd \notin {"reset", "broken"}
    <3>1. s2c' \in Seq(Bytes) /\ sbuf' = <<>>
      BY <1>3, <2>1, <2>3 DEF Write
    <3>2. /\ spc = "write" /\ spc' = "read" /\ cEnd' = Bounced(cEnd)
          /\ UNCHANGED <<status, conn, c2s, sEnd, client, whole>>
      BY <1>3, <2>3 DEF Server, Write
    <3> QED
      BY <3>1, <3>2 DEF Bounced, client
  <2> QED
    BY <2>2, <2>3
<1>4. QED
  BY <1>1, <1>2, <1>3 DEF Server

\* No step leaves the types or the bounds of the two programs' places.
LEMMA TypeInvStep == TypeInv /\ [Next]_vars => TypeInv'
<1> SUFFICES ASSUME TypeInv, [Next]_vars PROVE TypeInv'
  OBVIOUS
<1>1. CASE Crash
  BY <1>1, EndStep DEF Crash
<1>2. CASE UNCHANGED vars
  BY <1>2 DEF vars, client, server, TypeInv, TypeOK, Control
<1>3. QED
  BY <1>1, <1>2, ClientStep, ServerStep DEF Next

\* The variables of the echo programs keep their types.
THEOREM TcpTypeCorrect == Spec => []TypeOK
<1>1. TypeInv => TypeOK
  BY DEF TypeInv
<1>2. QED
  BY <1>1, TypeInvInit, TypeInvStep, PTL DEF Spec

-----------------------------------------------------------------------------
(***************************************************************************)
(* Every byte is in its place.                                             *)
(***************************************************************************)
\* The messages sent end within the stream.
LEMMA SentBound ==
  ASSUME TypeInv
  PROVE  SentMsgs \in 0..NumMsgs /\ SentMsgs * MsgLen <= NumMsgs * MsgLen
<1>1. SentMsgs \in 0..NumMsgs
  BY NumMsgsAssumption DEF TypeInv, TypeOK, Control, SentMsgs
<1> QED
  BY <1>1, StreamProperties

\* A step that moves no byte, writes no message and repairs nothing.
LEMMA NoByteMoves ==
  ASSUME TypeInv, OnTheWay, UNCHANGED <<echoed, s2c>>,
         Working' => Working /\ UNCHANGED <<sbuf, c2s>> /\ SentMsgs' = SentMsgs
  PROVE  OnTheWay'
  BY DEF OnTheWay, Carries

\* The client's end is closed: what it has not read is gone.
LEMMA ClosedClient ==
  ASSUME TypeInv, OnTheWay, UNCHANGED echoed, s2c' = <<>>, cEnd' = Closed(s2c)
  PROVE  OnTheWay'
<1>1. Len(echoed) <= NumMsgs * MsgLen
  BY NumMsgsAssumption, MsgLenAssumption DEF TypeInv, TypeOK, OnTheWay
<1>2. ~Working'
  BY DEF Working, Closed
<1> QED
  BY <1>1, <1>2 DEF OnTheWay, Carries, TypeInv, TypeOK

\* A message written goes on where those before it end.
LEMMA SendWays ==
  ASSUME TypeInv, OnTheWay, Send, UNCHANGED server
  PROVE  OnTheWay'
<1>1. CASE sEnd \in {"reset", "broken"}
  BY <1>1, ClosedClient DEF Send, ClientDies
<1>2. CASE sEnd \notin {"reset", "broken"} /\ sEnd # "open"
  <2>1. ~Working'
    BY <1>2 DEF Working, TypeInv, Control, server
  <2> QED
    BY <1>2, <2>1, NoByteMoves DEF Send
<1>3. CASE sEnd = "open"
  <2> DEFINE n == Len(echoed) + Len(s2c) + Len(sbuf)
  <2>1. /\ UNCHANGED <<echoed, s2c, sbuf, status, cEnd, i>>
        /\ c2s' = c2s \o Msg(i) /\ cpc = "send" /\ cpc' = "recv"
    BY <1>3 DEF Send, server
  <2>2. i \in 1..NumMsgs
    BY <2>1 DEF TypeInv, TypeOK, Control
  <2>3. n \in Nat /\ c2s \in Seq(Bytes) /\ Len(c2s) \in Nat
    BY DEF TypeInv, TypeOK
  <2>4. Msg(i) \in Seq(Bytes) /\ Len(Msg(i)) = MsgLen /\ Carries(Msg(i), (i - 1) * MsgLen)
    BY <2>2, MsgCarries
  <2>5. ASSUME Working
        PROVE  Carries(c2s', n) /\ n + Len(c2s') = i * MsgLen
    <3>1. Carries(c2s, n) /\ n + Len(c2s) = (i - 1) * MsgLen
      BY <2>1, <2>5 DEF OnTheWay, SentMsgs
    <3>2. Carries(c2s', n) /\ Len(c2s') = Len(c2s) + MsgLen
      BY <2>1, <2>3, <2>4, <3>1, CarriesJoin
    <3>3. (i - 1) * MsgLen + MsgLen = i * MsgLen
      BY <2>2, MsgLenAssumption, NumMsgsAssumption
    <3>4. (i - 1) * MsgLen \in Int /\ MsgLen \in Int
      BY <2>2, MsgLenAssumption, NumMsgsAssumption
    <3> HIDE DEF n
    <3> QED
      BY <2>3, <3>1, <3>2, <3>3, <3>4
  <2>6. SentMsgs' = i /\ (Working' => Working)
    BY <2>1 DEF SentMsgs, Working
  <2> QED
    BY <2>1, <2>5, <2>6 DEF OnTheWay, Carries
<1>4. QED
  BY <1>1, <1>2, <1>3

\* The client's read moves a first piece of what has come back.
LEMMA RecvWays ==
  ASSUME TypeInv, OnTheWay, Recv, UNCHANGED server
  PROVE  OnTheWay'
<1>1. CASE s2c = <<>> /\ sEnd = "reset"
  BY <1>1, ClosedClient DEF Recv, ClientDies
<1>2. CASE s2c = <<>> /\ sEnd # "reset"
  <2>1. ~Working'
    BY <1>2 DEF Recv, Working, TypeInv, Control, server
  <2> QED
    BY <1>2, <2>1, NoByteMoves DEF Recv
<1>3. CASE s2c # <<>>
  <2>1. PICK n \in Lengths(s2c) : /\ echoed' = echoed \o SubSeq(s2c, 1, n)
                                  /\ s2c' = SubSeq(s2c, n + 1, Len(s2c))
    BY <1>3 DEF Recv
  <2>2. /\ UNCHANGED <<c2s, sbuf, status, cEnd>>
        /\ cpc = "recv" /\ cpc' # "recv" /\ i' = i + 1
    BY <1>3 DEF Recv, NextMsg, server
  <2>3. n \in 0..Len(s2c) /\ echoed \in Seq(Bytes) /\ s2c \in Seq(Bytes)
        /\ Len(echoed) \in Nat /\ Len(s2c) \in Nat /\ i \in Nat
    BY <1>3, NumMsgsAssumption DEF Lengths, TypeInv, TypeOK
  <2>4. /\ Len(s2c') = Len(s2c) - n /\ Carries(s2c', Len(echoed) + n)
        /\ SubSeq(s2c, 1, n) \in Seq(Bytes) /\ Len(SubSeq(s2c, 1, n)) = n
        /\ Carries(SubSeq(s2c, 1, n), Len(echoed))
    BY <2>1, <2>3, CarriesCut DEF OnTheWay
  <2>5. Len(echoed') = Len(echoed) + n /\ Carries(echoed', 0)
    <3> DEFINE t == SubSeq(s2c, 1, n)
    <3>1. /\ Carries(echoed, 0) /\ Carries(t, 0 + Len(echoed))
          /\ t \in Seq(Bytes) /\ Len(t) = n
      BY <2>3, <2>4 DEF OnTheWay
    <3> HIDE DEF t
    <3>2. Len(echoed \o t) = Len(echoed) + n /\ Carries(echoed \o t, 0)
      BY <2>3, <3>1, CarriesJoin
    <3> QED
      BY <2>1, <3>2 DEF t
  <2>6. Carries(s2c', Len(echoed')) /\ Len(echoed') + Len(s2c') = Len(echoed) + Len(s2c)
    BY <2>3, <2>4, <2>5
  <2>7. SentMsgs' = SentMsgs /\ (Working' => Working)
    BY <2>2, <2>3 DEF SentMsgs, Working
  <2> QED
    BY <2>2, <2>5, <2>6, <2>7 DEF OnTheWay, Carries
<1>4. QED
  BY <1>1, <1>2, <1>3

\* The child's read moves a first piece of what was sent.
LEMMA ReadWays ==
  ASSUME TypeInv, OnTheWay, Read, UNCHANGED client
  PROVE  OnTheWay'
<1>1. CASE c2s = <<>>
  <2>1. ~Working' /\ UNCHANGED <<echoed, s2c>>
    BY <1>1 DEF Read, ServerEnds, Working, client
  <2> QED
    BY <2>1, NoByteMoves
<1>2. CASE c2s # <<>>
  <2> DEFINE p == Len(echoed) + Len(s2c)
  <2>1. PICK n \in Lengths(c2s) : /\ sbuf' = SubSeq(c2s, 1, n)
                                  /\ c2s' = SubSeq(c2s, n + 1, Len(c2s))
    BY <1>2 DEF Read
  <2>2. UNCHANGED <<echoed, s2c, status, cEnd, cpc, i>> /\ sbuf = <<>>
    BY <1>2 DEF Read, client, TypeInv, Control
  <2>3. n \in 0..Len(c2s) /\ c2s \in Seq(Bytes) /\ Len(c2s) \in Nat /\ p \in Nat
        /\ Len(sbuf) = 0
    BY <1>2, <2>2 DEF Lengths, TypeInv, TypeOK
  <2>4. (Working' <=> Working) /\ SentMsgs' = SentMsgs
    BY <2>2 DEF SentMsgs, Working
  <2>5. ASSUME Working
        PROVE  /\ Carries(sbuf', p) /\ Carries(c2s', p + Len(sbuf'))
               /\ p + Len(sbuf') + Len(c2s') = SentMsgs * MsgLen
    <3>1. Carries(c2s, p) /\ p + Len(c2s) = SentMsgs * MsgLen
      <4>1. p + Len(sbuf) = p
        BY <2>3
      <4> QED
        BY <2>5, <4>1 DEF OnTheWay
    <3>2. /\ Len(sbuf') = n /\ Len(c2s') = Len(c2s) - n
          /\ Carries(sbuf', p) /\ Carries(c2s', p + n)
      BY <2>1, <2>3, <3>1, CarriesCut
    <3> HIDE DEF p
    <3> QED
      BY <2>3, <3>1, <3>2
  <2> QED
    BY <2>2, <2>4, <2>5 DEF OnTheWay, Carries
<1>3. QED
  BY <1>1, <1>2

\* The child's write sends all it has read, behind what it sent before.
LEMMA WriteWays ==
  ASSUME TypeInv, OnTheWay, Write, UNCHANGED client
  PROVE  OnTheWay'
<1>1. CASE cEnd # "open"
  <2>1. cEnd' # "open" /\ UNCHANGED <<echoed, s2c>>
    BY <1>1 DEF Write, ServerEnds, Bounced, client
  <2> QED
    BY <2>1, NoByteMoves DEF Working
<1>2. CASE cEnd = "open"
  <2>1. /\ s2c' = s2c \o sbuf /\ sbuf' = <<>>
        /\ UNCHANGED <<echoed, c2s, status, cEnd, cpc, i>> /\ Working
    BY <1>2 DEF Write, Bounced, client, Working, TypeInv, Control
  <2>2. /\ Len(echoed) \in Nat /\ Len(s2c) \in Nat /\ Len(sbuf) \in Nat /\ Len(c2s) \in Nat
        /\ s2c \in Seq(Bytes) /\ sbuf \in Seq(Bytes) /\ Len(sbuf') = 0
    BY <2>1 DEF TypeInv, TypeOK
  <2>3. Carries(s2c', Len(echoed)) /\ Len(s2c') = Len(s2c) + Len(sbuf)
    BY <2>1, <2>2, CarriesJoin DEF OnTheWay
  <2>4. SentMsgs' = SentMsgs /\ SentMsgs * MsgLen <= NumMsgs * MsgLen
        /\ SentMsgs * MsgLen \in Nat /\ NumMsgs * MsgLen \in Nat
    <3>1. SentMsgs' = SentMsgs
      BY <2>1 DEF SentMsgs
    <3> QED
      BY <3>1, SentBound, StreamProperties, NumMsgsAssumption
  <2>5. Len(echoed) + Len(s2c') <= NumMsgs * MsgLen
    BY <2>1, <2>2, <2>3, <2>4 DEF OnTheWay
  <2>6. Carries(c2s', Len(echoed) + Len(s2c') + Len(sbuf'))
    <3>1. Len(echoed) + Len(s2c') + Len(sbuf') = Len(echoed) + Len(s2c) + Len(sbuf)
      BY <2>2, <2>3
    <3> QED
      BY <2>1, <3>1 DEF OnTheWay
  <2>7. Len(echoed) + Len(s2c') + Len(sbuf') + Len(c2s') = SentMsgs * MsgLen
    BY <2>1, <2>2, <2>3, <2>4 DEF OnTheWay
  <2> QED
    BY <2>1, <2>3, <2>4, <2>5, <2>6, <2>7 DEF OnTheWay, Carries
<1>3. QED
  BY <1>1, <1>2

\* No step puts a byte out of its place.
LEMMA OnTheWayStep == TypeInv /\ OnTheWay /\ [Next]_vars => OnTheWay'
<1> SUFFICES ASSUME TypeInv, OnTheWay, [Next]_vars PROVE OnTheWay'
  OBVIOUS
<1>1. CASE Client
  <2>1. UNCHANGED server
    BY <1>1 DEF Client
  <2>2. CASE Yield \/ Connect
    BY <2>1, <2>2, NoByteMoves DEF Yield, Connect, server, Working, SentMsgs
  <2>3. CASE CloseSocket
    BY <2>3, ClosedClient DEF CloseSocket
  <2>4. CASE Wait
    BY <2>4, NoByteMoves DEF Wait, Working, TypeInv, Control
  <2> QED
    BY <1>1, <2>1, <2>2, <2>3, <2>4, SendWays, RecvWays DEF Client
<1>2. CASE Server
  <2>1. UNCHANGED client
    BY <1>2 DEF Server
  <2>2. CASE Accept
    BY <2>1, <2>2, NoByteMoves DEF Accept, client, Working, SentMsgs
  <2> QED
    BY <1>2, <2>1, <2>2, ReadWays, WriteWays DEF Server
<1>3. CASE Crash
  BY <1>3, NoByteMoves DEF Crash, ServerEnds, client, Working
<1>4. CASE UNCHANGED vars
  BY <1>4, NoByteMoves DEF vars, client, server, Working, SentMsgs
<1>5. QED
  BY <1>1, <1>2, <1>3, <1>4 DEF Next

\* At the start nothing is on the way.
LEMMA OnTheWayInit == Init => OnTheWay
  BY NumMsgsAssumption, MsgLenAssumption DEF Init, OnTheWay, Carries, Working, SentMsgs

\* Two pieces of one length from one place of the stream are the same bytes.
LEMMA CarriesEqual ==
  ASSUME NEW s \in Seq(Bytes), NEW t \in Seq(Bytes), NEW p \in Nat,
         Len(s) = Len(t), Carries(s, p), Carries(t, p)
  PROVE  s = t
  BY SeqEqual DEF Carries

\* The places of the round trip, one after the other, are what was sent.
LEMMA RoundTrip ==
  ASSUME TypeInv, OnTheWay, Working
  PROVE  echoed \o s2c \o sbuf \o c2s = Sent
<1> DEFINE a == echoed \o s2c
           b == a \o sbuf
           c == b \o c2s
<1>1. /\ echoed \in Seq(Bytes) /\ s2c \in Seq(Bytes)
      /\ sbuf \in Seq(Bytes) /\ c2s \in Seq(Bytes)
  BY DEF TypeInv, TypeOK
<1>2. /\ Len(echoed) \in Nat /\ Len(s2c) \in Nat /\ Len(sbuf) \in Nat /\ Len(c2s) \in Nat
  BY <1>1
<1>3. a \in Seq(Bytes) /\ Len(a) = Len(echoed) + Len(s2c) /\ Carries(a, 0)
  <2>1. Carries(echoed, 0) /\ Carries(s2c, 0 + Len(echoed))
    BY <1>2 DEF OnTheWay
  <2> QED
    BY <1>1, <2>1, CarriesJoin
<1> HIDE DEF a
<1>4. b \in Seq(Bytes) /\ Len(b) = Len(echoed) + Len(s2c) + Len(sbuf) /\ Carries(b, 0)
  <2>1. Carries(sbuf, 0 + Len(a))
    BY <1>2, <1>3 DEF OnTheWay
  <2>2. /\ a \o sbuf \in Seq(Bytes) /\ Len(a \o sbuf) = Len(a) + Len(sbuf)
        /\ Carries(a \o sbuf, 0)
    BY <1>1, <1>3, <2>1, CarriesJoin
  <2> QED
    BY <1>3, <2>2
<1> HIDE DEF b
<1>5. c \in Seq(Bytes) /\ Len(c) = Len(b) + Len(c2s) /\ Carries(c, 0)
  <2>1. Carries(c2s, 0 + Len(b))
    BY <1>2, <1>4 DEF OnTheWay
  <2> QED
    BY <1>1, <1>4, <2>1, CarriesJoin
<1>6. Sent = Stream(SentMsgs) /\ Len(c) = SentMsgs * MsgLen
  BY <1>4, <1>5 DEF Sent, SentMsgs, OnTheWay
<1> HIDE DEF c
<1>7. c = Stream(SentMsgs)
  BY <1>5, <1>6, SentBound, StreamProperties, CarriesEqual
<1> QED
  BY <1>6, <1>7 DEF a, b, c

\* What the client has read is a beginning of all messages.
LEMMA EchoPrefix ==
  ASSUME TypeInv, OnTheWay
  PROVE  IsPrefix(echoed, Stream(NumMsgs))
<1> DEFINE n == Len(echoed)
           all == Stream(NumMsgs)
<1>1. n \in Nat /\ echoed \in Seq(Bytes) /\ Carries(echoed, 0)
  BY DEF TypeInv, TypeOK, OnTheWay
<1>2. all \in Seq(Bytes) /\ Len(all) = NumMsgs * MsgLen /\ Carries(all, 0)
      /\ NumMsgs * MsgLen \in Nat
  BY StreamProperties, NumMsgsAssumption
<1>3. n <= Len(all)
  <2>1. Len(s2c) \in Nat
    BY DEF TypeInv, TypeOK
  <2> QED
    BY <1>1, <1>2, <2>1 DEF OnTheWay
<1> HIDE DEF all
<1>4. /\ SubSeq(all, 1, n) \in Seq(Bytes) /\ Len(SubSeq(all, 1, n)) = n
      /\ Carries(SubSeq(all, 1, n), 0)
  BY <1>1, <1>2, <1>3, CarriesCut
<1>5. SubSeq(echoed, 1, n) = echoed
  BY <1>1, SubSeqFull
<1>6. SubSeq(all, 1, n) = echoed
  BY <1>1, <1>4, CarriesEqual
<1> QED
  BY <1>3, <1>5, <1>6 DEF IsPrefix, all

(***************************************************************************)
(* While both programs run, every byte the client wrote is in exactly one  *)
(* place of its way round, in order; and what the client has read is       *)
(* always a beginning of what it wrote. However reads cut and merge.       *)
(***************************************************************************)
THEOREM TcpNothingLost == Spec => []NothingLost
<1>1. TypeInv /\ OnTheWay => NothingLost
  BY RoundTrip, EchoPrefix DEF NothingLost, Working
<1>2. QED
  BY <1>1, TypeInvInit, TypeInvStep, OnTheWayInit, OnTheWayStep, PTL DEF Spec

-----------------------------------------------------------------------------
(***************************************************************************)
(* The pace of whole reads.                                                *)
(***************************************************************************)
\* A whole read leaves nothing.
LEMMA WholeRead ==
  ASSUME NEW s \in Seq(Bytes), whole, NEW n \in Lengths(s)
  PROVE  SubSeq(s, n + 1, Len(s)) = <<>>
<1>1. n = Len(s) /\ Len(s) \in Nat
  BY DEF Lengths
<1> QED
  BY <1>1, SubSeqEmpty

\* When nothing is under way, the client has read all it has written.
LEMMA NothingUnderWay ==
  ASSUME TypeInv, OnTheWay, Working, s2c = <<>>, sbuf = <<>>, c2s = <<>>
  PROVE  Len(echoed) = SentMsgs * MsgLen
<1>1. Len(s2c) = 0 /\ Len(sbuf) = 0 /\ Len(c2s) = 0 /\ Len(echoed) \in Nat
  BY DEF TypeInv, TypeOK
<1> QED
  BY <1>1 DEF OnTheWay

\* The client writes only when nothing is under way, and takes all that came.
LEMMA PacedClient ==
  ASSUME TypeInv, OnTheWay, Paced, Client
  PROVE  Paced'
<1> SUFFICES ASSUME whole' PROVE Paced'
  BY DEF Paced
<1>1. whole /\ UNCHANGED <<sbuf, status>>
  BY DEF Client, server
<1>2. CASE Yield \/ Connect
  BY <1>1, <1>2 DEF Yield, Connect, Paced, Working
<1>3. CASE Send
  <2>1. CASE sEnd \in {"reset", "broken"}
    BY <1>3, <2>1 DEF Send, ClientDies, Closed, Paced, Working
  <2>2. CASE sEnd \notin {"reset", "broken"}
    <3>1. cpc # "recv" /\ cpc' = "recv" /\ UNCHANGED <<s2c, cEnd>>
      BY <1>3, <2>2 DEF Send
    <3> QED
      BY <1>1, <3>1 DEF Paced, Working
  <2> QED
    BY <2>1, <2>2
<1>4. CASE Recv
  <2>1. CASE s2c = <<>>
    <3>1. status # "running"
      BY <1>4, <2>1 DEF Recv, TypeInv, Control
    <3>2. cpc' \notin {"wait", "done"}
      BY <1>4, <2>1 DEF Recv, NextMsg, ClientDies
    <3> QED
      BY <1>1, <3>1, <3>2 DEF Paced, Working
  <2>2. CASE s2c # <<>>
    <3>1. NextMsg /\ s2c' = <<>>
      <4>1. PICK n \in Lengths(s2c) : s2c' = SubSeq(s2c, n + 1, Len(s2c)) /\ NextMsg
        BY <1>4, <2>2 DEF Recv
      <4>2. s2c \in Seq(Bytes)
        BY DEF TypeInv, TypeOK
      <4> QED
        BY <1>1, <4>1, <4>2, WholeRead
    <3>2. Working => sbuf = <<>> /\ c2s = <<>>
      BY <1>1, <2>2 DEF Paced
    <3>3. UNCHANGED <<c2s, cEnd>> /\ cpc' \notin {"wait", "done"}
      BY <3>1 DEF NextMsg
    <3> QED
      BY <1>1, <3>1, <3>2, <3>3 DEF Paced, Working
  <2> QED
    BY <2>1, <2>2
<1>5. CASE CloseSocket
  <2>1. ~Working' /\ cpc = "close" /\ UNCHANGED echoed
    BY <1>5 DEF CloseSocket, Closed, Working
  <2>2. ASSUME status # "failure"
        PROVE  Len(echoed) = NumMsgs * MsgLen
    <3>1. Working /\ i = NumMsgs + 1
      BY <2>1, <2>2 DEF TypeInv, TypeOK, Control, Working
    <3>2. s2c = <<>> /\ sbuf = <<>> /\ c2s = <<>>
      BY <1>1, <2>1, <3>1 DEF Paced
    <3>3. SentMsgs = NumMsgs
      BY <2>1, <3>1, NumMsgsAssumption DEF SentMsgs
    <3> QED
      BY <3>1, <3>2, <3>3, NothingUnderWay
  <2> QED
    BY <1>1, <2>1, <2>2 DEF Paced
<1>6. CASE Wait
  BY <1>1, <1>6 DEF Wait, Paced, Working, TypeInv, Control
<1>7. QED
  BY <1>2, <1>3, <1>4, <1>5, <1>6 DEF Client

\* The child's end, with 0 only after the client has closed.
LEMMA PacedEnd ==
  ASSUME TypeInv, Paced, NEW st \in {"zero", "failure"}, ServerEnds(st), spc # "over",
         UNCHANGED <<client, whole>>
  PROVE  Paced'
<1>1. ~Working' /\ UNCHANGED <<echoed, cpc, whole>> /\ status = "running"
  BY DEF ServerEnds, Working, client, TypeInv, Control
<1> QED
  BY <1>1 DEF Paced

\* The child takes all there is and sends all it took.
LEMMA PacedServer ==
  ASSUME TypeInv, Paced, Server
  PROVE  Paced'
<1> SUFFICES ASSUME whole' PROVE Paced'
  BY DEF Paced
<1>1. whole /\ UNCHANGED <<cpc, echoed, client, whole>>
  BY DEF Server, client
<1>2. CASE Accept
  BY <1>1, <1>2 DEF Accept, Paced, Working
<1>3. CASE Read
  <2>1. CASE c2s = <<>>
    <3>1. \E st \in {"zero", "failure"} : ServerEnds(st) /\ spc = "read"
      BY <1>3, <2>1 DEF Read
    <3> QED
      BY <1>1, <3>1, PacedEnd
  <2>2. CASE c2s # <<>>
    <3>1. c2s' = <<>>
      <4>1. PICK n \in Lengths(c2s) : c2s' = SubSeq(c2s, n + 1, Len(c2s))
        BY <1>3, <2>2 DEF Read
      <4>2. c2s \in Seq(Bytes)
        BY DEF TypeInv, TypeOK
      <4> QED
        BY <1>1, <4>1, <4>2, WholeRead
    <3>2. UNCHANGED <<s2c, status, cEnd>>
      BY <1>3, <2>2 DEF Read
    <3>3. Working => cpc = "recv" /\ s2c = <<>>
      BY <1>1, <2>2 DEF Paced
    <3> QED
      BY <1>1, <3>1, <3>2, <3>3 DEF Paced, Working
  <2> QED
    BY <2>1, <2>2
<1>4. CASE Write
  <2>1. CASE cEnd \in {"reset", "broken"}
    BY <1>1, <1>4, <2>1, PacedEnd DEF Write
  <2>2. CASE cEnd = "fin"
    BY <1>1, <1>4, <2>2 DEF Write, Bounced, Paced, Working
  <2>3. CASE cEnd = "open"
    <3>1. sbuf' = <<>> /\ UNCHANGED <<c2s, status, cEnd>>
      BY <1>4, <2>3 DEF Write, Bounced
    <3>2. s2c' = s2c \o sbuf
      BY <1>4, <2>3 DEF Write
    <3>3. s2c = <<>> /\ sbuf = <<>> => s2c' = <<>>
      BY <3>2
    <3>4. sbuf = <<>> => s2c' = s2c
      BY <3>2 DEF TypeInv, TypeOK
    <3> QED
      BY <1>1, <3>1, <3>3, <3>4 DEF Paced, Working
  <2> QED
    BY <2>1, <2>2, <2>3 DEF TypeInv, TypeOK, Ends
<1>5. QED
  BY <1>2, <1>3, <1>4 DEF Server

\* With whole reads no step spreads what is under way over two places.
LEMMA PacedStep == TypeInv /\ OnTheWay /\ Paced /\ [Next]_vars => Paced'
<1> SUFFICES ASSUME TypeInv, OnTheWay, Paced, [Next]_vars PROVE Paced'
  OBVIOUS
<1>1. CASE Crash
  BY <1>1, PacedEnd DEF Crash
<1>2. CASE UNCHANGED vars
  BY <1>2 DEF vars, client, server, Paced, Working
<1>3. QED
  BY <1>1, <1>2, PacedClient, PacedServer DEF Next

(***************************************************************************)
(* When reads are whole, the echo of a message is read before the next one *)
(* is sent, and a child that ended with 0 has echoed everything.           *)
(***************************************************************************)
THEOREM TcpOneMessageAtATime == Spec => []OneMessageAtATime
<1>1. Init => Paced
  BY DEF Init, Paced
<1>2. ASSUME TypeInv, OnTheWay, Paced
      PROVE  OneMessageAtATime
  <2>1. echoed \in Seq(Bytes) /\ Carries(echoed, 0)
    BY <1>2 DEF TypeInv, TypeOK, OnTheWay
  <2>2. ASSUME NEW m \in 0..NumMsgs, Len(echoed) = m * MsgLen
        PROVE  echoed = Stream(m)
    BY <2>1, <2>2, StreamProperties, CarriesEqual
  <2>3. ASSUME whole, status = "running", cpc = "send"
        PROVE  echoed = Stream(i - 1)
    <3>1. Working /\ SentMsgs = i - 1
      BY <1>2, <2>3 DEF TypeInv, Control, Working, SentMsgs
    <3>2. Len(echoed) = SentMsgs * MsgLen
      BY <1>2, <2>3, <3>1, NothingUnderWay DEF Paced
    <3> QED
      BY <1>2, <2>2, <3>1, <3>2, SentBound
  <2>4. ASSUME whole, cpc = "done", status = "zero"
        PROVE  echoed = Stream(NumMsgs)
    BY <1>2, <2>2, <2>4, NumMsgsAssumption DEF Paced
  <2> QED
    BY <2>3, <2>4 DEF OneMessageAtATime
<1>3. QED
  BY <1>1, <1>2, TypeInvInit, TypeInvStep, OnTheWayInit, OnTheWayStep, PacedStep, PTL
  DEF Spec
-----------------------------------------------------------------------------
(***************************************************************************)
(* bpf_syscall_demo. A run of the filter: what its registers hold at each  *)
(* of the 14 instructions, as far as the ones that follow rely on it.      *)
(***************************************************************************)
ValuePointer == <<"value", 0>>

\* What a run is, and what its registers and its stack hold before instruction at.
Run(r, at, reg, stack) == [pkt |-> r.pkt, at |-> at, reg |-> reg, stack |-> stack]

Shape(r) ==
    /\ r = Run(r, r.at, r.reg, r.stack)
    /\ r.reg = [x \in Bpf!Regs |-> r.reg[x]]
    /\ r.pkt \in Bpf!Packets
    /\ r.at \in (0..13) \ {2}

Holds(at, reg, stack) ==
    /\ at <= 5 => reg[10] = <<"stack", 0>>
    /\ at = 4 => reg[2] = <<"stack", 0>>
    /\ at \in {5, 6} => reg[2][2] = -4
    /\ at = 6 => stack = <<-4, 0>>
    /\ at \in {7, 8} => reg[0] = ValuePointer
    /\ at \in {9, 10, 11} => reg[1] = ValuePointer
    /\ at = 10 => reg[2] = <<"num", reg[2][2]>>
    /\ at \in {10, 11} => reg[2][2] \in Nat
    /\ at = 13 => reg[0] = <<"num", 1>>

RunInv(r) == Shape(r) /\ Holds(r.at, r.reg, r.stack)

RunsInv ==
    /\ cpu = [c \in Cpus |-> cpu[c]]
    /\ \A c \in Cpus : cpu[c] = Bpf!Idle \/ RunInv(cpu[c])

\* What the filter has in r2 once it has loaded the counter.
Count(c) == cpu[c].reg[2][2]

\* The runs of the filter that have stored the counter.
Stored == {c \in Cpus : cpu[c].at \in {12, 13}}
Stores == filtered + Cardinality(Stored)

(***************************************************************************)
(* The counter, and what a run has loaded of it, is at most the number of  *)
(* stores, and exactly that as long as no two runs were under way at once. *)
(***************************************************************************)
Counted ==
    /\ map[0] <= Stores
    /\ Stores > 0 => map[0] > 0
    /\ \A c \in Cpus :
        /\ cpu[c].at = 10 => Count(c) <= Stores
        /\ cpu[c].at = 11 => Count(c) > 0 /\ Count(c) <= Stores + 1
    /\ ~overlap =>
        /\ \A c, d \in Bpf!Busy : c = d
        /\ map[0] = Stores
        /\ \A c \in Cpus :
            /\ cpu[c].at = 10 => Count(c) = Stores
            /\ cpu[c].at = 11 => Count(c) = Stores + 1

\* What main() has set up and looked up.
BpfPlace ==
    /\ pc \in {"create", "bind"} => sock = "none"
    /\ pc = "attach" => sock = "bound"
    /\ pc \in {"send", "recv", "update", "lookup0", "lookup1"} => sock = "filtered"
    /\ pc \in {"done", "failed"} => sock = "none"
    /\ pc \in {"create", "bind", "attach", "send"} => own = "unsent"
    /\ pc \in {"lookup0", "lookup1"} => map[1] = 42
    /\ pc = "done" => seen[1] = 42

\* With nobody else on the port there is one datagram, and one run of the filter.
Alone ==
    foreign = 0 =>
        /\ ~overlap
        /\ own # "arrived" => Bpf!Busy = {} /\ filtered = 0
        /\ own = "arrived" => filtered = 0 \/ (filtered = 1 /\ Bpf!Busy = {})
        /\ \A c \in Bpf!Busy : cpu[c].pkt.from = "own"
        /\ \A k \in DOMAIN datagrams : datagrams[k].from = "own"
        /\ datagrams # <<>> => filtered = 1
        /\ pc \in {"update", "lookup0", "lookup1", "done"} => got.from = "own" /\ filtered = 1
        /\ pc \in {"lookup1", "done"} => seen[0] = 1

BpfTyped ==
    /\ Bpf!TypeOK
    /\ foreign \in Nat /\ filtered \in Nat /\ overlap \in BOOLEAN

BpfInv == BpfTyped /\ RunsInv /\ Counted /\ BpfPlace /\ Alone

-----------------------------------------------------------------------------
\* The instructions of the filter, one by one.
LEMMA ProgInsns ==
    /\ Len(Bpf!Prog) = 14
    /\ Bpf!Prog[1] = [op |-> "mov", dst |-> 6, src |-> 1, imm |-> 0]
    /\ Bpf!Prog[2] = [op |-> "map", dst |-> 1, src |-> 0, imm |-> 0]
    /\ Bpf!Prog[4] = [op |-> "mov", dst |-> 2, src |-> 10, imm |-> 0]
    /\ Bpf!Prog[5] = [op |-> "add", dst |-> 2, src |-> 0, imm |-> -4]
    /\ Bpf!Prog[6] = [op |-> "word", dst |-> 10, src |-> -4, imm |-> 0]
    /\ Bpf!Prog[7] = [op |-> "lookup", dst |-> 0, src |-> 0, imm |-> 0]
    /\ Bpf!Prog[8] = [op |-> "jeq", dst |-> 0, src |-> 0, imm |-> 5]
    /\ Bpf!Prog[9] = [op |-> "mov", dst |-> 1, src |-> 0, imm |-> 0]
    /\ Bpf!Prog[10] = [op |-> "load", dst |-> 2, src |-> 1, imm |-> 0]
    /\ Bpf!Prog[11] = [op |-> "add", dst |-> 2, src |-> 0, imm |-> 1]
    /\ Bpf!Prog[12] = [op |-> "store", dst |-> 1, src |-> 2, imm |-> 0]
    /\ Bpf!Prog[13] = [op |-> "imm", dst |-> 0, src |-> 0, imm |-> 1]
    /\ Bpf!Prog[14] = [op |-> "exit", dst |-> 0, src |-> 0, imm |-> 0]
BY DEF Bpf!Prog, Bpf!Filter, Bpf!Op, Bpf!Mov, Bpf!MovImm, Bpf!AddImm, Bpf!Load, Bpf!Store,
       Bpf!StWord, Bpf!JeqZero, Bpf!LdMap, Bpf!LdMapHigh, Bpf!Lookup, Bpf!Exit

\* What an instruction that neither loads, stores nor exits makes of a run.
Moved(r) == [Bpf!After(r, Bpf!Insn(r)) EXCEPT !.at = @ + Bpf!Jump(r, Bpf!Insn(r))]

\* A run with other registers and stack is one if they hold what they should.
LEMMA RunWith ==
    ASSUME NEW r, Shape(r), NEW at \in (0..13) \ {2}, NEW reg, NEW stack,
           reg = [x \in Bpf!Regs |-> reg[x]], Holds(at, reg, stack)
    PROVE  LET n == Run(r, at, reg, stack)
           IN  RunInv(n) /\ n.pkt = r.pkt /\ n.at = at /\ n.reg = reg
BY DEF Shape, Run, RunInv

\* What such an instruction keeps of a run, and how it counts.
Advanced(r, n) ==
    /\ RunInv(n)
    /\ n.pkt = r.pkt
    /\ n.at \in {12, 13} <=> r.at \in {12, 13}
    /\ n.at # 10
    /\ n.at = 11 => r.at = 10 /\ n.reg[2][2] = r.reg[2][2] + 1

\* A run moves on by one to the registers reg and the stack.
LEMMA Advance ==
    ASSUME NEW r, Shape(r), NEW ins, Bpf!Insn(r) = ins, NEW at \in (0..13) \ {2},
           r.at + Bpf!Jump(r, ins) = at, NEW reg, NEW stack,
           Bpf!After(r, ins) = Run(r, r.at, reg, stack),
           reg = [x \in Bpf!Regs |-> reg[x]], Holds(at, reg, stack),
           at \in {12, 13} <=> r.at \in {12, 13}, at # 10,
           at = 11 => r.at = 10 /\ reg[2][2] = r.reg[2][2] + 1
    PROVE  Advanced(r, Moved(r))
<1>1. Moved(r) = Run(r, at, reg, stack)
  BY DEF Moved, Run
<1>2. RunInv(Moved(r)) /\ Moved(r).pkt = r.pkt /\ Moved(r).at = at /\ Moved(r).reg = reg
  BY <1>1, RunWith
<1> QED
  BY <1>2 DEF Advanced

LEMMA LocalStep ==
    ASSUME NEW r, RunInv(r), Bpf!Insn(r).op \notin {"load", "store", "exit"}
    PROVE  Advanced(r, Moved(r))
<1>1. r.at \in {0, 1, 3, 4, 5, 6, 7, 8, 10, 12}
  <2>1. r.at \notin {9, 11, 13}
    BY ProgInsns DEF Bpf!Insn
  <2> QED
    BY <2>1 DEF RunInv, Shape
<1>2. Shape(r) /\ Holds(r.at, r.reg, r.stack)
  BY DEF RunInv
<1>3. CASE r.at = 0
  <2> DEFINE ins == [op |-> "mov", dst |-> 6, src |-> 1, imm |-> 0]
             reg == [r.reg EXCEPT ![6] = r.reg[1]]
  <2>1. Bpf!Insn(r) = ins /\ Bpf!Jump(r, ins) = 1
    BY <1>2, <1>3, ProgInsns DEF Bpf!Insn, Bpf!Jump, Holds, ValuePointer
  <2>2. Bpf!After(r, ins) = Run(r, r.at, reg, r.stack)
    BY <1>2, <1>3 DEF Bpf!After, Shape, Run, Holds, ValuePointer, Bpf!MaxEntries
  <2>3. /\ reg = [x \in Bpf!Regs |-> reg[x]]
        /\ Holds(1, reg, r.stack)
    BY <1>2, <1>3 DEF Shape, Holds, Bpf!Regs
  <2> HIDE DEF ins, reg
  <2> QED
    BY <1>2, <1>3, <2>1, <2>2, <2>3, Advance
<1>4. CASE r.at = 1
  <2> DEFINE ins == [op |-> "map", dst |-> 1, src |-> 0, imm |-> 0]
             reg == [r.reg EXCEPT ![1] = <<"map", 0>>]
  <2>1. Bpf!Insn(r) = ins /\ Bpf!Jump(r, ins) = 2
    BY <1>2, <1>4, ProgInsns DEF Bpf!Insn, Bpf!Jump, Holds, ValuePointer
  <2>2. Bpf!After(r, ins) = Run(r, r.at, reg, r.stack)
    BY <1>2, <1>4 DEF Bpf!After, Shape, Run, Holds, ValuePointer, Bpf!MaxEntries
  <2>3. /\ reg = [x \in Bpf!Regs |-> reg[x]]
        /\ Holds(3, reg, r.stack)
    BY <1>2, <1>4 DEF Shape, Holds, Bpf!Regs
  <2> HIDE DEF ins, reg
  <2> QED
    BY <1>2, <1>4, <2>1, <2>2, <2>3, Advance
<1>5. CASE r.at = 3
  <2> DEFINE ins == [op |-> "mov", dst |-> 2, src |-> 10, imm |-> 0]
             reg == [r.reg EXCEPT ![2] = r.reg[10]]
  <2>1. Bpf!Insn(r) = ins /\ Bpf!Jump(r, ins) = 1
    BY <1>2, <1>5, ProgInsns DEF Bpf!Insn, Bpf!Jump, Holds, ValuePointer
  <2>2. Bpf!After(r, ins) = Run(r, r.at, reg, r.stack)
    BY <1>2, <1>5 DEF Bpf!After, Shape, Run, Holds, ValuePointer, Bpf!MaxEntries
  <2>3. /\ reg = [x \in Bpf!Regs |-> reg[x]]
        /\ Holds(4, reg, r.stack)
    BY <1>2, <1>5 DEF Shape, Holds, Bpf!Regs
  <2> HIDE DEF ins, reg
  <2> QED
    BY <1>2, <1>5, <2>1, <2>2, <2>3, Advance
<1>6. CASE r.at = 4
  <2> DEFINE ins == [op |-> "add", dst |-> 2, src |-> 0, imm |-> -4]
             reg == [r.reg EXCEPT ![2] = <<"stack", -4>>]
  <2>1. Bpf!Insn(r) = ins /\ Bpf!Jump(r, ins) = 1
    BY <1>2, <1>6, ProgInsns DEF Bpf!Insn, Bpf!Jump, Holds, ValuePointer
  <2>2. [r.reg[2] EXCEPT ![2] = @ + (-4)] = <<"stack", -4>>
    BY <1>2, <1>6 DEF Holds
  <2>3. Bpf!After(r, ins) = Run(r, r.at, reg, r.stack)
    BY <1>2, <1>6, <2>2 DEF Bpf!After, Shape, Run, Holds, ValuePointer, Bpf!MaxEntries
  <2>4. /\ reg = [x \in Bpf!Regs |-> reg[x]]
        /\ Holds(5, reg, r.stack)
    BY <1>2, <1>6 DEF Shape, Holds, Bpf!Regs
  <2> HIDE DEF ins, reg
  <2> QED
    BY <1>2, <1>6, <2>1, <2>3, <2>4, Advance
<1>7. CASE r.at = 5
  <2> DEFINE ins == [op |-> "word", dst |-> 10, src |-> -4, imm |-> 0]
             reg == r.reg
  <2>1. Bpf!Insn(r) = ins /\ Bpf!Jump(r, ins) = 1
    BY <1>2, <1>7, ProgInsns DEF Bpf!Insn, Bpf!Jump, Holds, ValuePointer
  <2>2. Bpf!After(r, ins) = Run(r, r.at, reg, <<-4, 0>>)
    BY <1>2, <1>7 DEF Bpf!After, Shape, Run, Holds, ValuePointer, Bpf!MaxEntries
  <2>3. /\ reg = [x \in Bpf!Regs |-> reg[x]]
        /\ Holds(6, reg, <<-4, 0>>)
    BY <1>2, <1>7 DEF Shape, Holds, Bpf!Regs
  <2> HIDE DEF ins, reg
  <2> QED
    BY <1>2, <1>7, <2>1, <2>2, <2>3, Advance
<1>8. CASE r.at = 6
  <2> DEFINE ins == [op |-> "lookup", dst |-> 0, src |-> 0, imm |-> 0]
             reg == [r.reg EXCEPT ![1] = Bpf!Unset, ![2] = Bpf!Unset, ![0] = ValuePointer]
  <2>1. Bpf!Insn(r) = ins /\ Bpf!Jump(r, ins) = 1
    BY <1>2, <1>8, ProgInsns DEF Bpf!Insn, Bpf!Jump, Holds, ValuePointer
  <2>2. Bpf!After(r, ins) = Run(r, r.at, reg, r.stack)
    BY <1>2, <1>8 DEF Bpf!After, Shape, Run, Holds, ValuePointer, Bpf!MaxEntries
  <2>3. /\ reg = [x \in Bpf!Regs |-> reg[x]]
        /\ Holds(7, reg, r.stack)
    BY <1>2, <1>8 DEF Shape, Holds, Bpf!Regs
  <2> HIDE DEF ins, reg
  <2> QED
    BY <1>2, <1>8, <2>1, <2>2, <2>3, Advance
<1>9. CASE r.at = 7
  <2> DEFINE ins == [op |-> "jeq", dst |-> 0, src |-> 0, imm |-> 5]
             reg == r.reg
  <2>1. Bpf!Insn(r) = ins /\ Bpf!Jump(r, ins) = 1
    BY <1>2, <1>9, ProgInsns DEF Bpf!Insn, Bpf!Jump, Holds, ValuePointer
  <2>2. Bpf!After(r, ins) = Run(r, r.at, reg, r.stack)
    BY <1>2, <1>9 DEF Bpf!After, Shape, Run, Holds, ValuePointer, Bpf!MaxEntries
  <2>3. /\ reg = [x \in Bpf!Regs |-> reg[x]]
        /\ Holds(8, reg, r.stack)
    BY <1>2, <1>9 DEF Shape, Holds, Bpf!Regs
  <2> HIDE DEF ins, reg
  <2> QED
    BY <1>2, <1>9, <2>1, <2>2, <2>3, Advance
<1>10. CASE r.at = 8
  <2> DEFINE ins == [op |-> "mov", dst |-> 1, src |-> 0, imm |-> 0]
             reg == [r.reg EXCEPT ![1] = r.reg[0]]
  <2>1. Bpf!Insn(r) = ins /\ Bpf!Jump(r, ins) = 1
    BY <1>2, <1>10, ProgInsns DEF Bpf!Insn, Bpf!Jump, Holds, ValuePointer
  <2>2. Bpf!After(r, ins) = Run(r, r.at, reg, r.stack)
    BY <1>2, <1>10 DEF Bpf!After, Shape, Run, Holds, ValuePointer, Bpf!MaxEntries
  <2>3. /\ reg = [x \in Bpf!Regs |-> reg[x]]
        /\ Holds(9, reg, r.stack)
    BY <1>2, <1>10 DEF Shape, Holds, Bpf!Regs
  <2> HIDE DEF ins, reg
  <2> QED
    BY <1>2, <1>10, <2>1, <2>2, <2>3, Advance
<1>11. CASE r.at = 10
  <2> DEFINE ins == [op |-> "add", dst |-> 2, src |-> 0, imm |-> 1]
             reg == [r.reg EXCEPT ![2] = <<"num", r.reg[2][2] + 1>>]
  <2>1. Bpf!Insn(r) = ins /\ Bpf!Jump(r, ins) = 1
    BY <1>2, <1>11, ProgInsns DEF Bpf!Insn, Bpf!Jump, Holds, ValuePointer
  <2>2. [r.reg[2] EXCEPT ![2] = @ + (1)] = <<"num", r.reg[2][2] + 1>>
    BY <1>2, <1>11 DEF Holds
  <2>3. Bpf!After(r, ins) = Run(r, r.at, reg, r.stack)
    BY <1>2, <1>11, <2>2 DEF Bpf!After, Shape, Run, Holds, ValuePointer, Bpf!MaxEntries
  <2>4. /\ reg = [x \in Bpf!Regs |-> reg[x]]
        /\ Holds(11, reg, r.stack)
    BY <1>2, <1>11 DEF Shape, Holds, Bpf!Regs
  <2>5. reg[2][2] = r.reg[2][2] + 1
    BY <1>2 DEF Shape, Bpf!Regs
  <2> HIDE DEF ins, reg
  <2> QED
    BY <1>2, <1>11, <2>1, <2>3, <2>4, <2>5, Advance
<1>12. CASE r.at = 12
  <2> DEFINE ins == [op |-> "imm", dst |-> 0, src |-> 0, imm |-> 1]
             reg == [r.reg EXCEPT ![0] = <<"num", 1>>]
  <2>1. Bpf!Insn(r) = ins /\ Bpf!Jump(r, ins) = 1
    BY <1>2, <1>12, ProgInsns DEF Bpf!Insn, Bpf!Jump, Holds, ValuePointer
  <2>2. Bpf!After(r, ins) = Run(r, r.at, reg, r.stack)
    BY <1>2, <1>12 DEF Bpf!After, Shape, Run, Holds, ValuePointer, Bpf!MaxEntries
  <2>3. /\ reg = [x \in Bpf!Regs |-> reg[x]]
        /\ Holds(13, reg, r.stack)
    BY <1>2, <1>12 DEF Shape, Holds, Bpf!Regs
  <2> HIDE DEF ins, reg
  <2> QED
    BY <1>2, <1>12, <2>1, <2>2, <2>3, Advance
<1> QED
  BY <1>1, <1>3, <1>4, <1>5, <1>6, <1>7, <1>8, <1>9, <1>10, <1>11, <1>12

\* The place of an idle CPU, and of a run of the filter.
LEMMA IdleOrRun ==
    /\ Bpf!Idle.at = 0
    /\ \A r : RunInv(r) => r # Bpf!Idle /\ r.at \in (0..13) \ {2} /\ r.pkt \in Bpf!Packets
<1>1. Bpf!Idle.at = 0 /\ Bpf!Idle.pkt.from = "nobody"
  BY DEF Bpf!Idle, Bpf!NoPacket
<1>2. \A p \in Bpf!Packets : p.from # "nobody"
  BY DEF Bpf!Packets
<1> QED
  BY <1>1, <1>2 DEF RunInv, Shape

\* What is known of a CPU on which the filter runs.
LEMMA BusyRuns ==
    ASSUME BpfInv
    PROVE  /\ \A c \in Cpus : c \in Bpf!Busy <=> RunInv(cpu[c])
           /\ \A c \in Cpus : c \notin Bpf!Busy <=> cpu[c] = Bpf!Idle
           /\ \A c \in Cpus : cpu[c].at # 0 => c \in Bpf!Busy
           /\ Stored \subseteq Bpf!Busy
           /\ IsFiniteSet(Stored) /\ Stores \in Nat /\ map[0] \in Nat
<1>1. \A c \in Cpus : c \notin Bpf!Busy <=> cpu[c] = Bpf!Idle
  BY DEF Bpf!Busy
<1>2. \A c \in Cpus : c \in Bpf!Busy <=> RunInv(cpu[c])
  BY <1>1, IdleOrRun DEF BpfInv, RunsInv
<1>3. \A c \in Cpus : cpu[c].at # 0 => c \in Bpf!Busy
  BY <1>1, IdleOrRun
<1>4. Stored \subseteq Bpf!Busy
  BY <1>3 DEF Stored
<1>5. IsFiniteSet(Stored)
  BY CpusAssumption, FS_Subset DEF Stored
<1>6. Stores \in Nat
  BY <1>5, FS_CardinalityType DEF Stores, BpfInv, BpfTyped
<1>7. map[0] \in Nat
  BY DEF BpfInv, BpfTyped, Bpf!TypeOK, Bpf!MaxEntries
<1> QED
  BY <1>1, <1>2, <1>3, <1>4, <1>5, <1>6, <1>7

\* What a step of the run on CPU c does to all runs.
RunsTo(c, n) ==
    /\ cpu' = [cpu EXCEPT ![c] = n]
    /\ cpu' = [d \in Cpus |-> cpu'[d]]
    /\ cpu'[c] = n
    /\ \A d \in Cpus \ {c} : cpu'[d] = cpu[d]

LEMMA OneRunChanges ==
    ASSUME BpfInv, NEW c \in Cpus, NEW n, cpu' = [cpu EXCEPT ![c] = n]
    PROVE  RunsTo(c, n)
BY DEF BpfInv, RunsInv, RunsTo

\* The CPUs after a step of a run that goes on as a run of the same datagram.
LEMMA RunGoesOn ==
    ASSUME BpfInv, NEW c \in Bpf!Busy, NEW n, RunsTo(c, n), RunInv(n), n.pkt = cpu[c].pkt
    PROVE  /\ RunsInv'
           /\ Bpf!Busy' = Bpf!Busy
           /\ \A d \in Bpf!Busy : cpu'[d].pkt = cpu[d].pkt
<1>1. c \in Cpus /\ c \in Bpf!Busy
  BY DEF Bpf!Busy
<1>2. RunsInv'
  BY <1>1 DEF BpfInv, RunsInv, RunsTo
<1>3. \A d \in Cpus : cpu'[d] # Bpf!Idle <=> cpu[d] # Bpf!Idle
  BY <1>1, IdleOrRun DEF RunsTo, Bpf!Busy
<1>4. Bpf!Busy' = Bpf!Busy
  BY <1>3 DEF Bpf!Busy
<1>5. \A d \in Bpf!Busy : cpu'[d].pkt = cpu[d].pkt
  BY <1>1 DEF RunsTo, Bpf!Busy
<1> QED
  BY <1>2, <1>4, <1>5

\* What has no part in the runs of the filter says the same while it stays.
LEMMA AloneKept ==
    ASSUME BpfInv, UNCHANGED <<pc, sock, own, foreign, datagrams, got, seen, filtered, overlap>>,
           Bpf!Busy' = Bpf!Busy, \A d \in Bpf!Busy : cpu'[d].pkt = cpu[d].pkt
    PROVE  Alone'
BY DEF BpfInv, Alone

\* The runs after a step are as TypeOK says.
LEMMA TypedRuns ==
    ASSUME RunsInv'
    PROVE  \A c \in Cpus : cpu'[c].at \in 0..Len(Bpf!Prog) - 1 /\ DOMAIN cpu'[c].reg = Bpf!Regs
<1> SUFFICES ASSUME NEW c \in Cpus
             PROVE  cpu'[c].at \in 0..Len(Bpf!Prog) - 1 /\ DOMAIN cpu'[c].reg = Bpf!Regs
  OBVIOUS
<1>1. CASE cpu'[c] = Bpf!Idle
  BY <1>1, ProgInsns DEF Bpf!Idle
<1>2. CASE RunInv(cpu'[c])
  BY <1>2, ProgInsns DEF RunInv, Shape
<1> QED
  BY <1>1, <1>2 DEF RunsInv

\* An instruction on registers and stack only.
LEMMA BpfLocal ==
    ASSUME BpfInv, NEW c \in Cpus, Bpf!RunLocal(c)
    PROVE  BpfInv'
<1> DEFINE n == Moved(cpu[c])
<1>1. c \in Bpf!Busy /\ RunInv(cpu[c])
  BY BusyRuns DEF Bpf!RunLocal
<1>2. Bpf!Insn(cpu[c]).op \notin {"load", "store", "exit"} /\ cpu' = [cpu EXCEPT ![c] = n]
  BY DEF Bpf!RunLocal, Bpf!Step, Moved
<1>3. UNCHANGED <<pc, sock, own, foreign, datagrams, map, got, seen, filtered, overlap>>
  BY DEF Bpf!RunLocal, Bpf!main, Bpf!wire, Bpf!history
<1>4. Advanced(cpu[c], n)
  BY <1>1, <1>2, LocalStep
<1> HIDE DEF n
<1>5. RunsTo(c, n)
  BY <1>2, OneRunChanges
<1>6. RunsInv' /\ Bpf!Busy' = Bpf!Busy /\ \A d \in Bpf!Busy : cpu'[d].pkt = cpu[d].pkt
  BY <1>1, <1>4, <1>5, RunGoesOn DEF Advanced
<1>7. Stored' = Stored /\ Stores' = Stores
  BY <1>3, <1>4, <1>5 DEF Stored, Stores, Advanced, RunsTo
<1>8. BpfTyped'
  BY <1>3, <1>6, TypedRuns DEF BpfInv, BpfTyped, Bpf!TypeOK
<1>9. Counted'
  <2>1. \A d \in Cpus \ {c} : cpu'[d] = cpu[d] /\ Count(d)' = Count(d)
    BY <1>5 DEF RunsTo, Count
  <2>2. /\ cpu'[c].at # 10
        /\ cpu'[c].at = 11 => cpu[c].at = 10 /\ Count(c)' = Count(c) + 1 /\ Count(c) \in Nat
    BY <1>1, <1>4, <1>5 DEF RunsTo, Advanced, Count, RunInv, Holds
  <2>3. Stores \in Nat
    BY BusyRuns
  <2> QED
    BY <1>3, <1>6, <1>7, <2>1, <2>2, <2>3 DEF BpfInv, Counted
<1>10. BpfPlace'
  BY <1>3 DEF BpfInv, BpfPlace
<1>11. Alone'
  BY <1>3, <1>6, AloneKept
<1> QED
  BY <1>6, <1>8, <1>9, <1>10, <1>11 DEF BpfInv

\* The instruction that loads the counter.
LEMMA BpfLoad ==
    ASSUME BpfInv, NEW c \in Cpus, Bpf!RunLoad(c)
    PROVE  BpfInv'
<1> DEFINE r == cpu[c]
           reg == [r.reg EXCEPT ![2] = <<"num", map[0]>>]
           n == Run(r, 10, reg, r.stack)
<1>1. c \in Bpf!Busy /\ RunInv(r)
  BY BusyRuns DEF Bpf!RunLoad
<1>2. Shape(r) /\ Holds(r.at, r.reg, r.stack)
  BY <1>1 DEF RunInv
<1>3. r.at = 9
  <2>1. Bpf!Insn(r).op = "load"
    BY DEF Bpf!RunLoad
  <2> QED
    BY <1>2, <2>1, ProgInsns DEF Bpf!Insn, Shape
<1>4. /\ Bpf!Insn(r) = [op |-> "load", dst |-> 2, src |-> 1, imm |-> 0]
      /\ Bpf!Jump(r, Bpf!Insn(r)) = 1
  BY <1>3, ProgInsns DEF Bpf!Insn, Bpf!Jump
<1>5. r.reg[1][2] = 0
  BY <1>2, <1>3 DEF Holds, ValuePointer
<1>6. [r EXCEPT !.reg[2] = <<"num", map[0]>>] = Run(r, r.at, reg, r.stack)
  BY <1>2 DEF Shape, Run
<1>7. [Run(r, r.at, reg, r.stack) EXCEPT !.at = @ + 1] = n
  BY <1>3 DEF Run
<1>8. cpu' = [cpu EXCEPT ![c] = n]
  <2>1. Bpf!Step(c, [r EXCEPT !.reg[2] = <<"num", map[0]>>])
    BY <1>4, <1>5 DEF Bpf!RunLoad
  <2> HIDE DEF reg
  <2> QED
    BY <1>4, <1>6, <1>7, <2>1 DEF Bpf!Step
<1>9. UNCHANGED <<pc, sock, own, foreign, datagrams, map, got, seen, filtered, overlap>>
  BY DEF Bpf!RunLoad, Bpf!main, Bpf!wire, Bpf!history
<1>10. Stores \in Nat /\ map[0] \in Nat
  BY BusyRuns
<1>11. reg = [x \in Bpf!Regs |-> reg[x]] /\ reg[2] = <<"num", map[0]>> /\ reg[1] = ValuePointer
  BY <1>2, <1>3 DEF Shape, Holds, Bpf!Regs
<1>12. Holds(10, reg, r.stack)
  BY <1>10, <1>11 DEF Holds
<1>13. RunInv(n) /\ n.pkt = r.pkt /\ n.at = 10 /\ n.reg = reg
  <2> HIDE DEF reg
  <2> QED
    BY <1>2, <1>11, <1>12, RunWith
<1> HIDE DEF n, reg
<1>14. RunsTo(c, n)
  BY <1>8, OneRunChanges
<1>15. RunsInv' /\ Bpf!Busy' = Bpf!Busy /\ \A d \in Bpf!Busy : cpu'[d].pkt = cpu[d].pkt
  BY <1>1, <1>13, <1>14, RunGoesOn
<1>16. Stored' = Stored /\ Stores' = Stores
  <2>1. cpu'[c].at = 10 /\ cpu[c].at = 9 /\ \A d \in Cpus \ {c} : cpu'[d] = cpu[d]
    BY <1>3, <1>13, <1>14 DEF RunsTo
  <2> QED
    BY <1>9, <2>1 DEF Stored, Stores
<1>17. BpfTyped'
  BY <1>9, <1>15, TypedRuns DEF BpfInv, BpfTyped, Bpf!TypeOK
<1>18. Counted'
  <2>1. \A d \in Cpus \ {c} : cpu'[d] = cpu[d] /\ Count(d)' = Count(d)
    BY <1>14 DEF RunsTo, Count
  <2>2. cpu'[c].at = 10 /\ Count(c)' = map[0]
    BY <1>11, <1>13, <1>14 DEF RunsTo, Count
  <2> QED
    BY <1>9, <1>10, <1>15, <1>16, <2>1, <2>2 DEF BpfInv, Counted
<1>19. BpfPlace'
  BY <1>9 DEF BpfInv, BpfPlace
<1>20. Alone'
  BY <1>9, <1>15, AloneKept
<1> QED
  BY <1>15, <1>17, <1>18, <1>19, <1>20 DEF BpfInv

\* The instruction that stores the counter.
LEMMA BpfStore ==
    ASSUME BpfInv, NEW c \in Cpus, Bpf!RunStore(c)
    PROVE  BpfInv'
<1> DEFINE r == cpu[c]
           n == Run(r, 12, r.reg, r.stack)
<1>1. c \in Bpf!Busy /\ RunInv(r)
  BY BusyRuns DEF Bpf!RunStore
<1>2. Shape(r) /\ Holds(r.at, r.reg, r.stack)
  BY <1>1 DEF RunInv
<1>3. r.at = 11
  <2>1. Bpf!Insn(r).op = "store"
    BY DEF Bpf!RunStore
  <2> QED
    BY <1>2, <2>1, ProgInsns DEF Bpf!Insn, Shape
<1>4. /\ Bpf!Insn(r) = [op |-> "store", dst |-> 1, src |-> 2, imm |-> 0]
      /\ Bpf!Jump(r, Bpf!Insn(r)) = 1
  BY <1>3, ProgInsns DEF Bpf!Insn, Bpf!Jump
<1>5. r.reg[1][2] = 0 /\ Count(c) \in Nat
  BY <1>2, <1>3 DEF Holds, ValuePointer, Count
<1>6. [r EXCEPT !.at = @ + 1] = n
  BY <1>2, <1>3 DEF Shape, Run
<1>7. cpu' = [cpu EXCEPT ![c] = n] /\ map' = [map EXCEPT ![0] = Count(c)]
  <2>1. Bpf!Step(c, r) /\ map' = [map EXCEPT ![r.reg[1][2]] = r.reg[2][2]]
    BY <1>4 DEF Bpf!RunStore
  <2> QED
    BY <1>4, <1>5, <1>6, <2>1 DEF Bpf!Step, Count
<1>8. UNCHANGED <<pc, sock, own, foreign, datagrams, got, seen, filtered, overlap>>
  BY DEF Bpf!RunStore, Bpf!main, Bpf!wire, Bpf!history
<1>9. RunInv(n) /\ n.pkt = r.pkt /\ n.at = 12
  <2>1. Holds(12, r.reg, r.stack) /\ r.reg = [x \in Bpf!Regs |-> r.reg[x]]
    BY <1>2 DEF Holds, Shape
  <2> QED
    BY <1>2, <2>1, RunWith
<1> HIDE DEF n
<1>10. RunsTo(c, n)
  BY <1>7, OneRunChanges
<1>11. RunsInv' /\ Bpf!Busy' = Bpf!Busy /\ \A d \in Bpf!Busy : cpu'[d].pkt = cpu[d].pkt
  BY <1>1, <1>9, <1>10, RunGoesOn
<1>12. IsFiniteSet(Stored) /\ Stores \in Nat
  BY BusyRuns
<1>13. c \notin Stored /\ Stored' = Stored \cup {c}
  BY <1>3, <1>9, <1>10 DEF Stored, RunsTo
<1>14. Stores' = Stores + 1
  <2>1. Cardinality(Stored') = Cardinality(Stored) + 1
    BY <1>12, <1>13, FS_AddElement
  <2>2. Cardinality(Stored) \in Nat /\ filtered \in Nat
    BY <1>12, FS_CardinalityType DEF BpfInv, BpfTyped
  <2> QED
    BY <1>8, <2>1, <2>2 DEF Stores
<1>15. map'[0] = Count(c) /\ map'[1] = map[1] /\ map' \in [0..Bpf!MaxEntries - 1 -> Nat]
  <2>1. map \in [0..Bpf!MaxEntries - 1 -> Nat]
    BY DEF BpfInv, BpfTyped, Bpf!TypeOK
  <2> QED
    BY <1>5, <1>7, <2>1 DEF Bpf!MaxEntries
<1>16. BpfTyped'
  BY <1>8, <1>11, <1>15, TypedRuns DEF BpfInv, BpfTyped, Bpf!TypeOK
<1>17. Counted'
  <2>1. \A d \in Cpus \ {c} : cpu'[d] = cpu[d] /\ Count(d)' = Count(d)
    BY <1>10 DEF RunsTo, Count
  <2>2. cpu'[c].at = 12
    BY <1>9, <1>10 DEF RunsTo
  <2>3. Count(c) > 0 /\ Count(c) <= Stores + 1 /\ (~overlap => Count(c) = Stores + 1)
    BY <1>3 DEF BpfInv, Counted
  <2>4. ~overlap => \A d \in Cpus \ {c} : cpu[d].at = 0
    BY <1>1, BusyRuns DEF BpfInv, Counted
  <2>5. \A d \in Cpus \ {c} : /\ cpu[d].at \in {10, 11} => Count(d) \in Nat
                              /\ cpu[d].at = 10 => Count(d) <= Stores
                              /\ cpu[d].at = 11 => Count(d) > 0 /\ Count(d) <= Stores + 1
    <3>1. \A d \in Cpus : cpu[d].at \in {10, 11} => Holds(cpu[d].at, cpu[d].reg, cpu[d].stack)
      BY BusyRuns DEF RunInv
    <3> QED
      BY <3>1 DEF BpfInv, Counted, Holds, Count
  <2> QED
    BY <1>5, <1>8, <1>11, <1>12, <1>14, <1>15, <2>1, <2>2, <2>3, <2>4, <2>5 DEF BpfInv, Counted
<1>18. BpfPlace'
  BY <1>8, <1>15 DEF BpfInv, BpfPlace
<1>19. Alone'
  BY <1>8, <1>11, AloneKept
<1> QED
  BY <1>11, <1>16, <1>17, <1>18, <1>19 DEF BpfInv

\* What the filter's verdict keeps of a datagram: a datagram of the same sender.
LEMMA KeptIs ==
    ASSUME NEW p \in Bpf!Packets
    PROVE  Bpf!Kept(p, 1) \in Bpf!Packets /\ Bpf!Kept(p, 1).from = p.from
<1>1. p.len \in 0..8 /\ p.from \in {"own", "foreign"} /\ p = [from |-> p.from, len |-> p.len]
  BY DEF Bpf!Packets, Bpf!Payload
<1>2. Bpf!Max({1, 8}) = 8
  BY DEF Bpf!Max
<1>3. Bpf!Min({p.len, 0}) = 0
  BY <1>1 DEF Bpf!Min
<1>4. Bpf!Kept(p, 1) = [p EXCEPT !.len = 0]
  BY <1>2, <1>3 DEF Bpf!Kept, Bpf!Header
<1> QED
  BY <1>1, <1>4 DEF Bpf!Packets, Bpf!Payload

\* A datagram at the end of a queue leaves those before it.
LEMMA QueueGrows ==
    ASSUME NEW S, NEW s \in Seq(S), NEW p \in S, NEW t, t = Append(s, p)
    PROVE  t \in Seq(S) /\ \A k \in DOMAIN t : t[k] = p \/ (k \in DOMAIN s /\ t[k] = s[k])
<1>1. t \in Seq(S) /\ Len(t) = Len(s) + 1 /\ Len(s) \in Nat
  BY AppendProperties, LenProperties
<1>2. t[Len(s) + 1] = p
  BY AppendProperties
<1>3. \A k \in 1..Len(s) : t[k] = s[k]
  BY AppendProperties
<1>4. ASSUME NEW k \in DOMAIN t
      PROVE  t[k] = p \/ (k \in DOMAIN s /\ t[k] = s[k])
  <2>1. k = Len(s) + 1 \/ k \in 1..Len(s)
    BY <1>1
  <2>2. CASE k = Len(s) + 1
    <3>1. t[k] = p
      BY <1>2, <2>2, Zenon
    <3> QED
      BY <3>1
  <2>3. CASE k \in 1..Len(s)
    <3>1. t[k] = s[k]
      BY <1>3, <2>3
    <3> QED
      BY <2>3, <3>1
  <2> QED
    BY <2>1, <2>2, <2>3
<1> QED
  BY <1>1, <1>4

\* The last instruction: the verdict, and the datagram into the queue.
LEMMA BpfExit ==
    ASSUME BpfInv, NEW c \in Cpus, Bpf!RunExit(c)
    PROVE  BpfInv'
<1> DEFINE r == cpu[c]
<1>1. c \in Bpf!Busy /\ RunInv(r)
  BY BusyRuns DEF Bpf!RunExit
<1>2. Shape(r) /\ Holds(r.at, r.reg, r.stack)
  BY <1>1 DEF RunInv
<1>3. r.at = 13
  <2>1. Bpf!Insn(r).op = "exit"
    BY DEF Bpf!RunExit
  <2> QED
    BY <1>2, <2>1, ProgInsns DEF Bpf!Insn, Shape
<1>4. r.reg[0][2] = 1
  BY <1>2, <1>3 DEF Holds
<1>5. RunsTo(c, Bpf!Idle)
  BY OneRunChanges DEF Bpf!RunExit
<1>6. UNCHANGED <<pc, sock, own, foreign, map, got, seen, overlap>> /\ filtered' = filtered + 1
  BY DEF Bpf!RunExit, Bpf!main
<1>7. datagrams' = IF sock = "none" THEN datagrams ELSE Append(datagrams, Bpf!Kept(r.pkt, 1))
  BY <1>4 DEF Bpf!RunExit
<1>8. r.pkt \in Bpf!Packets /\ datagrams \in Seq(Bpf!Packets)
  BY <1>2 DEF Shape, BpfInv, BpfTyped, Bpf!TypeOK
<1>9. /\ datagrams' \in Seq(Bpf!Packets)
      /\ \A k \in DOMAIN datagrams' :
            \/ datagrams'[k].from = r.pkt.from
            \/ k \in DOMAIN datagrams /\ datagrams'[k] = datagrams[k]
  BY <1>7, <1>8, KeptIs, QueueGrows
<1>10. Bpf!Busy' = Bpf!Busy \ {c}
  BY <1>5 DEF Bpf!Busy, RunsTo
<1>11. RunsInv'
  BY <1>5 DEF BpfInv, RunsInv, RunsTo
<1>12. IsFiniteSet(Stored) /\ Stores \in Nat /\ map[0] \in Nat /\ filtered \in Nat
  BY BusyRuns DEF BpfInv, BpfTyped
<1>13. c \in Stored /\ Stored' = Stored \ {c}
  <2>1. cpu'[c].at = 0 /\ \A d \in Cpus \ {c} : cpu'[d] = cpu[d]
    BY <1>5, IdleOrRun DEF RunsTo
  <2> QED
    BY <1>3, <2>1 DEF Stored
<1>14. Stores' = Stores
  <2>1. Cardinality(Stored') = Cardinality(Stored) - 1
    BY <1>12, <1>13, FS_RemoveElement
  <2>2. Cardinality(Stored) \in Nat
    BY <1>12, FS_CardinalityType
  <2> QED
    BY <1>6, <1>12, <2>1, <2>2 DEF Stores
<1>15. BpfTyped'
  BY <1>6, <1>9, <1>11, TypedRuns DEF BpfInv, BpfTyped, Bpf!TypeOK
<1>16. Counted'
  <2>1. \A d \in Cpus \ {c} : cpu'[d] = cpu[d] /\ Count(d)' = Count(d)
    BY <1>5 DEF RunsTo, Count
  <2>2. cpu'[c].at = 0
    BY <1>5, IdleOrRun DEF RunsTo
  <2> QED
    BY <1>6, <1>10, <1>12, <1>14, <2>1, <2>2 DEF BpfInv, Counted
<1>17. BpfPlace'
  BY <1>6 DEF BpfInv, BpfPlace
<1>18. Alone'
  <2> SUFFICES ASSUME foreign = 0 PROVE Alone'
    BY <1>6 DEF Alone
  <2>1. ~overlap /\ own = "arrived" /\ filtered = 0 /\ r.pkt.from = "own"
    BY <1>1 DEF BpfInv, Alone
  <2>2. Bpf!Busy' = {} /\ filtered' = 1
    BY <1>1, <1>6, <1>10, <2>1 DEF BpfInv, Counted
  <2>3. \A k \in DOMAIN datagrams' : datagrams'[k].from = "own"
    BY <1>9, <2>1 DEF BpfInv, Alone
  <2>4. pc \notin {"update", "lookup0", "lookup1", "done"}
    BY <2>1 DEF BpfInv, Alone
  <2> QED
    BY <1>6, <2>1, <2>2, <2>3, <2>4 DEF Alone
<1> QED
  BY <1>11, <1>15, <1>16, <1>17, <1>18 DEF BpfInv

\* A datagram that comes in begins a run of the filter, or joins the queue unfiltered.
LEMMA BpfArrive ==
    ASSUME BpfInv, NEW c \in Cpus, NEW p \in Bpf!Packets, Bpf!Arrive(c, p),
           UNCHANGED <<pc, sock, map, got, seen, filtered>>, foreign' \in Nat
    PROVE  /\ RunsInv' /\ Counted'
           /\ datagrams' \in Seq(Bpf!Packets) /\ overlap' \in BOOLEAN
           /\ sock = "filtered" => /\ Bpf!Busy' = Bpf!Busy \cup {c} /\ cpu'[c].pkt = p
                                   /\ overlap' = (overlap \/ Bpf!Busy # {})
                                   /\ datagrams' = datagrams
           /\ sock \in {"bound", "filtered"}
<1>1. c \notin Bpf!Busy /\ cpu[c] = Bpf!Idle
  BY BusyRuns DEF Bpf!Arrive
<1>2. CASE sock = "bound" /\ datagrams' = Append(datagrams, p) /\ UNCHANGED <<cpu, overlap>>
  <2>1. Bpf!Busy' = Bpf!Busy /\ Stored' = Stored /\ Stores' = Stores
    BY <1>2 DEF Bpf!Busy, Stored, Stores
  <2>2. RunsInv'
    BY <1>2 DEF BpfInv, RunsInv
  <2>3. Counted'
    BY <1>2, <2>1 DEF BpfInv, Counted, Count
  <2>4. datagrams' \in Seq(Bpf!Packets) /\ overlap' \in BOOLEAN
    BY <1>2 DEF BpfInv, BpfTyped, Bpf!TypeOK
  <2> QED
    BY <1>2, <2>2, <2>3, <2>4
<1>3. CASE /\ sock = "filtered" /\ cpu' = [cpu EXCEPT ![c] = Bpf!Begin(p)]
           /\ overlap' = (overlap \/ Bpf!Busy # {}) /\ UNCHANGED datagrams
  <2> DEFINE n == Bpf!Begin(p)
         reg == [[x \in Bpf!Regs |-> Bpf!Unset] EXCEPT ![1] = <<"ctx", 0>>, ![10] = <<"stack", 0>>]
  <2>0. n = [pkt |-> p, at |-> 0, reg |-> reg, stack |-> Bpf!Unset]
    <3>1. n = [[[Bpf!Idle EXCEPT !.pkt = p] EXCEPT !.reg[1] = <<"ctx", 0>>]
                 EXCEPT !.reg[10] = <<"stack", 0>>]
      BY Zenon DEF Bpf!Begin
    <3> QED
      BY <3>1 DEF Bpf!Idle
  <2>1. /\ n = [pkt |-> p, at |-> 0, reg |-> n.reg, stack |-> Bpf!Unset]
        /\ n.reg[10] = <<"stack", 0>> /\ n.reg = [x \in Bpf!Regs |-> n.reg[x]]
    <3>1. reg[10] = <<"stack", 0>> /\ reg = [x \in Bpf!Regs |-> reg[x]]
      BY DEF Bpf!Regs
    <3> HIDE DEF n, reg
    <3> QED
      BY <2>0, <3>1
  <2>2. RunInv(n) /\ n.pkt = p /\ n.at = 0
    <3> HIDE DEF n
    <3>1. Shape(n) /\ n.pkt = p /\ n.at = 0
      BY <2>1 DEF Shape, Run
    <3>2. Holds(0, n.reg, n.stack)
      BY <2>1 DEF Holds
    <3> QED
      BY <3>1, <3>2 DEF RunInv
  <2>3. RunsTo(c, n)
    BY <1>3, OneRunChanges
  <2> HIDE DEF n
  <2>4. \A d \in Cpus \ {c} : cpu'[d] = cpu[d] /\ Count(d)' = Count(d)
    BY <2>3 DEF RunsTo, Count
  <2>5. cpu'[c] = n /\ n # Bpf!Idle /\ cpu'[c].at = 0 /\ cpu[c].at = 0
    BY <1>1, <2>2, <2>3, IdleOrRun DEF RunsTo
  <2>6. Bpf!Busy' = Bpf!Busy \cup {c}
    BY <2>4, <2>5 DEF Bpf!Busy
  <2>7. Stored' = Stored
    BY <2>4, <2>5 DEF Stored
  <2>8. Stores' = Stores
    BY <2>7 DEF Stores
  <2>9. RunsInv'
    BY <2>2, <2>3 DEF BpfInv, RunsInv, RunsTo
  <2>10. Counted'
    <3>1. ~overlap' => ~overlap /\ \A d, e \in Bpf!Busy' : d = e
      BY <1>3, <2>6
    <3> QED
      BY <2>4, <2>5, <2>8, <3>1 DEF BpfInv, Counted
  <2>11. datagrams' \in Seq(Bpf!Packets) /\ overlap' \in BOOLEAN
    BY <1>3 DEF BpfInv, BpfTyped, Bpf!TypeOK
  <2> QED
    BY <1>3, <2>2, <2>5, <2>6, <2>9, <2>10, <2>11
<1> QED
  BY <1>2, <1>3 DEF Bpf!Arrive

\* The demo's datagram comes in: it is the first if nobody else is on the port.
LEMMA BpfArriveOwn ==
    ASSUME BpfInv, NEW c \in Cpus, Bpf!ArriveOwn(c)
    PROVE  BpfInv'
<1> DEFINE p == [from |-> "own", len |-> Bpf!Payload]
<1>1. p \in Bpf!Packets /\ p.from = "own"
  BY DEF Bpf!Packets, Bpf!Payload
<1>2. /\ own = "flying" /\ own' = "arrived" /\ Bpf!Arrive(c, p)
      /\ UNCHANGED <<pc, sock, foreign, map, got, seen, filtered>>
  BY DEF Bpf!ArriveOwn, Bpf!main
<1> HIDE DEF p
<1>3. foreign' \in Nat
  BY <1>2 DEF BpfInv, BpfTyped
<1>4. /\ RunsInv' /\ Counted'
      /\ datagrams' \in Seq(Bpf!Packets) /\ overlap' \in BOOLEAN
      /\ sock = "filtered" => /\ Bpf!Busy' = Bpf!Busy \cup {c} /\ cpu'[c].pkt = p
                              /\ overlap' = (overlap \/ Bpf!Busy # {})
                              /\ datagrams' = datagrams
      /\ sock \in {"bound", "filtered"}
  BY <1>1, <1>2, <1>3, BpfArrive
<1>5. sock = "filtered"
  BY <1>2, <1>4 DEF BpfInv, BpfPlace, BpfTyped, Bpf!TypeOK
<1>6. BpfTyped'
  BY <1>2, <1>4, TypedRuns DEF BpfInv, BpfTyped, Bpf!TypeOK
<1>7. BpfPlace'
  BY <1>2 DEF BpfInv, BpfPlace
<1>8. Alone'
  <2> SUFFICES ASSUME foreign = 0 PROVE Alone'
    BY <1>2 DEF Alone
  <2>1. ~overlap /\ Bpf!Busy = {} /\ filtered = 0
    BY <1>2 DEF BpfInv, Alone
  <2> QED
    BY <1>1, <1>2, <1>4, <1>5, <2>1 DEF BpfInv, Alone
<1> QED
  BY <1>4, <1>6, <1>7, <1>8 DEF BpfInv

\* Somebody else's datagram comes in: from then on the demo is not alone.
LEMMA BpfArriveForeign ==
    ASSUME BpfInv, NEW c \in Cpus, Bpf!ArriveForeign(c)
    PROVE  BpfInv'
<1> DEFINE p == [from |-> "foreign", len |-> Bpf!Payload]
<1>1. p \in Bpf!Packets
  BY DEF Bpf!Packets, Bpf!Payload
<1>2. /\ foreign < MaxForeign /\ foreign' = foreign + 1 /\ Bpf!Arrive(c, p)
      /\ UNCHANGED <<pc, sock, own, map, got, seen, filtered>>
  BY DEF Bpf!ArriveForeign, Bpf!main
<1> HIDE DEF p
<1>3. foreign \in Nat /\ foreign' \in Nat /\ foreign' # 0
  BY <1>2 DEF BpfInv, BpfTyped
<1>4. /\ RunsInv' /\ Counted'
      /\ datagrams' \in Seq(Bpf!Packets) /\ overlap' \in BOOLEAN
  BY <1>1, <1>2, <1>3, BpfArrive
<1>5. foreign' \in 0..MaxForeign
  BY <1>2, <1>3, MaxForeignAssumption DEF BpfInv, BpfTyped, Bpf!TypeOK
<1>6. BpfTyped'
  BY <1>2, <1>3, <1>4, <1>5, TypedRuns DEF BpfInv, BpfTyped, Bpf!TypeOK
<1>7. BpfPlace'
  BY <1>2 DEF BpfInv, BpfPlace
<1>8. Alone'
  BY <1>3 DEF Alone
<1> QED
  BY <1>4, <1>6, <1>7, <1>8 DEF BpfInv

\* The kernel runs the filter and takes in datagrams as BpfInv says.
LEMMA BpfKernel ==
    ASSUME BpfInv, NEW c \in Cpus, Bpf!Kernel(c) \/ Bpf!ArriveForeign(c)
    PROVE  BpfInv'
BY BpfLocal, BpfLoad, BpfStore, BpfExit, BpfArriveOwn, BpfArriveForeign DEF Bpf!Kernel

\* What main() leaves alone: the runs of the filter and the counter.
LEMMA BpfAside ==
    ASSUME BpfInv, UNCHANGED <<foreign, cpu, filtered, overlap>>, map'[0] = map[0]
    PROVE  RunsInv' /\ Counted' /\ Bpf!Busy' = Bpf!Busy
<1>1. Bpf!Busy' = Bpf!Busy
  BY DEF Bpf!Busy
<1>2. Stored' = Stored
  BY DEF Stored
<1>3. Stores' = Stores
  BY <1>2 DEF Stores
<1>4. RunsInv'
  BY DEF BpfInv, RunsInv
<1>5. \A c \in Cpus : Count(c)' = Count(c)
  BY DEF Count
<1>6. Counted'
  BY <1>1, <1>3, <1>5 DEF BpfInv, Counted
<1> QED
  BY <1>1, <1>4, <1>6

\* exit(1) takes the queue away.
LEMMA BpfFails ==
    ASSUME BpfInv, Bpf!Fails, UNCHANGED <<foreign, map, cpu, filtered, overlap>>
    PROVE  BpfInv'
<1>1. RunsInv' /\ Counted' /\ Bpf!Busy' = Bpf!Busy
  BY BpfAside
<1>2. pc' = "failed" /\ sock' = "none" /\ datagrams' = <<>> /\ UNCHANGED <<own, got, seen>>
  BY DEF Bpf!Fails
<1>3. BpfTyped'
  BY <1>1, <1>2, TypedRuns DEF BpfInv, BpfTyped, Bpf!TypeOK
<1>4. BpfPlace'
  BY <1>2 DEF BpfPlace
<1>5. Alone'
  BY <1>1, <1>2 DEF BpfInv, Alone
<1> QED
  BY <1>1, <1>3, <1>4, <1>5 DEF BpfInv

\* The steps of main() up to the datagram.
LEMMA BpfSetup ==
    ASSUME BpfInv, Bpf!CreateMap \/ Bpf!Bind \/ Bpf!Attach \/ Bpf!Send
    PROVE  BpfInv'
<1>1. UNCHANGED <<foreign, map, cpu, filtered, overlap>>
  BY DEF Bpf!CreateMap, Bpf!Bind, Bpf!Attach, Bpf!Send, Bpf!history
<1>2. CASE Bpf!Fails
  BY <1>1, <1>2, BpfFails
<1>3. CASE ~Bpf!Fails
  <2>1. /\ pc \in {"create", "bind", "attach", "send"}
        /\ UNCHANGED <<datagrams, got, seen>>
        /\ \/ pc = "create" /\ pc' = "bind" /\ UNCHANGED <<sock, own>>
           \/ pc = "bind" /\ pc' = "attach" /\ sock' = "bound" /\ UNCHANGED own
           \/ pc = "attach" /\ pc' = "send" /\ sock' = "filtered" /\ UNCHANGED own
           \/ pc = "send" /\ pc' = "recv" /\ own' = "flying" /\ UNCHANGED sock
    BY <1>3 DEF Bpf!CreateMap, Bpf!Bind, Bpf!Attach, Bpf!Send
  <2>2. RunsInv' /\ Counted' /\ Bpf!Busy' = Bpf!Busy
    BY <1>1, BpfAside
  <2>3. BpfTyped'
    BY <1>1, <2>1, <2>2, TypedRuns DEF BpfInv, BpfTyped, Bpf!TypeOK
  <2>4. BpfPlace'
    BY <2>1 DEF BpfInv, BpfPlace
  <2>5. Alone'
    BY <1>1, <2>1, <2>2 DEF BpfInv, BpfPlace, Alone
  <2> QED
    BY <2>2, <2>3, <2>4, <2>5 DEF BpfInv
<1> QED
  BY <1>2, <1>3

\* A recv() that fails is another exit(1).
LEMMA BpfRecvFails ==
    ASSUME BpfInv, Bpf!RecvFails
    PROVE  BpfInv'
  BY BpfFails DEF Bpf!RecvFails, Bpf!history

\* recv(): alone, the datagram it takes is the demo's.
LEMMA BpfRecv ==
    ASSUME BpfInv, Bpf!Recv
    PROVE  BpfInv'
<1>1. /\ pc = "recv" /\ datagrams # <<>> /\ pc' = "update"
      /\ got' = Head(datagrams) /\ datagrams' = Tail(datagrams)
      /\ UNCHANGED <<seen, sock, own, foreign, map, cpu, filtered, overlap>>
  BY DEF Bpf!Recv, Bpf!history
<1>2. RunsInv' /\ Counted' /\ Bpf!Busy' = Bpf!Busy
  BY <1>1, BpfAside
<1>3. datagrams \in Seq(Bpf!Packets)
  BY DEF BpfInv, BpfTyped, Bpf!TypeOK
<1>4. /\ got' = datagrams[1] /\ 1 \in DOMAIN datagrams /\ got' \in Bpf!Packets
      /\ datagrams' \in Seq(Bpf!Packets)
      /\ \A k \in DOMAIN datagrams' : k + 1 \in DOMAIN datagrams
                                      /\ datagrams'[k] = datagrams[k + 1]
  BY <1>1, <1>3, HeadTailProperties
<1>5. BpfTyped'
  BY <1>1, <1>2, <1>4, TypedRuns DEF BpfInv, BpfTyped, Bpf!TypeOK
<1>6. BpfPlace'
  BY <1>1 DEF BpfInv, BpfPlace
<1>7. Alone'
  BY <1>1, <1>2, <1>4 DEF BpfInv, Alone
<1> QED
  BY <1>2, <1>5, <1>6, <1>7 DEF BpfInv

\* map_update: the other slot of the map.
LEMMA BpfUpdate ==
    ASSUME BpfInv, Bpf!MapUpdate
    PROVE  BpfInv'
<1>1. UNCHANGED <<foreign, cpu, filtered, overlap>>
  BY DEF Bpf!MapUpdate, Bpf!history
<1>2. CASE Bpf!Fails /\ UNCHANGED map
  BY <1>1, <1>2, BpfFails
<1>3. CASE /\ map' = [map EXCEPT ![1] = 42] /\ pc' = "lookup0"
           /\ UNCHANGED <<got, seen, sock, own, datagrams>>
  <2>1. map \in [0..7 -> Nat] /\ pc = "update"
    BY DEF BpfInv, BpfTyped, Bpf!TypeOK, Bpf!MaxEntries, Bpf!MapUpdate
  <2>2. map' \in [0..7 -> Nat] /\ map'[0] = map[0] /\ map'[1] = 42
    BY <1>3, <2>1
  <2>3. RunsInv' /\ Counted' /\ Bpf!Busy' = Bpf!Busy
    BY <1>1, <2>2, BpfAside
  <2>4. map' \in [0..Bpf!MaxEntries - 1 -> Nat]
    BY <2>2 DEF Bpf!MaxEntries
  <2>5. BpfTyped'
    BY <1>1, <1>3, <2>3, <2>4, TypedRuns DEF BpfInv, BpfTyped, Bpf!TypeOK
  <2>6. BpfPlace'
    BY <1>3, <2>1, <2>2 DEF BpfInv, BpfPlace
  <2>7. Alone'
    BY <1>1, <1>3, <2>1, <2>3 DEF BpfInv, Alone
  <2> QED
    BY <2>3, <2>5, <2>6, <2>7 DEF BpfInv
<1> QED
  BY <1>2, <1>3 DEF Bpf!MapUpdate

\* The two lookups: alone, the counter says one.
LEMMA BpfLookups ==
    ASSUME BpfInv, Bpf!LookupCounter \/ Bpf!LookupUser
    PROVE  BpfInv'
<1>1. UNCHANGED <<foreign, map, cpu, filtered, overlap>>
  BY DEF Bpf!LookupCounter, Bpf!LookupUser, Bpf!history
<1>2. CASE Bpf!Fails
  BY <1>1, <1>2, BpfFails
<1>3. CASE ~Bpf!Fails
  <2>1. UNCHANGED <<got, own>>
    BY <1>3 DEF Bpf!LookupCounter, Bpf!LookupUser
  <2>2. \/ /\ pc = "lookup0" /\ pc' = "lookup1" /\ seen' = [seen EXCEPT ![0] = map[0]]
           /\ UNCHANGED <<sock, datagrams>>
        \/ /\ pc = "lookup1" /\ pc' = "done" /\ seen' = [seen EXCEPT ![1] = map[1]]
           /\ sock' = "none" /\ datagrams' = <<>>
    BY <1>3 DEF Bpf!LookupCounter, Bpf!LookupUser
  <2>3. RunsInv' /\ Counted' /\ Bpf!Busy' = Bpf!Busy
    BY <1>1, BpfAside
  <2>4. map[0] \in Nat /\ map[1] \in Nat /\ seen \in [{0, 1} -> Nat]
    BY DEF BpfInv, BpfTyped, Bpf!TypeOK, Bpf!MaxEntries
  <2>5. /\ seen' \in [{0, 1} -> Nat]
        /\ pc = "lookup0" => seen'[0] = map[0]
        /\ pc = "lookup1" => seen'[0] = seen[0] /\ seen'[1] = map[1]
    BY <2>2, <2>4
  <2>6. BpfTyped'
    <3>1. /\ pc' \in {"lookup1", "done"} /\ sock' \in {"none", "bound", "filtered"}
          /\ datagrams' \in Seq(Bpf!Packets)
      <4>1. datagrams \in Seq(Bpf!Packets) /\ sock \in {"none", "bound", "filtered"}
        BY DEF BpfInv, BpfTyped, Bpf!TypeOK
      <4>2. datagrams' \in Seq(Bpf!Packets)
        <5>1. datagrams' = datagrams \/ datagrams' = <<>>
          BY <2>2
        <5>2. <<>> \in Seq(Bpf!Packets)
          BY EmptySeq
        <5> QED
          BY <4>1, <5>1, <5>2
      <4> QED
        BY <2>2, <4>1, <4>2
    <3> QED
      BY <1>1, <2>1, <2>3, <2>5, <3>1, TypedRuns DEF BpfInv, BpfTyped, Bpf!TypeOK
  <2>7. BpfPlace'
    BY <1>1, <2>1, <2>2, <2>5 DEF BpfInv, BpfPlace
  <2>8. Alone'
    <3> SUFFICES ASSUME foreign = 0 PROVE Alone'
      BY <1>1 DEF Alone
    <3>1. /\ ~overlap /\ got.from = "own" /\ filtered = 1 /\ Bpf!Busy = {} /\ own = "arrived"
          /\ \A k \in DOMAIN datagrams : datagrams[k].from = "own"
          /\ pc = "lookup1" => seen[0] = 1
      BY <2>2 DEF BpfInv, BpfTyped, Bpf!TypeOK, Alone
    <3>2. map[0] = 1
      <4>1. Stored = {}
        BY <3>1, BusyRuns
      <4>2. Stores = 1
        BY <3>1, <4>1, FS_EmptySet DEF Stores
      <4> QED
        BY <3>1, <4>2 DEF BpfInv, Counted
    <3>3. pc' \in {"lookup1", "done"} /\ seen'[0] = 1
      BY <2>2, <2>5, <3>1, <3>2
    <3> QED
      BY <1>1, <2>1, <2>2, <2>3, <3>1, <3>3 DEF Alone
  <2> QED
    BY <2>3, <2>6, <2>7, <2>8 DEF BpfInv
<1> QED
  BY <1>2, <1>3

\* BpfInv holds at the start.
LEMMA BpfInit == Bpf!Init => BpfInv
<1> SUFFICES ASSUME Bpf!Init PROVE BpfInv
  OBVIOUS
<1> USE DEF Bpf!Init
<1>1. cpu = [c \in Cpus |-> Bpf!Idle] /\ \A c \in Cpus : cpu[c] = Bpf!Idle
  OBVIOUS
<1>2. Bpf!Busy = {}
  BY <1>1 DEF Bpf!Busy
<1>3. RunsInv
  BY <1>1 DEF RunsInv
<1>4. Stored = {} /\ \A c \in Cpus : cpu[c].at = 0
  BY <1>1, IdleOrRun DEF Stored
<1>5. Stores = 0
  BY <1>4, FS_EmptySet DEF Stores
<1>6. map \in [0..Bpf!MaxEntries - 1 -> Nat] /\ map[0] = 0
  BY DEF Bpf!MaxEntries
<1>7. \A c \in Cpus : cpu[c].at \in 0..Len(Bpf!Prog) - 1 /\ DOMAIN cpu[c].reg = Bpf!Regs
  BY <1>1, ProgInsns DEF Bpf!Idle
<1>8. datagrams \in Seq(Bpf!Packets) /\ seen \in [{0, 1} -> Nat]
  OBVIOUS
<1>9. BpfTyped
  <2>1. foreign \in 0..MaxForeign /\ foreign \in Nat /\ filtered \in Nat /\ overlap \in BOOLEAN
    BY MaxForeignAssumption
  <2> QED
    BY <1>6, <1>7, <1>8, <2>1 DEF BpfTyped, Bpf!TypeOK
<1>10. Counted
  BY <1>2, <1>4, <1>5, <1>6 DEF Counted
<1>11. BpfPlace /\ Alone
  BY <1>2 DEF BpfPlace, Alone
<1> QED
  BY <1>3, <1>9, <1>10, <1>11 DEF BpfInv

\* The invariant of bpf_syscall_demo, for any number of CPUs and other datagrams.
THEOREM BpfInvariant == Bpf!Spec => []BpfInv
<1>1. ASSUME BpfInv, [Bpf!Next]_(Bpf!vars)
      PROVE  BpfInv'
  <2>1. CASE Bpf!Next
    BY <1>1, <2>1, BpfKernel, BpfSetup, BpfRecv, BpfRecvFails, BpfUpdate, BpfLookups
    DEF Bpf!Next, Bpf!Main
  <2>2. CASE UNCHANGED Bpf!vars
    <3>1. UNCHANGED <<pc, got, seen, sock, own, foreign, datagrams, map, cpu, filtered, overlap>>
      BY <2>2 DEF Bpf!vars, Bpf!main, Bpf!wire, Bpf!history
    <3>2. RunsInv' /\ Counted' /\ Bpf!Busy' = Bpf!Busy
      BY <1>1, <3>1, BpfAside
    <3>3. BpfTyped'
      BY <1>1, <3>1, <3>2, TypedRuns DEF BpfInv, BpfTyped, Bpf!TypeOK
    <3>4. BpfPlace' /\ Alone'
      BY <1>1, <3>1, <3>2 DEF BpfInv, BpfPlace, Alone
    <3> QED
      BY <3>2, <3>3, <3>4 DEF BpfInv
  <2> QED
    BY <1>1, <2>1, <2>2
<1> QED
  BY <1>1, BpfInit, PTL DEF Bpf!Spec

\* Every variable of bpf_syscall_demo stays in its set.
THEOREM BpfTypeCorrect == Bpf!Spec => []Bpf!TypeOK
<1>1. BpfInv => Bpf!TypeOK
  BY DEF BpfInv, BpfTyped
<1> QED
  BY <1>1, BpfInvariant, PTL

(***************************************************************************)
(* Between runs of the filter the counter is the number of runs if no two  *)
(* of them overlapped, and else something from 1 to it; map[1] holds 42 at *)
(* the end, and a demo alone on the port reads 1 and its own datagram.     *)
(***************************************************************************)
THEOREM BpfCounterBounds == Bpf!Spec => []CounterBounds
<1>1. ASSUME BpfInv
      PROVE  CounterBounds
  <2>1. ASSUME Bpf!Busy = {}
        PROVE  Stores = filtered
    <3>1. Stored = {}
      BY <1>1, <2>1, BusyRuns
    <3>2. filtered \in Nat
      BY <1>1 DEF BpfInv, BpfTyped
    <3> QED
      BY <3>1, <3>2, FS_EmptySet DEF Stores
  <2>2. Bpf!Busy = {} => /\ map[0] <= filtered
                         /\ filtered > 0 => map[0] > 0
                         /\ ~overlap => map[0] = filtered
    BY <1>1, <2>1 DEF BpfInv, Counted
  <2>3. pc = "done" => /\ seen[1] = 42
                       /\ foreign = 0 => got.from = "own" /\ seen[0] = 1
    BY <1>1 DEF BpfInv, BpfPlace, Alone
  <2> QED
    BY <2>2, <2>3 DEF CounterBounds, Bpf!CounterBounds
<1> QED
  BY <1>1, BpfInvariant, PTL
-----------------------------------------------------------------------------
(***************************************************************************)
(* inotify_demo. Before each step of child_work: the names in the          *)
(* directory, and how many of the events of the whole work are queued.     *)
(***************************************************************************)
FilesBefore ==
    <<{}, {"file1"}, {"file1"}, {"file1"}, {"file1"}, {"file1"}, {"file1"},
      {"file2"}, {"file2"}, {"file2", "tmp_secret"}, {"file2", "tmp_secret"},
      {"file2", "tmp_secret"}, {"file2", "secret"}, {"file2", "secret"}, {"secret"}, {}>>

EventsBefore(s) == IF s <= 4 THEN s - 1 ELSE s - 2

AllEvents ==
    <<Inotify!Event("CREATE", "file1", 0), Inotify!Event("MODIFY", "file1", 0),
      Inotify!Event("CLOSE_WRITE", "file1", 0), Inotify!Event("MODIFY", "file1", 0),
      Inotify!Event("CLOSE_WRITE", "file1", 0), Inotify!Event("MOVED_FROM", "file1", 1),
      Inotify!Event("MOVED_TO", "file2", 1), Inotify!Event("CREATE", "tmp_secret", 0),
      Inotify!Event("MODIFY", "tmp_secret", 0), Inotify!Event("CLOSE_WRITE", "tmp_secret", 0),
      Inotify!Event("MOVED_FROM", "tmp_secret", 2), Inotify!Event("MOVED_TO", "secret", 2),
      Inotify!Event("DELETE", "file2", 0), Inotify!Event("DELETE", "secret", 0)>>

\* What was queued is what was printed and then what waits to be read.
InoFlow == emitted = printed \o queue

\* Unless it failed, the child has done the steps before this one and no other.
InoWork ==
    ~failed =>
        /\ files = FilesBefore[step]
        /\ Len(emitted) = EventsBefore(step)
        /\ \A k \in 1..Len(emitted) : emitted[k] = AllEvents[k]

\* What is bound to the places of the parent.
InoPlace ==
    /\ ppc = "setup" => child = "none"
    /\ child = "none" => step = 1 /\ queue = <<>>
    /\ ppc \in {"poll", "check", "read"} =>
        child \in {"running", "zombie"} \/ (nochld /\ child = "reaped")
    /\ ppc = "reap" => child # "none"
    /\ ppc = "drain" => child = "reaped"
    /\ ppc \in {"cleanup", "over"} => child = IF code = 0 THEN "reaped" ELSE "none"
    /\ ppc \in {"cleanup", "over"} /\ ~broke => queue = <<>>
    /\ ppc = "reap" => broke
    /\ ppc # "over" => code = 0
    /\ ppc = "over" /\ code = 0 => dir = (files # {})
    /\ child \in {"zombie", "reaped"} /\ ~failed => step = 16

InoInv == Inotify!TypeOK /\ InoFlow /\ InoWork /\ InoPlace

-----------------------------------------------------------------------------
\* A step puts one set of names into the directory, takes another out, leaves one
\* file open and queues one sequence of events.
IsStep(s, new, old, fd, evs) ==
    /\ Inotify!child_work[s].new = new /\ Inotify!child_work[s].old = old
    /\ Inotify!child_work[s].fd = fd /\ Inotify!child_work[s].evs = evs

\* The steps of child_work, one by one.
LEMMA StepList ==
    /\ Len(Inotify!child_work) = 15
    /\ IsStep(1, {"file1"}, {}, "file1", <<Inotify!Event("CREATE", "file1", 0)>>)
    /\ IsStep(2, {}, {}, "file1", <<Inotify!Event("MODIFY", "file1", 0)>>)
    /\ IsStep(3, {}, {}, "none", <<Inotify!Event("CLOSE_WRITE", "file1", 0)>>)
    /\ IsStep(4, {}, {}, "file1", <<>>)
    /\ IsStep(5, {}, {}, "file1", <<Inotify!Event("MODIFY", "file1", 0)>>)
    /\ IsStep(6, {}, {}, "none", <<Inotify!Event("CLOSE_WRITE", "file1", 0)>>)
    /\ IsStep(7, {"file2"}, {"file1"}, "none", <<Inotify!Event("MOVED_FROM", "file1", 1)>>)
    /\ IsStep(8, {}, {}, "none", <<Inotify!Event("MOVED_TO", "file2", 1)>>)
    /\ IsStep(9, {"tmp_secret"}, {}, "tmp_secret", <<Inotify!Event("CREATE", "tmp_secret", 0)>>)
    /\ IsStep(10, {}, {}, "tmp_secret", <<Inotify!Event("MODIFY", "tmp_secret", 0)>>)
    /\ IsStep(11, {}, {}, "none", <<Inotify!Event("CLOSE_WRITE", "tmp_secret", 0)>>)
    /\ IsStep(12, {"secret"}, {"tmp_secret"}, "none",
               <<Inotify!Event("MOVED_FROM", "tmp_secret", 2)>>)
    /\ IsStep(13, {}, {}, "none", <<Inotify!Event("MOVED_TO", "secret", 2)>>)
    /\ IsStep(14, {}, {"file2"}, "none", <<Inotify!Event("DELETE", "file2", 0)>>)
    /\ IsStep(15, {}, {"secret"}, "none", <<Inotify!Event("DELETE", "secret", 0)>>)
BY DEF IsStep, Inotify!child_work, Inotify!Op, Inotify!Create, Inotify!OpenAppend, Inotify!Write,
       Inotify!Close, Inotify!MovedFrom, Inotify!MovedTo, Inotify!Unlink

\* The files and the events before the step after s, from those before s.
Follows(s) ==
    /\ Inotify!child_work[s].evs =
        IF s = 4 THEN <<>> ELSE <<AllEvents[EventsBefore(s) + 1]>>
    /\ FilesBefore[s + 1] =
        (FilesBefore[s] \cup Inotify!child_work[s].new) \ Inotify!child_work[s].old
    /\ Inotify!child_work[s].fd \in Inotify!Names \cup {"none"}
    /\ Inotify!child_work[s].new \subseteq Inotify!Names

\* The two tables fit child_work.
LEMMA WorkFollows == \A s \in 1..15 : Follows(s)
<1> USE StepList DEF IsStep, Follows, EventsBefore, FilesBefore, AllEvents, Inotify!Names
<1>1. Follows(1)
  OBVIOUS
<1>2. Follows(2)
  OBVIOUS
<1>3. Follows(3)
  OBVIOUS
<1>4. Follows(4)
  OBVIOUS
<1>5. Follows(5)
  OBVIOUS
<1>6. Follows(6)
  OBVIOUS
<1>7. Follows(7)
  OBVIOUS
<1>8. Follows(8)
  OBVIOUS
<1>9. Follows(9)
  OBVIOUS
<1>10. Follows(10)
  OBVIOUS
<1>11. Follows(11)
  OBVIOUS
<1>12. Follows(12)
  OBVIOUS
<1>13. Follows(13)
  OBVIOUS
<1>14. Follows(14)
  OBVIOUS
<1>15. Follows(15)
  OBVIOUS
<1> HIDE StepList DEF IsStep, Follows
<1> QED
  BY <1>1, <1>2, <1>3, <1>4, <1>5, <1>6, <1>7, <1>8, <1>9, <1>10, <1>11, <1>12, <1>13, <1>14, <1>15

\* An event of the kernel's is one if it names a file.
LEMMA EventTyped ==
    ASSUME NEW m \in {"CREATE", "MODIFY", "CLOSE_WRITE", "MOVED_FROM", "MOVED_TO", "DELETE"},
           NEW f \in Inotify!Names, NEW c \in 0..2
    PROVE  Inotify!Event(m, f, c) \in Inotify!Events
BY DEF Inotify!Event, Inotify!Events

\* The events of the whole work are events.
LEMMA AllEventsTyped ==
    /\ AllEvents \in Seq(Inotify!Events) /\ Len(AllEvents) = 14
    /\ \A k \in 1..14 : AllEvents[k] \in Inotify!Events
<1>1. \A k \in 1..14 : AllEvents[k] \in Inotify!Events
  BY EventTyped DEF AllEvents, Inotify!Names
<1>2. Len(AllEvents) = 14 /\ AllEvents = [k \in 1..14 |-> AllEvents[k]]
  BY DEF AllEvents
<1> HIDE DEF AllEvents
<1> QED
  BY <1>1, <1>2, IsASeq

\* The parts of TypeOK, one by one.
LEMMA InoTyped ==
    ASSUME InoInv
    PROVE  /\ printed \in Seq(Inotify!Events) /\ emitted \in Seq(Inotify!Events)
           /\ queue \in Seq(Inotify!Events)
           /\ step \in 1..16 /\ files \subseteq Inotify!Names
           /\ open \in Inotify!Names \cup {"none"} /\ code \in {0, 1}
           /\ child \in {"none", "running", "zombie", "reaped"}
           /\ ppc \in {"setup", "poll", "check", "read", "drain", "reap", "cleanup", "over"}
           /\ broke \in BOOLEAN /\ failed \in BOOLEAN /\ dir \in BOOLEAN /\ nochld \in BOOLEAN
BY StepList DEF InoInv, Inotify!TypeOK

\* TypeOK from its parts.
LEMMA InoTypes ==
    ASSUME printed' \in Seq(Inotify!Events), emitted' \in Seq(Inotify!Events),
           queue' \in Seq(Inotify!Events),
           step' \in 1..16, files' \subseteq Inotify!Names,
           open' \in Inotify!Names \cup {"none"}, code' \in {0, 1},
           child' \in {"none", "running", "zombie", "reaped"},
           ppc' \in {"setup", "poll", "check", "read", "drain", "reap", "cleanup", "over"},
           broke' \in BOOLEAN, failed' \in BOOLEAN, dir' \in BOOLEAN, nochld' \in BOOLEAN
    PROVE  Inotify!TypeOK'
BY StepList DEF Inotify!TypeOK

\* Emitting keeps the flow of the events.
LEMMA EmitKeepsFlow ==
    ASSUME InoInv, NEW evs \in Seq(Inotify!Events), Inotify!Emit(evs), UNCHANGED printed
    PROVE  /\ InoFlow'
           /\ emitted' \in Seq(Inotify!Events) /\ queue' \in Seq(Inotify!Events)
<1>1. emitted' = emitted \o evs /\ queue' = queue \o evs
  BY DEF Inotify!Emit
<1>2. /\ printed \in Seq(Inotify!Events) /\ emitted \in Seq(Inotify!Events)
      /\ queue \in Seq(Inotify!Events)
  BY InoTyped
<1>3. emitted' = printed \o (queue \o evs)
  <2>1. (printed \o queue) \o evs = printed \o (queue \o evs)
    BY SMTT(20), <1>2, ConcatAssociative
  <2>2. emitted = printed \o queue
    BY DEF InoInv, InoFlow
  <2> QED
    BY <1>1, <2>1, <2>2, Zenon
<1>4. emitted \o evs \in Seq(Inotify!Events) /\ queue \o evs \in Seq(Inotify!Events)
  BY <1>2, ConcatProperties
<1> QED
  BY <1>1, <1>3, <1>4 DEF InoFlow

\* A step of child_work.
LEMMA InoChildStep ==
    ASSUME InoInv, Inotify!ChildStep, UNCHANGED <<nochld, Inotify!parent>>
    PROVE  InoInv'
<1> DEFINE o == Inotify!child_work[step]
<1>1. /\ child = "running" /\ step \in 1..15
      /\ files' = (files \cup o.new) \ o.old /\ open' = o.fd
      /\ Inotify!Emit(o.evs) /\ step' = step + 1
      /\ UNCHANGED <<child, failed, dir, ppc, code, broke, printed>>
  BY InoTyped, StepList DEF Inotify!ChildStep, Inotify!parent
<1>2. Follows(step)
  BY <1>1, WorkFollows
<1>3. CASE step = 4
  <2>1. o.evs = <<>>
    BY <1>2, <1>3 DEF Follows
  <2>2. emitted' = emitted /\ queue' = queue
    BY <1>1, <2>1, InoTyped, ConcatEmptySeq DEF Inotify!Emit
  <2>3. InoFlow' /\ emitted' \in Seq(Inotify!Events) /\ queue' \in Seq(Inotify!Events)
    BY <1>1, <2>2, InoTyped DEF InoInv, InoFlow
  <2>4. InoWork'
    <3> SUFFICES ASSUME ~failed PROVE InoWork'
      BY <1>1 DEF InoWork
    <3>1. files' = FilesBefore[step']
      BY <1>1, <1>2 DEF InoInv, InoWork, Follows
    <3>2. EventsBefore(step') = EventsBefore(step)
      BY <1>1, <1>3 DEF EventsBefore
    <3> QED
      BY <2>2, <3>1, <3>2 DEF InoInv, InoWork
  <2> QED
    BY <2>3, <2>4, <1>1, <1>2, InoTypes, InoTyped DEF Follows, InoInv, InoPlace
<1>4. CASE step # 4
  <2> DEFINE e == AllEvents[EventsBefore(step) + 1]
  <2>1. o.evs = <<e>> /\ e \in Inotify!Events /\ EventsBefore(step) \in 0..13
    <3>1. EventsBefore(step) \in 0..13
      BY <1>1, <1>4 DEF EventsBefore
    <3>2. \A k \in 1..14 : AllEvents[k] \in Inotify!Events
      BY AllEventsTyped
    <3> QED
      BY <1>2, <1>4, <3>1, <3>2 DEF Follows
  <2> HIDE DEF e, o
  <2>2. <<e>> \in Seq(Inotify!Events)
    BY <2>1
  <2>3. InoFlow' /\ emitted' \in Seq(Inotify!Events) /\ queue' \in Seq(Inotify!Events)
    BY <1>1, <2>1, <2>2, EmitKeepsFlow
  <2>4. InoWork'
    <3> SUFFICES ASSUME ~failed PROVE InoWork'
      BY <1>1 DEF InoWork
    <3>1. files' = FilesBefore[step']
      BY <1>1, <1>2 DEF InoInv, InoWork, Follows, o
    <3>2. EventsBefore(step') = EventsBefore(step) + 1
      BY <1>1, <1>4 DEF EventsBefore
    <3>3. emitted' = emitted \o <<e>>
      BY <1>1, <2>1 DEF Inotify!Emit
    <3>4. /\ emitted \in Seq(Inotify!Events) /\ Len(emitted) = EventsBefore(step)
          /\ \A k \in 1..Len(emitted) : emitted[k] = AllEvents[k]
      BY InoTyped DEF InoInv, InoWork
    <3>5. /\ Len(emitted') = Len(emitted) + 1
          /\ \A k \in 1..Len(emitted) : emitted'[k] = emitted[k]
          /\ emitted'[Len(emitted) + 1] = e
      BY <2>2, <3>3, <3>4, ConcatProperties
    <3>6. \A k \in 1..Len(emitted') : emitted'[k] = AllEvents[k]
      <4>1. SUFFICES ASSUME NEW k \in 1..Len(emitted') PROVE emitted'[k] = AllEvents[k]
        OBVIOUS
      <4>2. CASE k = Len(emitted) + 1
        BY <3>4, <3>5, <4>2 DEF e
      <4>3. CASE k \in 1..Len(emitted)
        BY <3>4, <3>5, <4>3
      <4> QED
        BY <2>1, <3>4, <3>5, <4>2, <4>3
    <3> QED
      BY <2>1, <3>1, <3>2, <3>4, <3>5, <3>6 DEF InoWork
  <2>5. files' \subseteq Inotify!Names /\ open' \in Inotify!Names \cup {"none"}
    BY <1>1, <1>2, InoTyped DEF Follows, o
  <2>6. Inotify!TypeOK'
    BY <1>1, <2>3, <2>5, InoTypes, InoTyped
  <2>7. InoPlace'
    BY <1>1 DEF InoInv, InoPlace
  <2> QED
    BY <2>3, <2>4, <2>6, <2>7 DEF InoInv
<1> QED
  BY <1>3, <1>4

\* The child ends, with exit(0) or otherwise.
LEMMA InoChildEnds ==
    ASSUME InoInv, Inotify!ChildExit \/ Inotify!ChildFails,
           UNCHANGED <<nochld, Inotify!parent>>
    PROVE  InoInv'
<1>1. UNCHANGED <<ppc, code, broke, printed>>
  BY DEF Inotify!parent
<1>2. CASE Inotify!ChildExit
  <2>1. /\ child = "running" /\ step = 16 /\ child' = IF nochld THEN "reaped" ELSE "zombie"
        /\ UNCHANGED <<step, failed, open, files, dir, emitted, queue>>
    BY <1>2, InoTyped, StepList
    DEF Inotify!ChildExit, Inotify!Ended, Inotify!disk, Inotify!events
  <2>2. Inotify!TypeOK'
    BY <1>1, <2>1, InoTypes, InoTyped
  <2>3. InoFlow' /\ InoWork'
    BY <1>1, <2>1 DEF InoInv, InoFlow, InoWork
  <2>4. InoPlace'
    BY <1>1, <2>1 DEF InoInv, InoPlace
  <2> QED
    BY <2>2, <2>3, <2>4 DEF InoInv
<1>3. CASE Inotify!ChildFails
  <2> DEFINE evs == IF open = "none" THEN <<>> ELSE <<Inotify!Event("CLOSE_WRITE", open, 0)>>
  <2>1. /\ child = "running" /\ child' = IF nochld THEN "reaped" ELSE "zombie"
        /\ failed' = TRUE /\ open' = "none"
        /\ Inotify!Emit(evs) /\ UNCHANGED <<step, files, dir>>
    BY <1>3 DEF Inotify!ChildFails, Inotify!Ended, Inotify!disk
  <2>2. evs \in Seq(Inotify!Events)
    <3>1. CASE open = "none"
      BY <3>1, EmptySeq
    <3>2. CASE open # "none"
      <4>1. Inotify!Event("CLOSE_WRITE", open, 0) \in Inotify!Events
        BY <3>2, InoTyped, EventTyped
      <4> QED
        BY <3>2, <4>1
    <3> QED
      BY <3>1, <3>2
  <2> HIDE DEF evs
  <2>3. InoFlow' /\ emitted' \in Seq(Inotify!Events) /\ queue' \in Seq(Inotify!Events)
    BY <1>1, <2>1, <2>2, EmitKeepsFlow
  <2>4. Inotify!TypeOK'
    BY <1>1, <2>1, <2>3, InoTypes, InoTyped
  <2>5. InoWork' /\ InoPlace'
    BY <1>1, <2>1 DEF InoInv, InoWork, InoPlace
  <2> QED
    BY <2>3, <2>4, <2>5 DEF InoInv
<1> QED
  BY <1>2, <1>3

\* What the parent reads leaves the queue and is printed.
LEMMA TakeKeepsFlow ==
    ASSUME InoInv, Inotify!TakeEvents
    PROVE  /\ InoFlow' /\ queue' = <<>>
           /\ printed' \in Seq(Inotify!Events) /\ UNCHANGED emitted
<1>1. printed' = printed \o queue /\ queue' = <<>> /\ emitted' = emitted
  BY DEF Inotify!TakeEvents
<1>2. printed \in Seq(Inotify!Events) /\ queue \in Seq(Inotify!Events)
  BY InoTyped
<1>3. printed \o queue \in Seq(Inotify!Events)
  BY <1>2, ConcatProperties
<1>4. printed' \o <<>> = printed'
  BY <1>1, <1>3, ConcatEmptySeq
<1> QED
  BY <1>1, <1>3, <1>4 DEF InoInv, InoFlow

\* A step of the parent that leaves the child's work alone.
LEMMA InoParentAside ==
    ASSUME InoInv, UNCHANGED <<nochld, step, failed, open, files, emitted>>,
           InoFlow', InoPlace', printed' \in Seq(Inotify!Events), queue' \in Seq(Inotify!Events),
           child' \in {"none", "running", "zombie", "reaped"}, code' \in {0, 1},
           ppc' \in {"setup", "poll", "check", "read", "drain", "reap", "cleanup", "over"},
           broke' \in BOOLEAN, dir' \in BOOLEAN
    PROVE  InoInv'
<1>1. Inotify!TypeOK'
  BY InoTypes, InoTyped
<1>2. InoWork'
  BY DEF InoInv, InoWork
<1> QED
  BY <1>1, <1>2 DEF InoInv

\* The parent's steps that read no event.
LEMMA InoWaits ==
    ASSUME InoInv, UNCHANGED nochld,
                   \/ Inotify!Setup \/ Inotify!Poll \/ Inotify!CheckChild
                   \/ Inotify!Reap \/ Inotify!Cleanup
    PROVE  InoInv'
<1> USE DEF Inotify!worker, Inotify!disk, Inotify!events
<1>1. UNCHANGED <<step, failed, open, files, emitted, printed, queue>>
  BY DEF Inotify!Setup, Inotify!Poll, Inotify!CheckChild, Inotify!Reap, Inotify!Cleanup
<1>2. InoFlow' /\ printed' \in Seq(Inotify!Events) /\ queue' \in Seq(Inotify!Events)
  BY <1>1, InoTyped DEF InoInv, InoFlow
<1>3. /\ child' \in {"none", "running", "zombie", "reaped"} /\ code' \in {0, 1}
      /\ ppc' \in {"setup", "poll", "check", "read", "drain", "reap", "cleanup", "over"}
      /\ broke' \in BOOLEAN /\ dir' \in BOOLEAN
  BY InoTyped DEF Inotify!Setup, Inotify!Poll, Inotify!CheckChild, Inotify!Reap, Inotify!Cleanup
<1>4. InoPlace'
  <2>1. CASE Inotify!Setup
    BY <1>1, <2>1, InoTyped DEF Inotify!Setup, InoInv, InoPlace
  <2>2. CASE Inotify!Poll
    BY <1>1, <2>2, InoTyped DEF Inotify!Poll, InoInv, InoPlace
  <2>3. CASE Inotify!CheckChild
    BY <1>1, <2>3, InoTyped DEF Inotify!CheckChild, InoInv, InoPlace
  <2>4. CASE Inotify!Reap
    BY <1>1, <2>4, InoTyped DEF Inotify!Reap, InoInv, InoPlace
  <2>5. CASE Inotify!Cleanup
    BY <1>1, <2>5, InoTyped DEF Inotify!Cleanup, InoInv, InoPlace
  <2> QED
    BY <2>1, <2>2, <2>3, <2>4, <2>5
<1> QED
  BY <1>1, <1>2, <1>3, <1>4, InoParentAside

\* The parent's steps that read events, if read() does not fail.
LEMMA InoReads ==
    ASSUME InoInv, UNCHANGED nochld, Inotify!ReadEvents \/ Inotify!Drain
    PROVE  InoInv'
<1> USE DEF Inotify!worker, Inotify!disk, Inotify!events
<1>1. UNCHANGED <<step, failed, open, files, child, dir, code>>
  BY DEF Inotify!ReadEvents, Inotify!Drain
<1>2. CASE /\ Inotify!TakeEvents /\ UNCHANGED broke
           /\ \/ ppc = "read" /\ ppc' = "poll"
              \/ ppc = "drain" /\ ppc' = "drain"
  <2>1. /\ InoFlow' /\ queue' = <<>>
        /\ printed' \in Seq(Inotify!Events) /\ UNCHANGED emitted
    BY <1>2, TakeKeepsFlow
  <2>2. queue' \in Seq(Inotify!Events)
    BY <2>1, EmptySeq
  <2>3. InoPlace'
    BY <1>1, <1>2, <2>1 DEF InoInv, InoPlace
  <2> QED
    BY <1>1, <1>2, <2>1, <2>2, <2>3, InoParentAside, InoTyped
<1>3. CASE /\ UNCHANGED <<printed, emitted, queue>>
           /\ \/ ppc = "read" /\ ppc' = "reap" /\ broke' = TRUE
              \/ ppc = "drain" /\ ppc' = "cleanup" /\ broke' = TRUE
              \/ ppc = "drain" /\ ppc' = "cleanup" /\ broke' = broke /\ queue = <<>>
  <2>1. InoFlow' /\ printed' \in Seq(Inotify!Events) /\ queue' \in Seq(Inotify!Events)
    BY <1>3, InoTyped DEF InoInv, InoFlow
  <2>2. InoPlace'
    BY <1>1, <1>3 DEF InoInv, InoPlace
  <2>3. broke' \in BOOLEAN
    BY <1>3, InoTyped
  <2> QED
    BY <1>1, <1>3, <2>1, <2>2, <2>3, InoParentAside, InoTyped
<1> QED
  BY <1>2, <1>3 DEF Inotify!ReadEvents, Inotify!Drain

\* InoInv holds at the start.
LEMMA InoInit == Inotify!Init => InoInv
<1> SUFFICES ASSUME Inotify!Init PROVE InoInv
  OBVIOUS
<1> USE DEF Inotify!Init
<1>1. Inotify!TypeOK
  <2>1. <<>> \in Seq(Inotify!Events)
    BY EmptySeq
  <2>2. {printed, emitted, queue} \subseteq Seq(Inotify!Events)
    BY <2>1
  <2>3. step \in 1..Len(Inotify!child_work) + 1
    BY StepList
  <2>4. {nochld, broke, failed, dir} \subseteq BOOLEAN
    OBVIOUS
  <2> QED
    BY <2>2, <2>3, <2>4 DEF Inotify!TypeOK
<1>2. InoFlow
  BY DEF InoFlow
<1>3. InoWork
  BY DEF InoWork, FilesBefore, EventsBefore
<1>4. InoPlace
  BY DEF InoPlace
<1> QED
  BY <1>1, <1>2, <1>3, <1>4 DEF InoInv

\* The invariant of inotify_demo.
THEOREM InotifyInvariant == Inotify!Spec => []InoInv
<1>1. ASSUME InoInv, [Inotify!Next]_(Inotify!vars)
      PROVE  InoInv'
  <2>1. CASE Inotify!Next
    BY <1>1, <2>1, InoWaits, InoReads, InoChildStep, InoChildEnds
    DEF Inotify!Next, Inotify!Parent, Inotify!Child
  <2>2. CASE UNCHANGED Inotify!vars
    <3>1. UNCHANGED <<nochld, ppc, code, broke, printed, step, child, failed, open, files,
                      dir, emitted, queue>>
      BY <2>2 DEF Inotify!vars, Inotify!parent, Inotify!worker, Inotify!disk, Inotify!events
    <3>2. InoFlow' /\ InoPlace'
      BY <1>1, <3>1 DEF InoInv, InoFlow, InoPlace
    <3> QED
      BY <1>1, <3>1, <3>2, InoParentAside, InoTyped
  <2> QED
    BY <1>1, <2>1, <2>2
<1> QED
  BY <1>1, InoInit, PTL DEF Inotify!Spec

\* Every variable of inotify_demo stays in its set.
THEOREM InotifyTypeCorrect == Inotify!Spec => []Inotify!TypeOK
<1>1. InoInv => Inotify!TypeOK
  BY DEF InoInv
<1> QED
  BY <1>1, InotifyInvariant, PTL

\* The masks of the events of the whole work, and the cookies of its renames.
LEMMA AllEventsExpected ==
    /\ Inotify!Masks(AllEvents) =
        <<"CREATE", "MODIFY", "CLOSE_WRITE", "MODIFY", "CLOSE_WRITE",
          "MOVED_FROM", "MOVED_TO", "CREATE", "MODIFY", "CLOSE_WRITE",
          "MOVED_FROM", "MOVED_TO", "DELETE", "DELETE">>
    /\ \A k \in DOMAIN AllEvents :
        AllEvents[k].mask = "MOVED_FROM" => AllEvents[k].cookie = AllEvents[k + 1].cookie
BY DEF Inotify!Masks, AllEvents, Inotify!Event

(***************************************************************************)
(* Whenever the child ends, every event up to its end is printed, once and *)
(* in order, unless poll or read failed; a run in which nothing fails      *)
(* prints what README.md expects and leaves no directory.                  *)
(***************************************************************************)
THEOREM InotifyEveryEventPrinted == Inotify!Spec => []EveryEventPrinted
<1>1. ASSUME InoInv
      PROVE  EveryEventPrinted
  <2>1. /\ printed \in Seq(Inotify!Events) /\ queue \in Seq(Inotify!Events)
        /\ emitted \in Seq(Inotify!Events) /\ emitted = printed \o queue
    BY <1>1, InoTyped DEF InoInv, InoFlow
  <2>2. Inotify!IsPrefix(printed, emitted)
    <3>1. /\ Len(emitted) = Len(printed) + Len(queue) /\ Len(queue) \in Nat
          /\ Len(printed) \in Nat
          /\ \A k \in 1..Len(printed) : emitted[k] = printed[k]
      BY <2>1, ConcatProperties, LenProperties
    <3>2. printed = SubSeq(emitted, 1, Len(printed))
      BY <2>1, <3>1, SubSeqProperties, SeqEqual
    <3> QED
      BY <3>1, <3>2 DEF Inotify!IsPrefix
  <2>3. ASSUME ppc \in {"cleanup", "over"}, ~broke
        PROVE  printed = emitted
    BY <1>1, <2>1, <2>3, ConcatEmptySeq DEF InoInv, InoPlace
  <2>4. ASSUME ppc = "over", code = 0, ~failed, ~broke
        PROVE  ~dir /\ printed = AllEvents
    <3>1. child = "reaped" /\ step = 16 /\ dir = (files # {})
      BY <1>1, <2>4 DEF InoInv, InoPlace
    <3>2. files = {} /\ Len(emitted) = 14 /\ \A k \in 1..14 : emitted[k] = AllEvents[k]
      <4>1. FilesBefore[16] = {} /\ EventsBefore(16) = 14
        BY DEF FilesBefore, EventsBefore
      <4> QED
        BY <1>1, <2>4, <3>1, <4>1 DEF InoInv, InoWork
    <3>3. emitted = AllEvents
      BY <2>1, <3>2, AllEventsTyped, SeqEqual
    <3> QED
      BY <2>3, <2>4, <3>1, <3>2, <3>3
  <2>5. ASSUME ppc = "over", code = 0, ~failed, ~broke
        PROVE  /\ ~dir
               /\ Inotify!Masks(printed) =
                    <<"CREATE", "MODIFY", "CLOSE_WRITE", "MODIFY", "CLOSE_WRITE",
                      "MOVED_FROM", "MOVED_TO", "CREATE", "MODIFY", "CLOSE_WRITE",
                      "MOVED_FROM", "MOVED_TO", "DELETE", "DELETE">>
               /\ \A k \in DOMAIN printed :
                    printed[k].mask = "MOVED_FROM" => printed[k].cookie = printed[k + 1].cookie
    BY <2>4, <2>5, AllEventsExpected
  <2> QED
    BY <2>2, <2>3, <2>5 DEF EveryEventPrinted, Inotify!EveryEventPrinted
<1> QED
  BY <1>1, InotifyInvariant, PTL
=============================================================================
