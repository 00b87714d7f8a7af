------------------------------- MODULE TcpEcho -------------------------------
(***************************************************************************)
(* src/06-network/exercises/tcp-echo-demo/tcp_echo_demo.c: after listen()  *)
(* the program forks; the child accepts one connection and echoes what it  *)
(* reads, the parent sends NumMsgs messages and reads after each. Both     *)
(* hold the listening socket; the parent never closes its copy.            *)
(*                                                                         *)
(* TCP is external: a byte stream in each direction, of which a read gets  *)
(* some non-empty prefix. A byte is the number of the message it is from.  *)
(***************************************************************************)
EXTENDS SequencesExt

CONSTANTS
    NumMsgs,  \* NUM_MSGS
    MsgLen    \* bytes in a message

ASSUME NumMsgsAssumption == NumMsgs \in Nat \ {0}
ASSUME MsgLenAssumption == MsgLen \in Nat \ {0}

VARIABLES
    cpc,      \* where the parent is, the client
    i,        \* its loop counter: the message it is at
    echoed,   \* all bytes its reads returned
    spc,      \* where the child is, the server
    sbuf,     \* what its last read returned
    status,   \* the child's wait status: "running", "zero" or "failure"
    conn,     \* the connection: "none", "queued" for accept, "accepted"
    c2s, s2c, \* bytes one side wrote and the other has not read
    cEnd,     \* how the server sees the client's end of it
    sEnd,     \* how the client sees the server's end of it
    whole     \* a read gets all that was written, never a part of it

client == <<cpc, i, echoed>>
server == <<spc, sbuf, status>>
vars == <<client, server, conn, c2s, s2c, cEnd, sEnd, whole>>

\* "fin": closed after all it sent. "reset": closed with data it never read.
\* "broken": "fin", and data sent to it since has been answered with a reset.
Ends == {"open", "fin", "reset", "broken"}

Msg(k) == [b \in 1..MsgLen |-> k]
Bytes == 1..NumMsgs

Init ==
    /\ cpc = "yield" /\ i = 1 /\ echoed = <<>>
    /\ spc = "accept" /\ sbuf = <<>> /\ status = "running"
    /\ conn = "none" /\ c2s = <<>> /\ s2c = <<>>
    /\ cEnd = "open" /\ sEnd = "open"
    /\ whole \in BOOLEAN

\* The program is over, or was never started.
Off ==
    /\ cpc = "done" /\ i = 1 /\ echoed = <<>>
    /\ spc = "over" /\ sbuf = <<>> /\ status = "failure"
    /\ conn = "none" /\ c2s = <<>> /\ s2c = <<>>
    /\ cEnd = "open" /\ sEnd = "open"
    /\ whole = FALSE

-----------------------------------------------------------------------------
\* close() of a socket with bytes nobody read resets the connection.
Closed(unread) == IF unread = <<>> THEN "fin" ELSE "reset"

\* Data sent to a closed end is answered with a reset.
Bounced(end) == IF end = "fin" THEN "broken" ELSE end

\* Wrong variant of Lengths: a buffer one byte too small for a message.
LengthsShort(stream) ==
    IF whole THEN {IF Len(stream) > 1 THEN Len(stream) - 1 ELSE 1} ELSE 1..Len(stream)

\* The lengths a read of `stream` may return.
Lengths(stream) == IF whole THEN {Len(stream)} ELSE 1..Len(stream)

\* die() or SIGPIPE in the parent: its socket is closed and it waits for nobody.
ClientDies ==
    /\ cpc' = "dead"
    /\ cEnd' = Closed(s2c) /\ s2c' = <<>>
    /\ UNCHANGED <<i, echoed, c2s, sEnd>>

\* usleep ends; whether the child has come to accept() by then is left open.
Yield ==
    /\ cpc = "yield"
    /\ cpc' = "connect"
    /\ UNCHANGED <<i, echoed, conn, c2s, s2c, cEnd, sEnd>>

\* connect(): the parent's own copy of listen_fd keeps the port listening.
Connect ==
    /\ cpc = "connect"
    /\ conn' = "queued"
    /\ cpc' = "send"
    /\ UNCHANGED <<i, echoed, c2s, s2c, cEnd, sEnd>>

Send ==
    /\ cpc = "send"
    /\ IF sEnd \in {"reset", "broken"}
       THEN ClientDies
       ELSE /\ c2s' = IF sEnd = "open" THEN c2s \o Msg(i) ELSE c2s
            /\ sEnd' = Bounced(sEnd)
            /\ cpc' = "recv"
            /\ UNCHANGED <<i, echoed, s2c, cEnd>>
    /\ UNCHANGED conn

\* The end of the loop's body, whatever read returned: 0 is not told apart.
NextMsg ==
    /\ cpc' = IF i = NumMsgs THEN "close" ELSE "send"
    /\ i' = i + 1
    /\ UNCHANGED <<c2s, cEnd, sEnd>>

\* read(): bytes first; then the end of the stream, or an error, or it blocks.
Recv ==
    /\ cpc = "recv"
    /\ \/ /\ s2c # <<>>
          /\ \E n \in Lengths(s2c) :
                /\ echoed' = echoed \o SubSeq(s2c, 1, n)
                /\ s2c' = SubSeq(s2c, n + 1, Len(s2c))
          /\ NextMsg
       \/ /\ s2c = <<>> /\ sEnd \in {"fin", "broken"}
          /\ NextMsg
          /\ UNCHANGED <<echoed, s2c>>
       \/ /\ s2c = <<>> /\ sEnd = "reset"
          /\ ClientDies
    /\ UNCHANGED conn

CloseSocket ==
    /\ cpc = "close"
    /\ cpc' = "wait"
    /\ cEnd' = Closed(s2c) /\ s2c' = <<>>
    /\ UNCHANGED <<i, echoed, conn, c2s, sEnd>>

\* waitpid(): blocks until the child has ended.
Wait ==
    /\ cpc = "wait"
    /\ status # "running"
    /\ cpc' = "done"
    /\ UNCHANGED <<i, echoed, conn, c2s, s2c, cEnd, sEnd>>

Client ==
    /\ Yield \/ Connect \/ Send \/ Recv \/ CloseSocket \/ Wait
    /\ UNCHANGED <<server, whole>>

-----------------------------------------------------------------------------
\* The child ends: its sockets are closed, a connection nobody accepted is not.
ServerEnds(st) ==
    /\ spc' = "over" /\ status' = st
    /\ sEnd' = IF conn = "accepted" THEN Closed(c2s) ELSE sEnd
    /\ c2s' = IF conn = "accepted" THEN <<>> ELSE c2s
    /\ UNCHANGED <<sbuf, s2c, cEnd, conn>>

Accept ==
    /\ spc = "accept"
    /\ conn = "queued"
    /\ conn' = "accepted"
    /\ spc' = "read"
    /\ UNCHANGED <<sbuf, status, c2s, s2c, cEnd, sEnd>>

\* Wrong variant of Read: what does not fit into the buffer is lost.
ReadDrops ==
    /\ spc = "read"
    /\ \/ /\ c2s # <<>>
          /\ \E n \in Lengths(c2s) : sbuf' = SubSeq(c2s, 1, n)
          /\ c2s' = <<>>
          /\ spc' = "write"
          /\ UNCHANGED <<status, conn, s2c, cEnd, sEnd>>
       \/ c2s = <<>> /\ cEnd \in {"fin", "broken"} /\ ServerEnds("zero")
       \/ c2s = <<>> /\ cEnd = "reset" /\ ServerEnds("failure")

\* Wrong variant of Read: the loop runs on after the end of the stream.
ReadForEver ==
    /\ spc = "read"
    /\ \/ /\ c2s # <<>>
          /\ \E n \in Lengths(c2s) :
                /\ sbuf' = SubSeq(c2s, 1, n)
                /\ c2s' = SubSeq(c2s, n + 1, Len(c2s))
          /\ spc' = "write"
          /\ UNCHANGED <<status, conn, s2c, cEnd, sEnd>>
       \/ c2s = <<>> /\ cEnd = "reset" /\ ServerEnds("failure")

Read ==
    /\ spc = "read"
    /\ \/ /\ c2s # <<>>
          /\ \E n \in Lengths(c2s) :
                /\ sbuf' = SubSeq(c2s, 1, n)
                /\ c2s' = SubSeq(c2s, n + 1, Len(c2s))
          /\ spc' = "write"
          /\ UNCHANGED <<status, conn, s2c, cEnd, sEnd>>
       \/ c2s = <<>> /\ cEnd \in {"fin", "broken"} /\ ServerEnds("zero")
       \/ c2s = <<>> /\ cEnd = "reset" /\ ServerEnds("failure")

Write ==
    /\ spc = "write"
    /\ IF cEnd \in {"reset", "broken"}
       THEN ServerEnds("failure")
       ELSE /\ s2c' = IF cEnd = "open" THEN s2c \o sbuf ELSE s2c
            /\ sbuf' = <<>>
            /\ cEnd' = Bounced(cEnd)
            /\ spc' = "read"
            /\ UNCHANGED <<status, conn, c2s, sEnd>>

\* accept() fails or the child is killed.
Crash ==
    /\ spc # "over"
    /\ ServerEnds("failure")
    /\ UNCHANGED <<client, whole>>

Server ==
    /\ Accept \/ Read \/ Write
    /\ UNCHANGED <<client, whole>>

Next == Client \/ Server \/ Crash

Fairness == WF_vars(Client) /\ WF_vars(Server)

Spec == Init /\ [][Next]_vars /\ Fairness

-----------------------------------------------------------------------------
TypeOK ==
    /\ cpc \in {"yield", "connect", "send", "recv", "close", "wait", "done", "dead"}
    /\ i \in 1..NumMsgs + 1
    /\ spc \in {"accept", "read", "write", "over"}
    /\ status \in {"running", "zero", "failure"}
    /\ conn \in {"none", "queued", "accepted"}
    /\ echoed \in Seq(Bytes) /\ sbuf \in Seq(Bytes)
    /\ c2s \in Seq(Bytes) /\ s2c \in Seq(Bytes)
    /\ cEnd \in Ends /\ sEnd \in Ends
    /\ whole \in BOOLEAN

\* The first k messages as one stream.
Stream(k) == [b \in 1..k * MsgLen |-> ((b - 1) \div MsgLen) + 1]

\* The messages the client has written.
Sent == Stream(IF cpc \in {"recv"} THEN i ELSE i - 1)

(***************************************************************************)
(* While both programs run, every byte the client wrote is in exactly one  *)
(* place on its way round, and the places are in order: whatever the reads *)
(* cut and merge, nothing is lost, doubled or overtaken. Even when one     *)
(* side ends early, what the client has read is a beginning of what it     *)
(* wrote.                                                                  *)
(***************************************************************************)
NothingLost ==
    /\ status = "running" /\ cEnd = "open" => echoed \o s2c \o sbuf \o c2s = Sent
    /\ IsPrefix(echoed, Stream(NumMsgs))

(***************************************************************************)
(* When reads get whole messages, the echo of a message is read before the *)
(* next one is sent, and a parent that sees the child exit with 0 has read *)
(* all echoes.                                                             *)
(***************************************************************************)
OneMessageAtATime ==
    whole =>
        /\ status = "running" /\ cpc = "send" => echoed = Stream(i - 1)
        /\ cpc = "done" /\ status = "zero" => echoed = Stream(NumMsgs)

(***************************************************************************)
(* The program ends, unless the child ended before it accepted: then the   *)
(* connection waits in the queue of a socket the parent itself keeps open, *)
(* and its read waits for ever.                                            *)
(***************************************************************************)
HangsOnlyUnaccepted ==
    <>(cpc \in {"done", "dead"} \/ (spc = "over" /\ conn # "accepted"))
=============================================================================
