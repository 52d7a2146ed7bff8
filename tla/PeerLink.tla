------------------------------- MODULE PeerLink -------------------------------
(***************************************************************************)
(* One connection between two nodes that run this code: the messages of     *)
(* net.cpp cut into bytes, the two send queues and the two receive queues,  *)
(* the flow control of ThreadSocketHandler, and the part of main.cpp's      *)
(* message handler that answers a peer (handshake, ping and pong, getaddr,  *)
(* getdata).  A TCP connection is two bounded byte streams.  The socket     *)
(* thread and the message thread of each node interleave freely.            *)
(*                                                                          *)
(* A byte is a record of the message it belongs to and its place in it; a   *)
(* header has HEADER_SIZE bytes and carries the size of the payload.  Sizes *)
(* are scaled down: the window, the two buffer limits and the payloads      *)
(* are a few bytes each, so that each limit is met in the middle of a       *)
(* message.                                                                 *)
(***************************************************************************)
EXTENDS Integers, SequencesExt

CONSTANTS
    HEADER_SIZE,        \* bytes of a header (24 in the code)
    Payload(_),         \* command -> bytes of its payload
    Window,             \* bytes a TCP stream holds before send() would block
    SendBufferSize,
    ReceiveFloodSize,
    Setups              \* [asks, pings, protocol, epochs, last, hasty]: what the
                        \* two nodes are and do

VARIABLES
    setup,
    node,               \* what each node keeps of the other (CNode, CNodeState)
    open,               \* is hSocket valid
    wire,               \* the bytes each node has given to its socket, unread
    asks,               \* the lists of data each node still wants to ask for
    sent,               \* history: the messages each node has queued
    done,               \* history: the messages each node has processed
    nonces              \* pings sent so far

vars == <<setup, node, open, wire, asks, sent, done, nonces>>

\* The node that called connect() and the node that accepted.
Ends == {"out", "in"}
Peer(n) == IF n = "out" THEN "in" ELSE "out"

-----------------------------------------------------------------------------
(* Messages and bytes. *)

Message(cmd, arg) == [cmd |-> cmd, arg |-> arg]
Size(m) == HEADER_SIZE + Payload(m.cmd)
Bytes(m) == [i \in 1..Size(m) |-> [of |-> m, at |-> i]]
SizeOf(ms) == FoldLeft(LAMBDA total, m : total + Size(m), 0, ms)

\* CNetMessage::complete: the header is in and the payload has the size it says.
complete(msg) ==
    Len(msg) >= HEADER_SIZE /\ Len(msg) = HEADER_SIZE + Payload(msg[1].of.cmd)

\* The checksum of the header matches the payload that was put together.
Intact(msg) == msg = Bytes(msg[1].of)

\* ReceiveMsgBytes, readHeader and readData, a byte at a time.
ReceiveMsgBytes(vRecvMsg, bytes) ==
    FoldLeft(LAMBDA q, b : IF q = <<>> \/ complete(Last(q))
                           THEN Append(q, <<b>>)
                           ELSE Front(q) \o <<Append(Last(q), b)>>,
             vRecvMsg, bytes)

GetTotalRecvSize(vRecvMsg) == Len(FlattenSeq(vRecvMsg))

-----------------------------------------------------------------------------
(* Sending. *)

\* The bytes of the queue that send() has not taken.
Unsent(nd) ==
    LET all == FlattenSeq([i \in 1..Len(nd.vSendMsg) |-> Bytes(nd.vSendMsg[i])])
    IN  SubSeq(all, nd.nSendOffset + 1, Len(all))

\* A mutant: the offset into a message is forgotten when send() stops inside it.
SocketSendRestart(nd, j) ==
    LET whole == CHOOSE k \in 0..Len(nd.vSendMsg) :
                     /\ SizeOf(SubSeq(nd.vSendMsg, 1, k)) <= nd.nSendOffset + j
                     /\ k = Len(nd.vSendMsg) \/ SizeOf(SubSeq(nd.vSendMsg, 1, k + 1)) > nd.nSendOffset + j
        gone == SizeOf(SubSeq(nd.vSendMsg, 1, whole))
    IN  [nd EXCEPT !.vSendMsg = SubSeq(@, whole + 1, Len(@)), !.nSendOffset = 0, !.nSendSize = @ - gone]

\* SocketSendData, when the kernel takes j bytes in all: the messages that are
\* out entirely leave the queue, the offset stays inside the next one.
SocketSendData(nd, j) ==
    LET whole == CHOOSE k \in 0..Len(nd.vSendMsg) :
                     /\ SizeOf(SubSeq(nd.vSendMsg, 1, k)) <= nd.nSendOffset + j
                     /\ k = Len(nd.vSendMsg) \/ SizeOf(SubSeq(nd.vSendMsg, 1, k + 1)) > nd.nSendOffset + j
        gone == SizeOf(SubSeq(nd.vSendMsg, 1, whole))
    IN  [nd EXCEPT !.vSendMsg = SubSeq(@, whole + 1, Len(@)),
                   !.nSendOffset = @ + j - gone,
                   !.nSendSize = @ - gone]

Room(n) == Window - Len(wire[n])

\* BeginMessage/EndMessage for each of ms, made by node n whose record is then
\* nd: a message that finds the queue empty is written at once, as far as the
\* kernel takes it.
PushMessages(n, nd, ms) ==
    LET queued == [nd EXCEPT !.vSendMsg = @ \o ms, !.nSendSize = @ + SizeOf(ms)]
        bytes == Unsent(queued)
    IN  /\ sent' = [sent EXCEPT ![n] = @ \o ms]
        /\ \E j \in IF nd.vSendMsg = <<>> THEN 0..(IF Len(bytes) < Room(n) THEN Len(bytes) ELSE Room(n)) ELSE {0} :
              /\ (j = 0 /\ ms # <<>> /\ nd.vSendMsg = <<>>) => Room(n) = 0
              /\ wire' = [wire EXCEPT ![n] = @ \o SubSeq(bytes, 1, j)]
              /\ node' = [node EXCEPT ![n] = SocketSendData(queued, j)]

-----------------------------------------------------------------------------
(* What a node does with a message (ProcessMessage). *)

\* The items of a getdata that one call of ProcessGetData answers: it stops
\* when the send buffer is full and after a block.
Answered(nd) ==
    LET stop(k) == \/ nd.nSendSize + SizeOf([i \in 1..k |-> Message(nd.vRecvGetData[i], 0)]) >= SendBufferSize
                   \/ k > 0 /\ nd.vRecvGetData[k] = "block"
    IN  CHOOSE k \in 0..Len(nd.vRecvGetData) :
            /\ \A i \in 0..(k - 1) : ~stop(i)
            /\ k = Len(nd.vRecvGetData) \/ stop(k)

ProcessGetData(nd) ==
    LET k == Answered(nd)
        items == SubSeq(nd.vRecvGetData, 1, k)
        found == SelectSeq(items, LAMBDA i : i # "missing")
    IN  [nd |-> [nd EXCEPT !.vRecvGetData = SubSeq(@, k + 1, Len(@))],
         push |-> [i \in 1..Len(found) |-> Message(found[i], 0)]
                  \o (IF Len(found) < k THEN <<Message("notfound", 0)>> ELSE <<>>)]

Says(nd, ms) == [nd |-> nd, push |-> ms]

version(n, nd, m) ==
    IF nd.nVersion # 0
    THEN Says([nd EXCEPT !.nMisbehavior = @ + 1], <<Message("reject", 0)>>)
    ELSE IF m.arg < setup.epochs[n]
    THEN Says([nd EXCEPT !.nVersion = m.arg, !.fDisconnect = TRUE], <<Message("reject", 0)>>)
    ELSE Says([nd EXCEPT !.nVersion = m.arg, !.fSuccessfullyConnected = TRUE],
              IF n = "in"
              THEN <<Message("version", setup.protocol[n]), Message("verack", 0)>>
              ELSE <<Message("verack", 0), Message("getaddr", 0)>>)

pong(nd, m) ==
    Says(IF m.arg = nd.nPingNonceSent THEN [nd EXCEPT !.nPingNonceSent = 0] ELSE nd, <<>>)

getaddr(n, nd) ==
    Says(IF n = "in" /\ ~nd.fSentAddr
         THEN [nd EXCEPT !.fSentAddr = TRUE, !.vAddrToSend = TRUE] ELSE nd, <<>>)

ProcessMessage(n, nd, m) ==
    CASE m.cmd = "version" -> version(n, nd, m)
      [] m.cmd # "version" /\ nd.nVersion = 0 -> Says([nd EXCEPT !.nMisbehavior = @ + 1], <<>>)
      [] m.cmd = "verack" /\ nd.nVersion # 0 -> Says(nd, <<>>)
      [] m.cmd \notin {"version", "verack"} /\ nd.nVersion # 0 /\ nd.nVersion < setup.epochs[n] ->
             Says([nd EXCEPT !.fDisconnect = TRUE], <<Message("reject", 0)>>)
      [] OTHER ->
             CASE m.cmd = "ping" -> Says(nd, <<Message("pong", m.arg)>>)
               [] m.cmd = "pong" -> pong(nd, m)
               [] m.cmd = "getaddr" -> getaddr(n, nd)
               [] m.cmd = "getdata" -> ProcessGetData([nd EXCEPT !.vRecvGetData = @ \o m.arg])
               [] OTHER -> Says(nd, <<>>)

-----------------------------------------------------------------------------
(* The message thread. *)

Handled(n) == open[n] /\ ~node[n].fDisconnect

\* ProcessMessages: what is left of a getdata comes first, and while some is
\* left nothing else is read; then one complete message, unless the send buffer
\* is full.  A message whose checksum fails is dropped.
ProcessMessages(n) ==
    /\ Handled(n)
    /\ LET nd == node[n]
           msg == Head(nd.vRecvMsg)
           popped == [nd EXCEPT !.vRecvMsg = Tail(@)]
           answer == IF Intact(msg) THEN ProcessMessage(n, popped, msg[1].of) ELSE Says(popped, <<>>)
           g == ProcessGetData(nd)
       IN  \/ /\ nd.vRecvGetData # <<>>
              /\ g.push # <<>>
              /\ PushMessages(n, g.nd, g.push)
              /\ UNCHANGED done
           \/ /\ nd.vRecvGetData = <<>>
              /\ nd.nSendSize < SendBufferSize
              /\ nd.vRecvMsg # <<>> /\ complete(msg)
              /\ PushMessages(n, answer.nd, answer.push)
              /\ done' = [done EXCEPT ![n] = IF Intact(msg) THEN Append(@, msg[1].of) ELSE @]
    /\ UNCHANGED <<setup, open, asks, nonces>>

\* SendMessages: nothing before the peer's version; then a ping if one is
\* queued or due, the addresses if it is this peer's turn (trickle), and the
\* data that is due to be asked for.
SendMessages(n) ==
    /\ Handled(n)
    /\ node[n].nVersion # 0
    /\ \E due, trickle, fetch \in BOOLEAN :
         LET nd == node[n]
             pingSend == ((due /\ nd.nPingNonceSent = 0) \/ nd.fPingQueued) /\ nonces[n] < setup.pings[n]
             nonce == nonces[n] + 1
             ping == IF pingSend THEN <<Message("ping", nonce)>> ELSE <<>>
             addr == IF trickle /\ nd.vAddrToSend THEN <<Message("addr", 0)>> ELSE <<>>
             vGetData == IF fetch /\ asks[n] # <<>> THEN <<Message("getdata", Head(asks[n]))>> ELSE <<>>
         IN  /\ trickle => nd.vAddrToSend
             /\ fetch => asks[n] # <<>>
             /\ ping \o addr \o vGetData # <<>>
             /\ PushMessages(n, [nd EXCEPT !.fPingQueued = @ /\ ~pingSend,
                                           !.nPingNonceSent = IF pingSend THEN nonce ELSE @,
                                           !.vAddrToSend = @ /\ ~trickle],
                             ping \o addr \o vGetData)
             /\ nonces' = [nonces EXCEPT ![n] = @ + Len(ping)]
             /\ asks' = [asks EXCEPT ![n] = IF fetch THEN Tail(@) ELSE @]
    /\ UNCHANGED <<setup, open, done>>

\* The ping RPC.
ping_(n) ==
    /\ Handled(n) /\ nonces[n] < setup.pings[n] /\ ~node[n].fPingQueued
    /\ node' = [node EXCEPT ![n].fPingQueued = TRUE]
    /\ UNCHANGED <<setup, open, wire, asks, sent, done, nonces>>

\* The chain of node n passes the height at which an upgrade activates.
Activate(n) ==
    /\ open[n] /\ setup.epochs[n] < setup.last
    /\ setup' = [setup EXCEPT !.epochs[n] = @ + 1]
    /\ UNCHANGED <<node, open, wire, asks, sent, done, nonces>>

-----------------------------------------------------------------------------
(* The socket thread. *)

CloseSocketDisconnect(n) ==
    /\ open' = [open EXCEPT ![n] = FALSE]
    /\ node' = [node EXCEPT ![n].fDisconnect = TRUE, ![n].vRecvMsg = <<>>]
    /\ wire' = [wire EXCEPT ![Peer(n)] = <<>>]
    /\ UNCHANGED <<setup, asks, sent, done, nonces>>

\* Which of the two select() waits for: the sets of ThreadSocketHandler.
SelectsSend(n) == open[n] /\ node[n].vSendMsg # <<>>
SelectsRecv(n) ==
    /\ open[n] /\ node[n].vSendMsg = <<>>
    /\ LET q == node[n].vRecvMsg
       IN  (q # <<>> /\ complete(Head(q))) => GetTotalRecvSize(q) <= ReceiveFloodSize

SocketSend(n) ==
    /\ SelectsSend(n) /\ Room(n) > 0
    /\ LET bytes == Unsent(node[n])
       IN  \E j \in 1..(IF Len(bytes) < Room(n) THEN Len(bytes) ELSE Room(n)) :
              /\ wire' = [wire EXCEPT ![n] = @ \o SubSeq(bytes, 1, j)]
              /\ node' = [node EXCEPT ![n] = SocketSendData(@, j)]
    /\ UNCHANGED <<setup, open, asks, sent, done, nonces>>

SocketRecv(n) ==
    /\ SelectsRecv(n) /\ wire[Peer(n)] # <<>>
    /\ \E j \in 1..Len(wire[Peer(n)]) :
         /\ node' = [node EXCEPT ![n].vRecvMsg = ReceiveMsgBytes(@, SubSeq(wire[Peer(n)], 1, j))]
         /\ wire' = [wire EXCEPT ![Peer(n)] = SubSeq(@, j + 1, Len(@))]
    /\ UNCHANGED <<setup, open, asks, sent, done, nonces>>

\* recv() returns nothing, or recv() or send() fails: the peer has closed.
SocketClosed(n) ==
    /\ open[n] /\ ~open[Peer(n)]
    /\ wire[Peer(n)] = <<>> \/ SelectsSend(n)
    /\ CloseSocketDisconnect(n)

\* The start of the socket thread's loop: nodes marked fDisconnect are closed.
Disconnect(n) == open[n] /\ node[n].fDisconnect /\ CloseSocketDisconnect(n)

\* The three things the comment of ThreadSocketHandler names: node n can send
\* some data, has data to receive, or has a message to process.
Transfers(n) == \/ SelectsSend(n) /\ Room(n) > 0
                \/ SelectsRecv(n) /\ wire[Peer(n)] # <<>>
Processes(n) == /\ Handled(n) /\ node[n].nSendSize < SendBufferSize
                /\ \/ node[n].vRecvGetData # <<>>
                   \/ node[n].vRecvMsg # <<>> /\ complete(Head(node[n].vRecvMsg))
Moves(n) == Transfers(n) \/ Processes(n)

\* A mutant: a send that does not come through is not timed.
Unanswered(n) == node[n].nVersion = 0 \/ node[n].nPingNonceSent # 0

Outstanding(n) ==
    node[n].nVersion = 0 \/ node[n].vSendMsg # <<>> \/ node[n].nPingNonceSent # 0

\* The connection of node n is to be closed, or to be given up.
ToClose(n) ==
    \/ open[n] /\ ~open[Peer(n)] /\ (wire[Peer(n)] = <<>> \/ SelectsSend(n))
    \/ open[n] /\ node[n].fDisconnect
    \/ Handled(n) /\ Outstanding(n) /\ (setup.hasty \/ \A m \in Ends : ~Moves(m))

\* Inactivity checking: no message in the first minute, a send that does not
\* come through, or a ping without answer.  The timeouts (60 s and 20 min) are
\* longer than every step, unless the setup says the network is slow.
Inactive(n) ==
    /\ Handled(n)
    /\ Outstanding(n)
    /\ setup.hasty \/ \A m \in Ends : ~Moves(m)
    /\ node' = [node EXCEPT ![n].fDisconnect = TRUE]
    /\ UNCHANGED <<setup, open, wire, asks, sent, done, nonces>>

-----------------------------------------------------------------------------

CNode == [vSendMsg |-> <<>>, nSendOffset |-> 0, nSendSize |-> 0, vRecvMsg |-> <<>>,
          vRecvGetData |-> <<>>, nVersion |-> 0, fSuccessfullyConnected |-> FALSE,
          fDisconnect |-> FALSE, nPingNonceSent |-> 0, fPingQueued |-> FALSE,
          fSentAddr |-> FALSE, vAddrToSend |-> FALSE, nMisbehavior |-> 0]

\* ConnectNode and AcceptConnection: the node that connects pushes its version
\* in the constructor of CNode.
Init ==
    /\ setup \in Setups
    /\ asks = setup.asks
    /\ open = [n \in Ends |-> TRUE]
    /\ wire = [n \in Ends |-> <<>>]
    /\ LET hello == <<Message("version", setup.protocol["out"])>>
       IN  /\ node = [n \in Ends |-> IF n = "in" THEN CNode
                                     ELSE [CNode EXCEPT !.vSendMsg = hello, !.nSendSize = SizeOf(hello)]]
           /\ sent = [n \in Ends |-> IF n = "in" THEN <<>> ELSE hello]
    /\ done = [n \in Ends |-> <<>>]
    /\ nonces = [n \in Ends |-> 0]

Socket(n) == SocketSend(n) \/ SocketRecv(n) \/ SocketClosed(n) \/ Disconnect(n) \/ Inactive(n)

Next == \E n \in Ends : Socket(n) \/ ProcessMessages(n) \/ SendMessages(n) \/ ping_(n) \/ Activate(n)

Spec == Init /\ [][Next]_vars

-----------------------------------------------------------------------------
(* Properties. *)

TypeOK ==
    /\ \A n \in Ends : /\ node[n].nVersion \in 0..2 /\ node[n].nPingNonceSent \in 0..setup.pings[n]
                       /\ Len(wire[n]) <= Window
    /\ open \in [Ends -> BOOLEAN]

\* The send queue is accounted for (the assertions of SocketSendData): nSendSize
\* is the size of the queue and the offset is inside its first message.
Accounted(nd) ==
    /\ nd.nSendSize = SizeOf(nd.vSendMsg)
    /\ IF nd.vSendMsg = <<>> THEN nd.nSendOffset = 0 ELSE nd.nSendOffset < Size(Head(nd.vSendMsg))

\* What a node has processed is what its peer has sent, in order, up to where it
\* has come: whatever the places at which send() and recv() cut the stream, no
\* message is lost, doubled, reordered or put together from two (SocketSendData
\* and ReceiveMsgBytes).  The queues are accounted for all along.
StreamExact ==
    \A n \in Ends :
        /\ IsPrefix(done[n], sent[Peer(n)])
        /\ Accounted(node[n])
        /\ open[n] /\ open[Peer(n)] => \A i \in 1..Len(node[n].vRecvMsg) :
               complete(node[n].vRecvMsg[i]) => Intact(node[n].vRecvMsg[i])

\* What the messages of ms must be answered with, in order.
Replies(ms) ==
    LET reply(m) == CASE m.cmd = "ping" -> <<Message("pong", m.arg)>>
                      [] m.cmd = "getdata" -> LET found == SelectSeq(m.arg, LAMBDA i : i # "missing")
                                              IN  [i \in 1..Len(found) |-> Message(found[i], 0)]
                      [] OTHER -> <<>>
    IN  FlattenSeq([i \in 1..Len(ms) |-> reply(ms[i])])

\* Two nodes that know the current epoch get on: each hears the other's version before
\* anything else and only once, so neither counts the other as misbehaving; the
\* answers to getdata and ping are queued in the order of the requests (the
\* comment "this maintains the order of responses" in ProcessMessages); and the
\* ping counted as out is the last one sent, until the pong with its nonce has
\* come.
AnswersInOrder ==
    \A n \in Ends :
        /\ setup.epochs[Peer(n)] <= setup.protocol[n] => node[n].nMisbehavior = 0
        /\ setup.epochs[n] <= setup.protocol[Peer(n)] =>
               /\ IsPrefix(SelectSeq(sent[n], LAMBDA m : m.cmd \in {"block", "tx", "pong"}), Replies(done[n]))
               /\ node[n].nPingNonceSent =
                      IF Message("pong", nonces[n]) \in Range(done[n]) THEN 0 ELSE nonces[n]

\* Neither side can do any of the three, although both are connected and one
\* has data to send.
Deadlocked ==
    /\ \A n \in Ends : Handled(n) /\ ~Moves(n)
    /\ \E n \in Ends : node[n].vSendMsg # <<>>

\* The two nodes never wait on each other: "at least one of the following is
\* always possible, so we don't deadlock" (net.cpp, ThreadSocketHandler).
NoDeadlock == ~Deadlocked

\* Nothing is left to do: both sides have closed, or all that was to be asked
\* has been asked and answered and every ping has its pong.
Settled ==
    \/ \A n \in Ends : ~open[n]
    \/ \A n \in Ends : /\ done[n] = sent[Peer(n)] /\ node[n].vSendMsg = <<>>
                       /\ node[n].vRecvGetData = <<>> /\ asks[n] = <<>>

Asks(n) == Handled(n) /\ node[n].nVersion # 0 /\ asks[n] # <<>>

\* The threads keep running: each loop comes back to each connection, and a
\* timeout that is due is noticed.  (Weak fairness, with the enabling conditions
\* written out.)
Fairness ==
    \A n \in Ends :
        /\ []<>~Transfers(n) \/ []<><<SocketSend(n) \/ SocketRecv(n)>>_vars
        /\ []<>~ToClose(n) \/ []<><<SocketClosed(n) \/ Disconnect(n) \/ Inactive(n)>>_vars
        /\ []<>~Processes(n) \/ []<><<ProcessMessages(n)>>_vars
        /\ []<>~Asks(n) \/ []<><<SendMessages(n) /\ asks' # asks>>_vars

\* Every connection settles: what is asked is answered, or the connection is
\* closed on both sides by one of the timeouts (also out of the mutual wait).
Settles == []<>Settled
=============================================================================
