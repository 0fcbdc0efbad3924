------------------------------ MODULE PeerLink ------------------------------
(***************************************************************************)
(* Two nodes and the TCP connection between them (net.cpp, and             *)
(* ProcessMessages of main.cpp): how messages become bytes and messages    *)
(* again, and which of the two directions each node serves.                *)
(*                                                                         *)
(* Both ends run this program.  Each has a socket thread, which selects    *)
(* and then serves its socket, and a message thread, which holds           *)
(* cs_vRecvMsg or cs_vSend while it works.  A byte is <<command, position  *)
(* in the message>>; sizes are counted in such bytes.  The blocks that a   *)
(* message asks for are what ProcessGetData answers.                       *)
(***************************************************************************)
EXTENDS Integers, Sequences, SequencesExt, FiniteSets, FiniteSetsExt, Functions

CONSTANTS
    End,                \* the two ends
    Command,            \* commands, "block" among them
    DataSize,           \* DataSize[c]: the payload of c
    Asks,               \* Asks[c]: how many blocks c asks for
    HEADER_SIZE,
    SocketBuffer,       \* what TCP holds of one direction (external)
    RecvChunk,          \* the size of pchBuf
    ReadAhead,          \* how far readData allocates ahead
    SendBufferSize,
    ReceiveFloodSize,
    MaxRequests         \* bound on the messages an end starts by itself

ASSUME PeerLinkAssumption ==
    /\ Cardinality(End) = 2
    /\ DataSize \in [Command -> Nat] /\ Asks \in [Command -> Nat]
    /\ "block" \in Command /\ Asks["block"] = 0
    /\ {HEADER_SIZE, SocketBuffer, RecvChunk, SendBufferSize} \subseteq Nat \ {0}
    /\ {ReadAhead, ReceiveFloodSize, MaxRequests} \subseteq Nat

VARIABLE
    link        \* the CNode that each end has for the other

linkVars == <<link>>

\* A CNode that has just been connected.  open: hSocket is valid.  out: what TCP has
\* taken and the other end has not read (external).  fd: the set of select that the
\* socket is in, or "poll".  thread: where the message thread is; it holds
\* cs_vRecvMsg in "recv" and cs_vSend in "send".  sent and handled are history: the
\* messages passed to EndMessage and to ProcessMessage.
NewNode ==
    [open |-> TRUE, fDisconnect |-> FALSE, vSendMsg |-> <<>>, nSendOffset |-> 0, nSendSize |-> 0,
     out |-> <<>>, vRecvMsg |-> <<>>, vRecvGetData |-> 0, fd |-> "poll", thread |-> "idle",
     sent |-> <<>>, handled |-> <<>>]

Other(n) == CHOOSE m \in End : m # n

Size(c) == HEADER_SIZE + DataSize[c]

Bytes(c) == [i \in 1 .. Size(c) |-> <<c, i>>]

-----------------------------------------------------------------------------
(* Sending.                                                                *)

\* CNode::CloseSocketDisconnect.  fLock: cs_vRecvMsg is free, or this thread's.
CloseSocketDisconnect(c, fLock) ==
    [c EXCEPT !.fDisconnect = TRUE, !.open = FALSE,
              !.vRecvMsg = IF fLock THEN <<>> ELSE @]

\* Mutant: nSendOffset is not set back.
MessageSentKeepsOffset(c) ==
    [c EXCEPT !.nSendSize = @ - Size(Head(c.vSendMsg)), !.vSendMsg = Tail(@)]

\* A message is sent in full.
MessageSent(c) ==
    [c EXCEPT !.nSendOffset = 0, !.nSendSize = @ - Size(Head(c.vSendMsg)), !.vSendMsg = Tail(@)]

\* The loop of SocketSendData when TCP takes k bytes; the rest is for later.
RECURSIVE SendBytes(_, _)
SendBytes(c, k) ==
    IF k = 0 \/ c.vSendMsg = <<>> THEN c
    ELSE LET data   == Head(c.vSendMsg)
             nBytes == Min({k, Size(data) - c.nSendOffset})
             taken  == [c EXCEPT
                          !.out = @ \o SubSeq(Bytes(data), c.nSendOffset + 1, c.nSendOffset + nBytes),
                          !.nSendOffset = @ + nBytes]
         IN  IF taken.nSendOffset = Size(data)
             THEN SendBytes(MessageSent(taken), k - nBytes)
             ELSE taken

Room(c) == SocketBuffer - Len(c.out)

SizeOf(vSendMsg) == FoldSeq(LAMBDA c, total : Size(c) + total, 0, vSendMsg)

\* SocketSendData: TCP takes any number of bytes that it has room for, none when it
\* has no room, and reports an error when either side has closed the connection.
SocketSendData(c, peerOpen, fLock) ==
    IF c.vSendMsg = <<>> THEN {c}
    ELSE IF ~(c.open /\ peerOpen) THEN {CloseSocketDisconnect(c, fLock)}
    ELSE {SendBytes(c, k) : k \in Min({1, Room(c)}) .. Min({Room(c), SizeOf(c.vSendMsg) - c.nSendOffset})}

\* EndMessage: the message is queued, and written at once if the queue was empty.
EndMessage(c, command, peerOpen, fLock) ==
    LET queued == [c EXCEPT !.vSendMsg = Append(@, command), !.nSendSize = @ + Size(command),
                            !.sent = Append(@, command)]
    IN  IF c.vSendMsg = <<>> THEN SocketSendData(queued, peerOpen, fLock) ELSE {queued}

-----------------------------------------------------------------------------
(* Receiving.                                                              *)

\* CNetMessage: the header and the data read so far, and the size of vRecv.
NewMessage == [hdrbuf |-> <<>>, data |-> <<>>, size |-> 0]

in_data(msg) == Len(msg.hdrbuf) = HEADER_SIZE

nMessageSize(msg) == DataSize[msg.hdrbuf[1][1]]

complete(msg) == in_data(msg) /\ Len(msg.data) = nMessageSize(msg)

readHeader(msg, pch) == [msg EXCEPT !.hdrbuf = @ \o pch]

readData(msg, pch) ==
    LET nDataPos == Len(msg.data) + Len(pch)
    IN  [msg EXCEPT !.data = @ \o pch,
                    !.size = IF @ < nDataPos THEN Min({nMessageSize(msg), nDataPos + ReadAhead}) ELSE @]

\* How much of a message is still to come, in the part that is being read.
nRemaining(msg) ==
    IF in_data(msg) THEN nMessageSize(msg) - Len(msg.data) ELSE HEADER_SIZE - Len(msg.hdrbuf)

\* ReceiveMsgBytes.  A node sends no message that the other finds too large.
RECURSIVE ReceiveMsgBytes(_, _)
ReceiveMsgBytes(vRecvMsg, pch) ==
    IF pch = <<>> THEN vRecvMsg
    ELSE LET v     == IF vRecvMsg = <<>> \/ complete(Last(vRecvMsg))
                      THEN Append(vRecvMsg, NewMessage) ELSE vRecvMsg
             nCopy == Min({nRemaining(Last(v)), Len(pch)})
             part  == SubSeq(pch, 1, nCopy)
         IN  ReceiveMsgBytes(
                 [v EXCEPT ![Len(v)] = IF in_data(@) THEN readData(@, part) ELSE readHeader(@, part)],
                 SubSeq(pch, nCopy + 1, Len(pch)))

GetTotalRecvSize(c) ==
    FoldSeq(LAMBDA msg, total : msg.size + HEADER_SIZE + total, 0, c.vRecvMsg)

-----------------------------------------------------------------------------
(* The socket thread.                                                      *)

\* What an end reads from.
PeerOpen(n) == link[Other(n)].open

\* Mutant: the size of the receive buffer is not looked at.
SelectWithoutFlood(c) ==
    IF c.thread # "send" /\ c.vSendMsg # <<>> THEN "send"
    ELSE IF c.thread # "recv" THEN "recv"
    ELSE "poll"

\* Which set the socket of c is put in before select.  A lock that the message
\* thread holds is a lock that TRY_LOCK does not get.
SelectFor(c) ==
    IF c.thread # "send" /\ c.vSendMsg # <<>> THEN "send"
    ELSE IF /\ c.thread # "recv"
            /\ \/ c.vRecvMsg = <<>>
               \/ ~complete(Head(c.vRecvMsg))
               \/ GetTotalRecvSize(c) <= ReceiveFloodSize
    THEN "recv"
    ELSE "poll"

Select(n) ==
    /\ link[n].open /\ ~link[n].fDisconnect
    /\ link[n].fd = "poll"
    /\ link' = [link EXCEPT ![n].fd = SelectFor(link[n])]

\* Data to read: recv returns some of it.
Receive(n) ==
    LET c == link[n]
        m == Other(n)
    IN  /\ c.open /\ c.fd = "recv" /\ c.thread # "recv"
        /\ \E k \in 1 .. Min({RecvChunk, Len(link[m].out)}) :
             link' = [link EXCEPT
                        ![n] = [c EXCEPT !.vRecvMsg = ReceiveMsgBytes(@, SubSeq(link[m].out, 1, k)),
                                         !.fd = "poll"],
                        ![m].out = SubSeq(@, k + 1, Len(@))]

\* The other end has closed the connection, and everything it sent is read.
ReceiveEnd(n) ==
    LET c == link[n]
    IN  /\ c.open /\ c.fd = "recv" /\ c.thread # "recv"
        /\ ~PeerOpen(n) /\ link[Other(n)].out = <<>>
        /\ link' = [link EXCEPT ![n] = [CloseSocketDisconnect(c, TRUE) EXCEPT !.fd = "poll"]]

Send(n) ==
    LET c == link[n]
    IN  /\ c.open /\ c.fd = "send" /\ c.thread # "send"
        /\ Room(c) > 0 \/ ~PeerOpen(n)
        /\ \E d \in SocketSendData(c, PeerOpen(n), c.thread # "recv") :
             link' = [link EXCEPT ![n] = [d EXCEPT !.fd = "poll"]]

\* Select times out, or the lock of the buffer is not free: the next round begins.
ServeNothing(n) ==
    LET c == link[n]
    IN  /\ c.fd # "poll"
        /\ \/ ~c.open
           \/ c.fd = "recv" /\ (c.thread = "recv" \/ (PeerOpen(n) /\ link[Other(n)].out = <<>>))
           \/ c.fd = "send" /\ (c.thread = "send" \/ (PeerOpen(n) /\ Room(c) = 0))
        /\ link' = [link EXCEPT ![n].fd = "poll"]

\* No message for too long (TIMEOUT_INTERVAL); time is not modelled, so it may always
\* have been too long.
Inactive(n) ==
    /\ link[n].open /\ link[n].fd = "poll" /\ ~link[n].fDisconnect
    /\ link' = [link EXCEPT ![n].fDisconnect = TRUE]

\* "Disconnect nodes" at the start of a round.
Disconnect(n) ==
    /\ link[n].open /\ link[n].fd = "poll" /\ link[n].fDisconnect
    /\ link' = [link EXCEPT ![n] = CloseSocketDisconnect(@, link[n].thread # "recv")]

-----------------------------------------------------------------------------
(* The message thread.                                                     *)

\* The thread gets the lock for its next piece of work, or TRY_LOCK(cs_vRecvMsg) fails
\* because the socket thread is reading.
TakeLock(n) ==
    /\ \/ /\ link[n].thread = "idle" /\ ~link[n].fDisconnect
          /\ \E thread \in {"recv", "between"} : link' = [link EXCEPT ![n].thread = thread]
       \/ /\ link[n].thread = "between"
          /\ link' = [link EXCEPT ![n].thread = "send"]

\* ProcessGetData: one block, if there is room for it in the send buffer.
ProcessGetData(c, peerOpen) ==
    IF c.vRecvGetData = 0 \/ c.nSendSize >= SendBufferSize THEN {c}
    ELSE EndMessage([c EXCEPT !.vRecvGetData = @ - 1], "block", peerOpen, TRUE)

\* The loop of ProcessMessages, which handles one message at most.
ProcessMessage(c, peerOpen) ==
    IF \/ c.fDisconnect
       \/ c.vRecvMsg = <<>>
       \/ c.nSendSize >= SendBufferSize
       \/ ~complete(Head(c.vRecvMsg))
    THEN {c}
    ELSE LET command == Head(c.vRecvMsg).hdrbuf[1][1]
             noted   == [c EXCEPT !.handled = Append(@, command),
                                  !.vRecvGetData = @ + Asks[command]]
         IN  {IF d.fDisconnect THEN d ELSE [d EXCEPT !.vRecvMsg = Tail(@)] :
                  d \in ProcessGetData(noted, peerOpen)}

ProcessMessages(n) ==
    /\ link[n].thread = "recv"
    /\ \E c \in ProcessGetData(link[n], PeerOpen(n)) :
         \E d \in IF c.vRecvGetData > 0 THEN {c} ELSE ProcessMessage(c, PeerOpen(n)) :
            link' = [link EXCEPT ![n] = [d EXCEPT !.thread = "between"]]

\* SendMessages, which has nothing to send or a request.
SendMessages(n) ==
    LET c        == link[n]
        requests == SelectSeq(c.sent, LAMBDA command : command # "block")
    IN  /\ c.thread = "send"
        /\ \/ link' = [link EXCEPT ![n].thread = "idle"]
           \/ /\ Len(requests) < MaxRequests
              /\ \E command \in Command \ {"block"} :
                   \E d \in EndMessage(c, command, PeerOpen(n), TRUE) :
                      link' = [link EXCEPT ![n] = [d EXCEPT !.thread = "idle"]]

\* Both ends are done with the connection, and a new one is made.
Reconnect ==
    /\ \A n \in End : ~link[n].open /\ link[n].fd = "poll" /\ link[n].thread = "idle"
    /\ link' = [n \in End |-> NewNode]

LinkInit == link = [n \in End |-> NewNode]

LinkNext ==
    \/ Reconnect
    \/ \E n \in End :
         \/ Select(n) \/ Receive(n) \/ ReceiveEnd(n) \/ Send(n) \/ ServeNothing(n)
         \/ Inactive(n) \/ Disconnect(n)
         \/ TakeLock(n) \/ ProcessMessages(n) \/ SendMessages(n)

LinkSpec == LinkInit /\ [][LinkNext]_linkVars

-----------------------------------------------------------------------------
(* Properties.                                                             *)

Stream(commands) == FlattenSeq([i \in DOMAIN commands |-> Bytes(commands[i])])

ReceivedBytes(vRecvMsg) ==
    FlattenSeq([i \in DOMAIN vRecvMsg |-> vRecvMsg[i].hdrbuf \o vRecvMsg[i].data])

\* Wherever TCP cuts the stream, and whenever the two threads meet, nothing of it
\* is lost, repeated or reordered: what an end passed to EndMessage is what the other
\* has handled, has in vRecvMsg, has still to read, and what is left in vSendMsg
\* from nSendOffset on.  nSendSize and nSendOffset are right, as the asserts of
\* SocketSendData want them, and what is handled over a connection that breaks is
\* the beginning of what was sent.
StreamExact ==
    \A n \in End :
        LET c == link[n]
            d == link[Other(n)]
            unsent == Stream(c.vSendMsg)
        IN  /\ c.nSendSize = SizeOf(c.vSendMsg)
            /\ c.nSendOffset <= IF c.vSendMsg = <<>> THEN 0 ELSE Size(Head(c.vSendMsg)) - 1
            /\ IsPrefix(d.handled, c.sent)
            /\ d.open => Stream(c.sent) = Stream(d.handled) \o ReceivedBytes(d.vRecvMsg) \o c.out
                                             \o SubSeq(unsent, c.nSendOffset + 1, Len(unsent))

\* The check before select keeps the receive buffer bounded, though it is old when recv
\* is called: the buffer is never larger than ReceiveFloodSize, or one message,
\* and what a single recv adds, with the header and the memory that are set aside
\* for a message that has only begun.
ReceiveBufferBounded ==
    \A n \in End :
        GetTotalRecvSize(link[n]) <=
            Max({ReceiveFloodSize} \cup {Size(c) : c \in Command}) + RecvChunk + HEADER_SIZE + ReadAhead

\* The three things of the comment in ThreadSocketHandler: the node sends some data,
\* waits for data to be received, or processes a message that it has.
SendsData(c) == c.vSendMsg # <<>> /\ Room(c) > 0

WaitsForData(c) == SelectFor([c EXCEPT !.thread = "idle"]) = "recv"

ProcessesMessage(c) ==
    /\ c.nSendSize < SendBufferSize
    /\ c.vRecvGetData > 0 \/ (c.vRecvMsg # <<>> /\ complete(Head(c.vRecvMsg)))

\* "at least one of the following is always possible, so we don't deadlock": of two
\* connected nodes, one can always do one of the three.
LinkNeverStalls ==
    (\A n \in End : link[n].open /\ ~link[n].fDisconnect) =>
        \E n \in End : SendsData(link[n]) \/ WaitsForData(link[n]) \/ ProcessesMessage(link[n])
=============================================================================
