------------------------------ MODULE Network -------------------------------
(***************************************************************************)
(* NetworkSource and NetworkSink of cryptopp562/network.cpp, with the      *)
(* receivers and senders of socketft.cpp and winpipes.cpp under them: what *)
(* a peer sends is pumped through a relay to another peer.  The sink is    *)
(* fed by a source, or by a client of its own.                             *)
(*                                                                         *)
(* One thread calls.  It can be kept waiting wherever the code calls Wait, *)
(* and a call that returns nonzero is made again with the same parameters  *)
(* (cryptlib.h:756-763).  No bandwidth limit is set, the default.          *)
(***************************************************************************)
EXTENDS Integers, Sequences, SequencesExt

CONSTANTS
  Streams,           \* what the peer may have to send
  Delimiter,         \* the byte at which PumpLine stops
  BufSize,           \* of m_buf, 16384 in the code
  MaxBufferSizes, AutoFlushBounds,   \* arguments of the sink's constructor
  PumpSizes, FlushSizes              \* arguments of Pump2 and TimedFlush

Byte == 0 .. 255

ASSUME NetworkAssumption ==
  /\ Streams \subseteq Seq(Byte)
  /\ BufSize \in Nat \ {0}
  /\ MaxBufferSizes \cup AutoFlushBounds \cup PumpSizes \cup FlushSizes \subseteq Nat

VARIABLES
  kind, driver, m_maxBufferSize, m_autoFlushBound,     \* chosen once
  stream, todo,                  \* the peer's bytes, and those not yet received
  m_buf, m_dataBegin, m_dataEnd, m_putSize, m_waitingForResult, m_outputBlocked,
  m_messageEndSent, arrived, m_resultPending, m_eofReceived,  \* the source and its receiver
  m_buffer, m_needSendResult, m_skipBytes, m_eofState,
  block, wire, m_lastResult,                           \* the sink and its sender
  pc, call, byteCount, put, flush, ret                 \* the calling thread

config == <<kind, driver, m_maxBufferSize, m_autoFlushBound, stream>>
receiver == <<todo, m_buf, arrived, m_resultPending, m_eofReceived>>
source == <<m_dataBegin, m_dataEnd, m_putSize, m_waitingForResult, m_outputBlocked, m_messageEndSent>>
sink == <<m_buffer, m_skipBytes, m_eofState>>
sender == <<m_needSendResult, block, wire, m_lastResult>>
thread == <<pc, call, byteCount, put, flush, ret>>
vars == <<config, receiver, source, sink, sender, thread>>

MustWaitToReceive == kind = "berkeley"
MustWaitToSend == kind = "berkeley"
MustWaitForResult == kind # "berkeley"
MustWaitForEof == kind = "windows socket"

\* maxTime: 0, a number of milliseconds, or INFINITE_TIME.
Time == {"none", "some", "forever"}
MayTimeOut(time) == time # "forever"

LWORD_MAX == Len(stream) + 1
Lower(a, b) == IF a < b THEN a ELSE b

NoCall == [op |-> "none", size |-> 0, time |-> "none", blocking |-> TRUE, line |-> FALSE]
NoPut == [s |-> <<>>, messageEnd |-> FALSE, blocking |-> TRUE, back |-> "return"]
NoFlush == [time |-> "none", target |-> 0, back |-> "return"]

Init ==
  /\ kind \in {"windows socket", "windows pipe", "berkeley"}
  /\ driver \in {"source", "client"}
  /\ m_maxBufferSize \in MaxBufferSizes
  /\ m_autoFlushBound \in AutoFlushBounds
  /\ stream \in Streams /\ todo = stream
  /\ m_buf = [i \in 1 .. BufSize |-> 0]
  /\ m_dataBegin = 0 /\ m_dataEnd = 0 /\ m_putSize = 0
  /\ m_waitingForResult = FALSE /\ m_outputBlocked = FALSE
  /\ m_messageEndSent = FALSE
  /\ arrived = 0 /\ m_resultPending = FALSE /\ m_eofReceived = FALSE
  /\ m_buffer = <<>> /\ m_needSendResult = FALSE /\ m_skipBytes = 0
  /\ m_eofState = "EOF_NONE"
  /\ block = <<>> /\ wire = <<>> /\ m_lastResult = 0
  /\ pc = "idle" /\ call = NoCall /\ byteCount = 0 /\ put = NoPut /\ flush = NoFlush
  /\ ret = 0

Goto(label) == pc' = label /\ UNCHANGED <<call, byteCount, put, flush, ret>>

Return(result) ==
  /\ pc' = "return" /\ ret' = result
  /\ UNCHANGED <<call, byteCount, put, flush>>

-----------------------------------------------------------------------------
\* NetworkSource::DoPump.

NoData == m_dataBegin = m_dataEnd

\* Receive puts what comes behind m_dataEnd.  An overlapped one may be pending
\* when it returns: GetReceiveResult then tells how much has come.
Receive ==
  \E n \in 0 .. Lower(BufSize - m_dataEnd, Len(todo)) :
    /\ n = 0 <=> todo = <<>>
    /\ todo' = SubSeq(todo, n + 1, Len(todo))
    /\ m_buf' = [i \in DOMAIN m_buf |-> IF i > m_dataEnd /\ i <= m_dataEnd + n
                                        THEN todo[i - m_dataEnd] ELSE m_buf[i]]
    /\ arrived' = n

\* Nothing is left in m_buf, and no more will come.
PumpedOut ==
  /\ pc = "DoPump" /\ NoData /\ m_eofReceived
  /\ Goto("pumped")
  /\ UNCHANGED <<config, receiver, source, sink, sender>>

\* A wait of the receiver's ends with the time.
ReceiveTimesOut ==
  /\ pc = "DoPump" /\ NoData /\ ~m_eofReceived /\ MayTimeOut(call.time)
  /\ IF m_waitingForResult
       THEN MustWaitForResult /\ UNCHANGED <<m_dataBegin, m_dataEnd>>
       ELSE MustWaitToReceive /\ m_dataBegin' = 0 /\ m_dataEnd' = 0
  /\ Goto("pumped")
  /\ UNCHANGED <<config, receiver, sink, sender, m_putSize, m_waitingForResult,
                 m_outputBlocked, m_messageEndSent>>

GetReceiveResult ==
  /\ pc = "DoPump" /\ NoData /\ ~m_eofReceived /\ m_waitingForResult
  /\ m_dataEnd' = m_dataEnd + arrived
  /\ m_eofReceived' = (arrived = 0)
  /\ m_waitingForResult' = FALSE /\ m_resultPending' = FALSE
  /\ IF ~MustWaitToReceive /\ ~m_eofReceived' /\ m_dataEnd' # BufSize
       THEN Goto("ReceiveNoWait") ELSE Goto("DoPump")
  /\ UNCHANGED <<config, todo, m_buf, arrived, sink, sender, m_dataBegin, m_putSize,
                 m_outputBlocked, m_messageEndSent>>

StartsToReceive ==
  /\ pc = "DoPump" /\ NoData /\ ~m_eofReceived /\ ~m_waitingForResult
  /\ m_dataBegin' = 0 /\ m_dataEnd' = 0
  /\ Goto(IF MustWaitToReceive THEN "ReceiveReady" ELSE "ReceiveNoWait")
  /\ UNCHANGED <<config, receiver, sink, sender, m_putSize, m_waitingForResult,
                 m_outputBlocked, m_messageEndSent>>

ReceiveReady ==
  /\ pc = "ReceiveReady"
  /\ Receive
  /\ m_waitingForResult' = TRUE
  /\ Goto("DoPump")
  /\ UNCHANGED <<config, m_resultPending, m_eofReceived, sink, sender, m_dataBegin, m_dataEnd, m_putSize,
                 m_outputBlocked, m_messageEndSent>>

\* Receive is called again as long as data is there and half of m_buf is free.
ReceiveNoWait ==
  /\ pc = "ReceiveNoWait"
  /\ Receive
  /\ \/ /\ m_waitingForResult' = TRUE /\ m_resultPending' = TRUE
        /\ UNCHANGED <<m_dataEnd, m_eofReceived>>
        /\ Goto("DoPump")
     \/ /\ m_dataEnd' = m_dataEnd + arrived'
        /\ m_eofReceived' = (arrived' = 0) /\ UNCHANGED m_resultPending
        /\ m_waitingForResult' = ~(m_eofReceived' \/ m_dataEnd' > BufSize \div 2)
        /\ Goto(IF m_waitingForResult' THEN "ReceiveNoWait" ELSE "DoPump")
  /\ UNCHANGED <<config, sink, sender, m_dataBegin, m_putSize, m_outputBlocked, m_messageEndSent>>

Data(first, n) == SubSeq(m_buf, first + 1, first + n)

\* The number of bytes before the delimiter, if there is one.
UpToDelimiter(s) ==
  IF call.line /\ Contains(s, Delimiter)
    THEN Min({i \in DOMAIN s : s[i] = Delimiter}) - 1 ELSE Len(s)

\* The call PutModifiable2 of the attached sink.
DoOutput(n) ==
  /\ pc' = "Put2"
  /\ put' = [s |-> Data(m_dataBegin, n), messageEnd |-> FALSE, blocking |-> call.blocking,
             back |-> "DoOutput"]
  /\ UNCHANGED <<call, flush, ret>>

Outputs ==
  /\ pc = "DoPump" /\ ~NoData
  /\ m_putSize' = UpToDelimiter(Data(m_dataBegin, Lower(m_dataEnd - m_dataBegin, call.size - byteCount)))
  /\ DoOutput(m_putSize') /\ UNCHANGED byteCount
  /\ UNCHANGED <<config, receiver, sink, sender, m_dataBegin, m_dataEnd, m_waitingForResult,
                 m_outputBlocked, m_messageEndSent>>

\* The sink has refused some: the source waits for it, or returns and is called
\* again.
OutputBlocked ==
  /\ pc = "DoOutput" /\ ret # 0
  /\ \/ DoOutput(m_putSize) /\ UNCHANGED <<byteCount, m_outputBlocked>>
     \/ MayTimeOut(call.time) /\ m_outputBlocked' = TRUE /\ Return(1)
  /\ UNCHANGED <<config, receiver, sink, sender, m_dataBegin, m_dataEnd, m_putSize,
                 m_waitingForResult, m_messageEndSent>>

PumpEnds ==
  \/ call.line /\ m_dataBegin' < m_dataEnd /\ m_buf[m_dataBegin' + 1] = Delimiter
  \/ byteCount' = call.size

OutputDone ==
  /\ pc = "DoOutput" /\ ret = 0
  /\ m_outputBlocked' = FALSE
  /\ byteCount' = byteCount + m_putSize
  /\ m_dataBegin' = m_dataBegin + m_putSize
  /\ pc' \in (IF PumpEnds THEN {"pumped"} ELSE {"DoPump"})
             \cup (IF call.time = "some" THEN {"pumped"} ELSE {})
  /\ UNCHANGED <<config, receiver, sink, sender, m_dataEnd, m_putSize, m_waitingForResult,
                 m_messageEndSent, call, put, flush, ret>>

\* Mutant: the end of the message goes out when no data is at hand.
SourceExhausted_NoData == NoData

SourceExhausted == NoData /\ m_eofReceived

\* PumpMessages2 goes on when its pump is done: the end of the message is passed
\* on once, by a call that blocks.
PumpReturns ==
  /\ pc = "pumped"
  /\ IF call.op = "PumpMessages2" /\ ~m_messageEndSent /\ SourceExhausted
       THEN /\ pc' = "Put2"
            /\ put' = [s |-> <<>>, messageEnd |-> TRUE, blocking |-> TRUE, back |-> "messageEnd"]
            /\ UNCHANGED <<call, byteCount, flush, ret>>
       ELSE Return(0)
  /\ UNCHANGED <<config, receiver, source, sink, sender>>

MessageEndSent ==
  /\ pc = "messageEnd"
  /\ m_messageEndSent' = (ret = 0)
  /\ Return(ret)
  /\ UNCHANGED <<config, receiver, sink, sender, m_dataBegin, m_dataEnd, m_putSize,
                 m_waitingForResult, m_outputBlocked>>

-----------------------------------------------------------------------------
\* NetworkSink.

EofPending == m_eofState \in {"EOF_PENDING_SEND", "EOF_PENDING_DELIVERY"}

\* TimedFlush, which may have nothing to do.
TimedFlush(time, target, back) ==
  /\ IF Len(m_buffer) <= target /\ (target # 0 \/ ~EofPending)
       THEN pc' = back /\ UNCHANGED flush
       ELSE pc' = "DoFlush" /\ flush' = [time |-> time, target |-> target, back |-> back]
  /\ UNCHANGED <<byteCount, put, ret>>

\* Mutant: the bytes taken by an earlier try are put again.
Skipped_None(s) == s

\* The bytes that earlier tries of the same call have taken are skipped.
Skipped(s) == SubSeq(s, m_skipBytes + 1, Len(s))

TargetSize == IF put.messageEnd THEN 0 ELSE m_maxBufferSize

\* EofSite: the end is sent, by this call or by one that is made again.
FlushEof ==
  /\ pc' = "DoFlush"
  /\ flush' = [time |-> IF put.blocking THEN "forever" ELSE "none", target |-> 0, back |-> "eofFlushed"]
  /\ UNCHANGED <<call, byteCount, put, ret>>

Put2 ==
  /\ pc = "Put2"
  /\ IF m_eofState = "EOF_NONE"
       THEN /\ m_buffer' = m_buffer \o Skipped(put.s)
            /\ Goto(IF ~put.blocking \/ Len(m_buffer') > m_autoFlushBound THEN "autoFlush" ELSE "put")
       ELSE FlushEof /\ UNCHANGED m_buffer
  /\ UNCHANGED <<config, receiver, source, sender, m_skipBytes, m_eofState>>

AutoFlush ==
  /\ pc = "autoFlush"
  /\ TimedFlush("none", 0, "put") /\ UNCHANGED call
  /\ UNCHANGED <<config, receiver, source, sink, sender>>

PutFlush ==
  /\ pc = "put"
  /\ IF put.blocking THEN TimedFlush("forever", TargetSize, "putFlushed") ELSE Goto("putFlushed")
  /\ UNCHANGED call
  /\ UNCHANGED <<config, receiver, source, sink, sender>>

PutReturns(result) ==
  /\ pc' = put.back /\ ret' = result
  /\ UNCHANGED <<call, byteCount, put, flush>>

\* Mutant: a put is never refused.
Blocked_Never == FALSE

Blocked == Len(m_buffer) > TargetSize

\* Mutant: the next put skips what this one had taken.
Restarted_Not == m_skipBytes

Restarted == 0

PutBlocked ==
  /\ pc = "putFlushed" /\ Blocked
  /\ m_skipBytes' = m_skipBytes + Len(Skipped(put.s))
  /\ PutReturns(1)
  /\ UNCHANGED <<config, receiver, source, sender, m_buffer, m_eofState>>

PutDone ==
  /\ pc = "putFlushed" /\ ~Blocked
  /\ m_skipBytes' = Restarted
  /\ IF put.messageEnd
       THEN m_eofState' = "EOF_PENDING_SEND" /\ FlushEof
       ELSE UNCHANGED m_eofState /\ PutReturns(0)
  /\ UNCHANGED <<config, receiver, source, sender, m_buffer>>

EofFlushed ==
  /\ pc = "eofFlushed"
  /\ PutReturns(IF m_eofState = "EOF_DONE" THEN 0 ELSE 1)
  /\ UNCHANGED <<config, receiver, source, sink, sender>>

-----------------------------------------------------------------------------
\* NetworkSink::DoFlush.

Flushes == pc = "DoFlush" /\ Len(m_buffer) > flush.target
Sends == pc = "DoSend" \/ (Flushes /\ ~m_needSendResult)

FlushTimesOut ==
  /\ \/ Flushes /\ m_needSendResult /\ MustWaitForResult
     \/ Sends /\ MustWaitToSend
  /\ MayTimeOut(flush.time)
  /\ Goto("flushEof")
  /\ UNCHANGED <<config, receiver, source, sink, sender>>

\* Mutant: all that was handed to the sender is taken for sent.
Sent_All(n) == Len(block)

Sent(n) == n

\* Of the block in flight the sender has sent n bytes.
GetSendResult ==
  /\ Flushes /\ m_needSendResult
  /\ \E n \in 1 .. Len(block) :
       /\ wire' = wire \o SubSeq(block, 1, n)
       /\ m_buffer' = SubSeq(m_buffer, Sent(n) + 1, Len(m_buffer))
       /\ m_lastResult' = n
  /\ m_needSendResult' = FALSE /\ block' = <<>>
  /\ Goto(IF m_buffer' = <<>> THEN "flushEof" ELSE "DoSend")
  /\ UNCHANGED <<config, receiver, source, m_skipBytes, m_eofState>>

\* A piece from the front of the queue: Spy shows its first node.
Send ==
  /\ Sends
  /\ \E n \in 1 .. Len(m_buffer) : block' = SubSeq(m_buffer, 1, n)
  /\ m_needSendResult' = TRUE
  /\ \/ Goto("DoFlush")
     \/ flush.time = "some" /\ Goto("flushEof")
  /\ UNCHANGED <<config, receiver, source, sink, wire, m_lastResult>>

Flushed == m_buffer = <<>> /\ ~m_needSendResult

FlushReturns == Goto(flush.back)

SendEof ==
  /\ pc \in {"flushEof", "DoFlush"} /\ ~Flushes
  /\ IF Flushed /\ m_eofState = "EOF_PENDING_SEND"
       THEN /\ m_eofState' = IF MustWaitForEof THEN "EOF_PENDING_DELIVERY" ELSE "EOF_DONE"
            /\ IF MustWaitForEof THEN Goto("eofWait") ELSE FlushReturns
       ELSE /\ UNCHANGED m_eofState
            /\ IF Flushed /\ m_eofState = "EOF_PENDING_DELIVERY" THEN Goto("eofWait") ELSE FlushReturns
  /\ UNCHANGED <<config, receiver, source, sender, m_buffer, m_skipBytes>>

\* EofSent answers whether the last send sent anything.  If nothing was ever
\* sent the loop goes on, and no wait in it takes time: no result is pending.
EofWait ==
  /\ pc = "eofWait"
  /\ m_eofState' = IF m_lastResult # 0 THEN "EOF_DONE" ELSE m_eofState
  /\ IF m_lastResult # 0 THEN FlushReturns ELSE Goto("eofSpin")
  /\ UNCHANGED <<config, receiver, source, sender, m_buffer, m_skipBytes>>

EofSpins == pc = "eofSpin" /\ UNCHANGED vars

EofTimesOut ==
  /\ pc = "eofWait" /\ MayTimeOut(flush.time)
  /\ FlushReturns
  /\ UNCHANGED <<config, receiver, source, sink, sender>>

-----------------------------------------------------------------------------
\* The client: it starts a call, or makes the one that blocked again.

Pumps ==
  [op : {"PumpMessages2"}, size : {LWORD_MAX}, time : {"none"}, blocking : {FALSE}, line : {FALSE}]
  \cup [op : {"PumpMessages2"}, size : {LWORD_MAX}, time : {"forever"}, blocking : {TRUE}, line : {FALSE}]
  \cup [op : {"GeneralPump2"}, size : PumpSizes \cup {LWORD_MAX}, time : {"none", "some"},
        blocking : BOOLEAN, line : {FALSE}]
  \cup [op : {"GeneralPump2"}, size : {LWORD_MAX}, time : {"forever"}, blocking : {TRUE}, line : {TRUE}]

\* The only way on after a call that blocked is the same call.
MayCall(c) == ret # 0 => c = call

Pump(c) ==
  /\ pc = "idle" /\ driver = "source" /\ MayCall(c)
  /\ call' = c /\ byteCount' = 0
  /\ IF m_outputBlocked
       THEN /\ pc' = "Put2"
            /\ put' = [s |-> Data(m_dataBegin, m_putSize), messageEnd |-> FALSE,
                       blocking |-> c.blocking, back |-> "DoOutput"]
       ELSE pc' = "DoPump" /\ UNCHANGED put
  /\ UNCHANGED <<config, receiver, source, sink, sender, flush, ret>>

\* A client of the sink puts its bytes, and the end of the message with the last
\* ones or after them.
Puts(n, messageEnd, blocking) ==
  LET s == SubSeq(todo, 1, n)
      c == [op |-> "Put2", size |-> n, time |-> "none", blocking |-> blocking, line |-> messageEnd]
  IN  /\ pc = "idle" /\ driver = "client" /\ MayCall(c)
      /\ messageEnd => n = Len(todo)
      /\ call' = c /\ pc' = "Put2"
      /\ put' = [s |-> s, messageEnd |-> messageEnd, blocking |-> blocking, back |-> "return"]
      /\ UNCHANGED <<config, receiver, source, sink, sender, byteCount, flush, ret>>

Flush(time, target) ==
  /\ pc = "idle" /\ ret = 0
  /\ call' = [NoCall EXCEPT !.op = "TimedFlush"]
  /\ TimedFlush(time, target, "return")
  /\ UNCHANGED <<config, receiver, source, sink, sender>>

Returns ==
  /\ pc = "return"
  /\ pc' = "idle"
  /\ todo' = IF call.op = "Put2" /\ ret = 0 THEN SubSeq(todo, call.size + 1, Len(todo)) ELSE todo
  /\ put' = NoPut /\ flush' = NoFlush
  /\ UNCHANGED <<config, m_buf, arrived, m_resultPending, m_eofReceived, source, sink, sender, call, byteCount, ret>>

Client ==
  \/ \E c \in Pumps : Pump(c)
  \/ \E n \in 1 .. 2, messageEnd, blocking \in BOOLEAN : n <= Len(todo) /\ Puts(n, messageEnd, blocking)
  \/ m_eofState # "EOF_DONE" /\ \E blocking \in BOOLEAN : Puts(Len(todo), TRUE, blocking)
  \/ \E time \in Time, target \in FlushSizes : Flush(time, target)

Runs ==
  \/ PumpedOut \/ ReceiveTimesOut \/ GetReceiveResult \/ StartsToReceive \/ ReceiveReady \/ ReceiveNoWait
  \/ Outputs \/ OutputBlocked \/ OutputDone \/ PumpReturns \/ MessageEndSent
  \/ Put2 \/ AutoFlush \/ PutFlush \/ PutBlocked \/ PutDone \/ EofFlushed
  \/ FlushTimesOut \/ GetSendResult \/ Send \/ SendEof \/ EofWait \/ EofTimesOut \/ EofSpins
  \/ Returns

Next == Client \/ Runs

\* The peers go on, and so does the client: it pumps, or puts what is left.
Goes ==
  \/ Pump([op |-> "PumpMessages2", size |-> LWORD_MAX, time |-> "forever", blocking |-> TRUE, line |-> FALSE])
  \/ m_eofState # "EOF_DONE" /\ Puts(Len(todo), TRUE, TRUE)
  \/ ret # 0 /\ Client

Fairness ==
  /\ WF_vars(Runs) /\ SF_vars(Goes)
  /\ SF_vars(GetReceiveResult) /\ SF_vars(StartsToReceive) /\ SF_vars(ReceiveReady)
  /\ SF_vars(GetSendResult) /\ SF_vars(Send) /\ SF_vars(EofWait)

Spec == Init /\ [][Next]_vars /\ Fairness

-----------------------------------------------------------------------------
\* What reaches the peer is what the other one sent, in order, nothing lost and
\* nothing twice, however often calls time out, are refused and made again
\* (network.cpp:432-458, 487-517).
WireIsPrefix == IsPrefix(wire, stream)

\* The assertions of the code: a blocking Put2 is never refused, and a refused
\* one is made again with at least the bytes already taken (network.cpp:434,
\* 450); nothing is received while a result is pending or after the end, and
\* nothing sent while one is pending (socketft.cpp:330,412, winpipes.cpp:91).
AssertionsHold ==
  /\ pc = "Put2" /\ m_eofState = "EOF_NONE" => Len(put.s) >= m_skipBytes
  /\ pc = "putFlushed" /\ put.blocking => ~Blocked
  /\ pc \in {"ReceiveReady", "ReceiveNoWait"} => ~m_resultPending /\ ~m_eofReceived
  /\ Sends => ~m_needSendResult

\* The end of the stream is sent after the stream, and the memory that a send in
\* progress reads stays at the front of the queue (network.cpp:511-517, 526-532).
EofIsLast ==
  /\ m_eofState \in {"EOF_PENDING_DELIVERY", "EOF_DONE"} => wire = stream /\ ~m_needSendResult
  /\ m_needSendResult => IsPrefix(block, m_buffer)

\* The bytes of the put that the sink has refused, if the last call came back
\* with that.
Refused == IF ret = 0 THEN 0 ELSE IF driver = "source" THEN m_putSize ELSE call.size

\* Between calls, of a relay or of a client of the sink, the queue keeps no more
\* than it may and, when a put was refused, the bytes of that put, however often
\* it is made again (network.cpp:432-459).
BufferBounded == pc = "idle" => Len(m_buffer) <= m_maxBufferSize + Refused

\* A stream that is not empty arrives, and so does its end (network.cpp:461-468,
\* 534-542).  For an empty one EofSent never answers true.
Delivered == stream # <<>> => <>(wire = stream /\ m_eofState = "EOF_DONE")
=============================================================================
