--------------------------- MODULE Network_proofs ---------------------------
(***************************************************************************)
(* NetworkSource and NetworkSink between two peers, for every stream,      *)
(* buffer size, bound and kind of connection: what arrives is what was     *)
(* sent, in order and once, with its end behind it; no assertion of the    *)
(* code fails; the queue keeps its bound.                                  *)
(***************************************************************************)
EXTENDS Network, CommonLemmas

-----------------------------------------------------------------------------
(* The inductive invariant.                                                *)

FlushLabel == {"DoFlush", "DoSend", "flushEof", "eofWait", "eofSpin"}
TakenLabel == {"autoFlush", "put", "putFlushed"}
PutLabel == {"Put2", "DoOutput", "eofFlushed"} \cup TakenLabel
PumpLabel == {"DoPump", "ReceiveReady", "ReceiveNoWait", "pumped", "messageEnd"}
Label == {"idle", "return"} \cup FlushLabel \cup PutLabel \cup PumpLabel

ConfigTypeOK ==
  /\ kind \in {"windows socket", "windows pipe", "berkeley"}
  /\ driver \in {"source", "client"}
  /\ m_maxBufferSize \in Nat /\ m_autoFlushBound \in Nat
  /\ stream \in Seq(Byte)

ReceiverTypeOK ==
  /\ todo \in Seq(Byte)
  /\ m_buf \in Seq(Byte) /\ Len(m_buf) = BufSize
  /\ arrived \in Nat /\ m_resultPending \in BOOLEAN /\ m_eofReceived \in BOOLEAN

SourceTypeOK ==
  /\ m_dataBegin \in Nat /\ m_dataEnd \in Nat /\ m_putSize \in Nat
  /\ m_waitingForResult \in BOOLEAN /\ m_outputBlocked \in BOOLEAN /\ m_messageEndSent \in BOOLEAN

SinkTypeOK ==
  /\ m_buffer \in Seq(Byte) /\ m_skipBytes \in Nat
  /\ m_eofState \in {"EOF_NONE", "EOF_PENDING_SEND", "EOF_PENDING_DELIVERY", "EOF_DONE"}

SenderTypeOK ==
  /\ m_needSendResult \in BOOLEAN /\ m_lastResult \in Nat
  /\ block \in Seq(Byte) /\ wire \in Seq(Byte)

ThreadTypeOK ==
  /\ pc \in Label
  /\ call \in [op : {"none", "PumpMessages2", "GeneralPump2", "Put2", "TimedFlush"},
                size : Nat, time : Time, blocking : BOOLEAN, line : BOOLEAN]
  /\ byteCount \in Nat
  /\ put \in [s : Seq(Byte), messageEnd : BOOLEAN, blocking : BOOLEAN,
               back : {"DoOutput", "messageEnd", "return"}]
  /\ flush \in [time : Time, target : Nat, back : {"put", "putFlushed", "eofFlushed", "return"}]
  /\ ret \in {0, 1}

TypeOK ==
  ConfigTypeOK /\ ReceiverTypeOK /\ SourceTypeOK /\ SinkTypeOK /\ SenderTypeOK /\ ThreadTypeOK

\* Where the thread is, the flushes it may be in left out.
At == IF pc \in FlushLabel THEN flush.back ELSE pc

\* The bytes received whose number the source does not know yet.
Pending == IF m_waitingForResult /\ pc # "ReceiveNoWait" THEN arrived ELSE 0

\* Bytes in m_buf that no put has been done with.
Held == m_dataEnd + Pending - m_dataBegin

\* Of the bytes that the source or the client still holds, those that the sink
\* has taken too.
Taken ==
  IF m_eofState # "EOF_NONE" THEN (IF driver = "client" THEN Len(todo) ELSE 0)
  ELSE IF At \in TakenLabel THEN Len(put.s)
  ELSE IF ret = 0 /\ At = "DoOutput" THEN m_putSize
  ELSE IF ret = 0 /\ At = "return" /\ call.op = "Put2" THEN call.size
  ELSE m_skipBytes

\* The bytes of the stream that nobody but the sink and the peer has.
Done == Len(wire) + Len(m_buffer) - Taken

\* s is what the stream has after its first k bytes.
Continues(s, k) ==
  /\ k + Len(s) <= Len(stream)
  /\ \A i \in 1 .. Len(s) : s[i] = stream[k + i]

\* Every byte of the stream is in its place: on the wire, in the queue, in m_buf
\* or with the peer.
InOrder ==
  /\ Continues(wire, 0)
  /\ Continues(m_buffer, Len(wire))
  /\ 0 <= Done
  /\ \A i \in 1 .. Held : m_buf[m_dataBegin + i] = stream[Done + i]
  /\ Continues(todo, Done + Held)
  /\ Done + Held + Len(todo) = Len(stream)

\* The indices into m_buf, and what the end of the stream means for them.
ReceiverOK ==
  /\ m_dataBegin <= m_dataEnd /\ m_dataEnd + Pending <= BufSize
  /\ m_eofReceived => todo = <<>> /\ ~m_waitingForResult
  /\ m_waitingForResult /\ pc # "ReceiveNoWait" /\ arrived = 0 => todo = <<>>
  /\ m_resultPending => m_waitingForResult /\ pc # "ReceiveNoWait"
  /\ pc = "ReceiveNoWait" => ~m_eofReceived
  /\ pc = "ReceiveReady" => m_dataBegin = m_dataEnd /\ ~m_eofReceived /\ ~m_waitingForResult
  /\ driver = "client" => m_dataEnd = 0 /\ ~m_waitingForResult /\ ~m_eofReceived

\* What the put in progress is, and how much of it earlier tries have taken.
PutOK ==
  /\ At \in PutLabel /\ put.back = "DoOutput" =>
       /\ driver = "source" /\ ~put.messageEnd
       /\ put.s = Data(m_dataBegin, m_putSize) /\ m_dataBegin + m_putSize <= m_dataEnd
  /\ At \in PutLabel /\ put.back = "messageEnd" =>
       driver = "source" /\ put.messageEnd /\ put.blocking /\ put.s = <<>>
         /\ Held = 0 /\ todo = <<>> /\ m_skipBytes = 0
  /\ At \in PutLabel /\ put.back = "return" =>
       /\ driver = "client" /\ call.op = "Put2" /\ put.s = SubSeq(todo, 1, call.size)
       /\ put.messageEnd = call.line
  /\ At = "DoOutput" => put.back = "DoOutput"
  /\ At \in PutLabel => m_skipBytes <= Len(put.s)
  /\ At = "messageEnd" => driver = "source" /\ Held = 0 /\ todo = <<>>

\* Which call runs, and what is left over for the one that is made again.
CallOK ==
  /\ call.op \in {"PumpMessages2", "GeneralPump2"} => driver = "source"
  /\ pc \in PumpLabel => driver = "source" /\ call.op # "Put2"
  /\ call.op = "Put2" =>
       /\ driver = "client"
       /\ pc # "idle" \/ ret # 0 =>
            call.size <= Len(todo) /\ (call.line => call.size = Len(todo))
  /\ m_outputBlocked =>
       /\ driver = "source" /\ m_dataBegin + m_putSize <= m_dataEnd
       /\ m_eofState = "EOF_NONE"
       /\ \/ At \in PutLabel /\ put.back = "DoOutput"
          \/ pc \in {"return", "idle"} /\ ret # 0
  /\ m_skipBytes # 0 =>
       \/ At \in PutLabel \ {"DoOutput", "eofFlushed"}
       \/ At = "DoOutput" /\ ret # 0
       \/ pc \in {"return", "idle"} /\ ret # 0 /\ m_outputBlocked /\ m_skipBytes <= m_putSize
       \/ pc \in {"return", "idle"} /\ ret # 0 /\ call.op = "Put2" /\ m_skipBytes <= call.size

\* Once the end of the stream is to be sent nothing is left to put.
EofOK ==
  /\ m_eofState # "EOF_NONE" =>
       /\ m_buffer = <<>> /\ m_skipBytes = 0
       /\ At \notin TakenLabel /\ (At \in PutLabel => put.back # "DoOutput")
       /\ IF driver = "source" THEN Held = 0 /\ todo = <<>>
          ELSE \/ todo = <<>>
               \/ call.op = "Put2" /\ call.line /\ (pc # "idle" \/ ret # 0)
  /\ pc \in {"eofWait", "eofSpin"} \/ At = "eofFlushed" => m_eofState # "EOF_NONE"

\* The flush in progress, and what it has come to.
FlushOK ==
  /\ pc \in FlushLabel /\ flush.back = "putFlushed" =>
       flush.time = "forever" /\ flush.target = TargetSize
  /\ pc \in FlushLabel /\ flush.back = "return" => call.op = "TimedFlush"
  /\ pc = "flushEof" => m_buffer = <<>> \/ MayTimeOut(flush.time)
  /\ pc = "putFlushed" /\ put.blocking => ~Blocked
  /\ m_needSendResult => block # <<>> /\ IsPrefix(block, m_buffer)
  /\ pc = "DoSend" => ~m_needSendResult

\* The queue is over its bound by no more than the put in progress, or refused,
\* has added.
QueueOK ==
  Len(m_buffer) <= m_maxBufferSize + (IF At \in TakenLabel THEN Len(put.s) ELSE m_skipBytes)

\* Inductive.
IInv ==
  /\ TypeOK /\ InOrder /\ ReceiverOK /\ PutOK /\ CallOK /\ EofOK /\ FlushOK /\ QueueOK

-----------------------------------------------------------------------------
(* Sequences of bytes, and what continues the stream.                      *)

\* A piece of a sequence of bytes: its type, length and elements.
LEMMA SubSeqFacts ==
  ASSUME NEW s \in Seq(Byte), NEW m \in Nat \ {0}, NEW n \in Nat, n <= Len(s)
  PROVE  /\ SubSeq(s, m, n) \in Seq(Byte)
         /\ Len(SubSeq(s, m, n)) = IF m <= n THEN n + 1 - m ELSE 0
         /\ \A i \in 1 .. Len(SubSeq(s, m, n)) : SubSeq(s, m, n)[i] = s[m - 1 + i]
OBVIOUS

\* Two sequences of bytes one after the other.
LEMMA ConcatFacts ==
  ASSUME NEW s \in Seq(Byte), NEW t \in Seq(Byte)
  PROVE  /\ s \o t \in Seq(Byte) /\ Len(s \o t) = Len(s) + Len(t)
         /\ \A i \in 1 .. Len(s) : (s \o t)[i] = s[i]
         /\ \A i \in 1 .. Len(t) : (s \o t)[Len(s) + i] = t[i]
OBVIOUS

\* IsPrefix compares element by element.
LEMMA PrefixFacts ==
  ASSUME NEW s \in Seq(Byte), NEW t \in Seq(Byte)
  PROVE  IsPrefix(s, t) <=> Len(s) <= Len(t) /\ \A i \in 1 .. Len(s) : s[i] = t[i]
BY DEF IsPrefix

\* The empty sequence is the one of length 0.
LEMMA Empty == ASSUME NEW s \in Seq(Byte) PROVE s = <<>> <=> Len(s) = 0
OBVIOUS

\* A piece of what continues the stream continues it from where the piece starts.
LEMMA ContinuesSubSeq ==
  ASSUME stream \in Seq(Byte), NEW s \in Seq(Byte), NEW k \in Nat, Continues(s, k),
         NEW m \in Nat \ {0}, NEW n \in Nat, n <= Len(s), m <= n + 1
  PROVE  Continues(SubSeq(s, m, n), k + m - 1)
BY SubSeqFacts DEF Continues

\* What continues the stream, and what continues it from there.
LEMMA ContinuesConcat ==
  ASSUME stream \in Seq(Byte), NEW s \in Seq(Byte), NEW t \in Seq(Byte), NEW k \in Nat,
         Continues(s, k), Continues(t, k + Len(s))
  PROVE  Continues(s \o t, k)
<1>1. \A i \in 1 .. Len(s) + Len(t) : i \in 1 .. Len(s) \/ (i - Len(s) \in 1 .. Len(t) /\ i = Len(s) + (i - Len(s)))
  OBVIOUS
<1> QED BY <1>1, ConcatFacts DEF Continues

-----------------------------------------------------------------------------
(* What the invariant says, piece by piece.                                *)

\* A step that moves no byte keeps the bytes in order.
LEMMA KeepsOrder ==
  ASSUME InOrder, UNCHANGED <<wire, m_buffer, stream, m_buf, m_dataBegin, m_dataEnd, todo>>,
         Pending' = Pending, Taken' = Taken
  PROVE  InOrder'
BY DEF InOrder, Held, Done, Continues

\* The steps of the sink leave the source alone.
LEMMA SourceRests ==
  ASSUME TypeOK, ReceiverOK, UNCHANGED <<config, receiver, source>>,
         {pc, pc'} \cap {"ReceiveReady", "ReceiveNoWait"} = {}
  PROVE  /\ ConfigTypeOK' /\ ReceiverTypeOK' /\ SourceTypeOK'
         /\ Pending' = Pending /\ Held' = Held /\ ReceiverOK'
<1>1. ConfigTypeOK' /\ ReceiverTypeOK' /\ SourceTypeOK'
  BY DEF TypeOK, ConfigTypeOK, ReceiverTypeOK, SourceTypeOK, config, receiver, source
<1>2. Pending' = Pending /\ Held' = Held /\ ReceiverOK'
  BY DEF ReceiverOK, Pending, Held, config, receiver, source
<1> QED BY <1>1, <1>2

\* The type invariant, field by field.
LEMMA Types ==
  ASSUME TypeOK
  PROVE  /\ stream \in Seq(Byte) /\ todo \in Seq(Byte) /\ m_buffer \in Seq(Byte)
         /\ block \in Seq(Byte) /\ wire \in Seq(Byte)
         /\ m_buf \in Seq(Byte) /\ Len(m_buf) = BufSize /\ BufSize \in Nat \ {0}
         /\ m_dataBegin \in Nat /\ m_dataEnd \in Nat /\ m_putSize \in Nat /\ arrived \in Nat
         /\ m_skipBytes \in Nat /\ m_maxBufferSize \in Nat
         /\ call.size \in Nat /\ call.line \in BOOLEAN /\ call.time \in Time
         /\ call.blocking \in BOOLEAN
         /\ flush.target \in Nat /\ flush.time \in Time
         /\ flush.back \in {"put", "putFlushed", "eofFlushed", "return"}
         /\ put.s \in Seq(Byte) /\ put.messageEnd \in BOOLEAN /\ put.blocking \in BOOLEAN
         /\ put.back \in {"DoOutput", "messageEnd", "return"}
<1>1. /\ put \in [s : Seq(Byte), messageEnd : BOOLEAN, blocking : BOOLEAN,
                  back : {"DoOutput", "messageEnd", "return"}]
      /\ flush \in [time : Time, target : Nat, back : {"put", "putFlushed", "eofFlushed", "return"}]
      /\ call \in [op : {"none", "PumpMessages2", "GeneralPump2", "Put2", "TimedFlush"},
                   size : Nat, time : Time, blocking : BOOLEAN, line : BOOLEAN]
  BY DEF TypeOK, ThreadTypeOK
<1> QED BY <1>1, NetworkAssumption
        DEF TypeOK, ConfigTypeOK, ReceiverTypeOK, SourceTypeOK, SinkTypeOK, SenderTypeOK

\* The same, of the sequences alone.
LEMMA Sequences ==
  ASSUME TypeOK
  PROVE  /\ stream \in Seq(Byte) /\ todo \in Seq(Byte) /\ m_buffer \in Seq(Byte)
         /\ block \in Seq(Byte) /\ wire \in Seq(Byte) /\ m_buf \in Seq(Byte) /\ put.s \in Seq(Byte)
BY Types, Zenon

\* Of their lengths.
LEMMA Lengths ==
  ASSUME TypeOK
  PROVE  /\ Len(stream) \in Nat /\ Len(todo) \in Nat /\ Len(m_buffer) \in Nat
         /\ Len(block) \in Nat /\ Len(wire) \in Nat /\ Len(put.s) \in Nat
         /\ Len(m_buf) = BufSize /\ BufSize \in Nat
<1>1. Len(m_buf) = BufSize /\ BufSize \in Nat \ {0}
  BY Types, Zenon
<1> QED BY <1>1, Sequences

\* Of the numbers alone.
LEMMA Counts ==
  ASSUME TypeOK
  PROVE  /\ m_dataBegin \in Nat /\ m_dataEnd \in Nat /\ m_putSize \in Nat /\ arrived \in Nat
         /\ m_skipBytes \in Nat /\ m_maxBufferSize \in Nat /\ call.size \in Nat
BY Types, Zenon

\* The numbers that are derived from the state.
LEMMA Numbers ==
  ASSUME TypeOK
  PROVE  Pending \in Nat /\ Held \in Int /\ Taken \in Nat /\ Done \in Int
<1>1. Pending \in Nat
  BY Counts DEF Pending
<1>2. Held \in Int
  BY <1>1, Counts DEF Held
<1>3. Taken \in Nat
  BY Counts, Lengths DEF Taken
<1>4. Done \in Int
  BY <1>3, Lengths DEF Done
<1> QED BY <1>1, <1>2, <1>3, <1>4

\* What is in m_buf fits.
LEMMA DataFits ==
  ASSUME TypeOK, ReceiverOK
  PROVE  m_dataBegin <= m_dataEnd /\ m_dataEnd <= BufSize
<1>1. m_dataBegin <= m_dataEnd /\ m_dataEnd + Pending <= BufSize
  BY DEF ReceiverOK
<1>2. m_dataEnd \in Nat /\ Pending \in Nat /\ BufSize \in Nat
  BY Counts, Lengths, Numbers
<1> QED BY <1>1, <1>2

\* What a put in progress holds: a piece of m_buf, nothing, or the client's next bytes.
LEMMA PutIs ==
  ASSUME IInv, At \in PutLabel
  PROVE  /\ put.back = "DoOutput" =>
              /\ driver = "source" /\ ~put.messageEnd
              /\ Len(put.s) = m_putSize /\ m_putSize <= m_dataEnd - m_dataBegin
              /\ \A i \in 1 .. m_putSize : put.s[i] = m_buf[m_dataBegin + i]
         /\ put.back = "messageEnd" =>
              /\ driver = "source" /\ put.messageEnd /\ put.blocking
              /\ put.s = <<>> /\ Len(put.s) = 0 /\ Held = 0 /\ todo = <<>>
         /\ put.back = "return" =>
              /\ driver = "client" /\ call.op = "Put2" /\ put.messageEnd = call.line
              /\ Len(put.s) = call.size /\ call.size <= Len(todo) /\ Held = 0
              /\ call.line => call.size = Len(todo)
              /\ \A i \in 1 .. call.size : put.s[i] = todo[i]
<1>1. TypeOK /\ ReceiverOK /\ PutOK /\ CallOK
  BY DEF IInv
<1>2. ASSUME put.back = "DoOutput"
      PROVE  /\ driver = "source" /\ ~put.messageEnd
             /\ Len(put.s) = m_putSize /\ m_putSize <= m_dataEnd - m_dataBegin
             /\ \A i \in 1 .. m_putSize : put.s[i] = m_buf[m_dataBegin + i]
  <2>1. /\ driver = "source" /\ ~put.messageEnd
        /\ put.s = SubSeq(m_buf, m_dataBegin + 1, m_dataBegin + m_putSize)
        /\ m_dataBegin + m_putSize <= m_dataEnd
    BY <1>1, <1>2 DEF PutOK, Data
  <2>2. m_dataEnd <= BufSize
    BY <1>1, DataFits
  <2>3. /\ m_buf \in Seq(Byte) /\ Len(m_buf) = BufSize
        /\ m_dataBegin \in Nat /\ m_putSize \in Nat /\ m_dataEnd \in Nat /\ BufSize \in Nat
    BY <1>1, Types
  <2> QED BY <2>1, <2>2, <2>3, SubSeqFacts
<1>3. ASSUME put.back = "messageEnd"
      PROVE  /\ driver = "source" /\ put.messageEnd /\ put.blocking
             /\ put.s = <<>> /\ Len(put.s) = 0 /\ Held = 0 /\ todo = <<>>
  BY <1>1, <1>3 DEF PutOK
<1>4. ASSUME put.back = "return"
      PROVE  /\ driver = "client" /\ call.op = "Put2" /\ put.messageEnd = call.line
             /\ Len(put.s) = call.size /\ call.size <= Len(todo) /\ Held = 0
             /\ call.line => call.size = Len(todo)
             /\ \A i \in 1 .. call.size : put.s[i] = todo[i]
  <2>1. /\ driver = "client" /\ call.op = "Put2" /\ put.messageEnd = call.line
        /\ put.s = SubSeq(todo, 1, call.size)
    BY <1>1, <1>4 DEF PutOK
  <2>2. call.size <= Len(todo) /\ (call.line => call.size = Len(todo))
    BY <1>1, <2>1 DEF CallOK, At, PutLabel, TakenLabel, FlushLabel
  <2>3. Held = 0
    BY <1>1, <2>1, Types DEF ReceiverOK, Held, Pending
  <2>4. todo \in Seq(Byte) /\ call.size \in Nat
    BY <1>1, Types
  <2> QED BY <2>1, <2>2, <2>3, <2>4, SubSeqFacts
<1> QED BY <1>2, <1>3, <1>4

\* A put in progress continues the stream behind what the sink has for good.
LEMMA PutContinues ==
  ASSUME IInv, At \in PutLabel, m_eofState = "EOF_NONE"
  PROVE  Continues(put.s, Done)
<1>1. TypeOK /\ InOrder
  BY DEF IInv
<1>2. /\ put.s \in Seq(Byte) /\ todo \in Seq(Byte) /\ stream \in Seq(Byte)
      /\ put.back \in {"DoOutput", "messageEnd", "return"}
      /\ m_dataBegin \in Nat /\ m_dataEnd \in Nat /\ m_putSize \in Nat /\ call.size \in Nat
      /\ Pending \in Nat /\ Done \in Int /\ Held \in Int
  BY <1>1, Types, Numbers
<1>3. Done \in Nat /\ Done + Held + Len(todo) = Len(stream)
  BY <1>1, <1>2 DEF InOrder
<1>4. CASE put.back = "DoOutput"
  <2>1. /\ Len(put.s) = m_putSize
        /\ \A i \in 1 .. m_putSize : put.s[i] = m_buf[m_dataBegin + i]
    BY <1>4, PutIs
  <2>2. m_putSize <= Held
    BY <1>2, <1>4, PutIs DEF Held
  <2>3. \A i \in 1 .. Held : m_buf[m_dataBegin + i] = stream[Done + i]
    BY <1>1 DEF InOrder
  <2>4. 1 .. m_putSize \subseteq 1 .. Held
    BY <2>2, <1>2
  <2>5. \A i \in 1 .. m_putSize : put.s[i] = stream[Done + i]
    BY <2>1, <2>3, <2>4
  <2>6. Done + m_putSize <= Len(stream)
    BY <1>2, <1>3, <2>2
  <2> QED BY <2>1, <2>5, <2>6 DEF Continues
<1>5. CASE put.back = "messageEnd"
  BY <1>2, <1>3, <1>5, PutIs DEF Continues
<1>6. CASE put.back = "return"
  <2>1. /\ Len(put.s) = call.size /\ call.size <= Len(todo) /\ Held = 0
        /\ \A i \in 1 .. call.size : put.s[i] = todo[i]
    BY <1>6, PutIs
  <2>2. \A i \in 1 .. Len(todo) : todo[i] = stream[Done + i]
    BY <1>1, <1>2, <2>1 DEF InOrder, Continues
  <2> QED BY <1>2, <1>3, <2>1, <2>2 DEF Continues
<1> QED BY <1>2, <1>4, <1>5, <1>6

-----------------------------------------------------------------------------
(* The steps of the sink, and of the pump when it is done.                 *)

\* The pump returns, or passes the end of the message on.
LEMMA PumpReturnsInv == IInv /\ PumpReturns => IInv'
<1> SUFFICES ASSUME IInv, PumpReturns PROVE IInv'
  OBVIOUS
<1> USE DEF PumpReturns, Return, SourceExhausted, NoData, source, sink, sender
<1>1. TypeOK /\ InOrder /\ ReceiverOK /\ PutOK /\ CallOK /\ EofOK /\ FlushOK /\ QueueOK
  BY DEF IInv
<1>2. At = "pumped" /\ At' = pc' /\ pc' \in {"Put2", "return"}
  BY <1>1 DEF At, FlushLabel
<1>3. /\ ConfigTypeOK' /\ ReceiverTypeOK' /\ SourceTypeOK'
      /\ Pending' = Pending /\ Held' = Held /\ ReceiverOK'
  BY <1>1, <1>2, SourceRests
<1>4. put' = put \/ put' \in [s : Seq(Byte), messageEnd : BOOLEAN, blocking : BOOLEAN,
                              back : {"DoOutput", "messageEnd", "return"}]
  <2>1. put' = put \/ put' = [s |-> <<>>, messageEnd |-> TRUE, blocking |-> TRUE, back |-> "messageEnd"]
    OBVIOUS
  <2>2. [s |-> <<>>, messageEnd |-> TRUE, blocking |-> TRUE, back |-> "messageEnd"]
          \in [s : Seq(Byte), messageEnd : BOOLEAN, blocking : BOOLEAN,
               back : {"DoOutput", "messageEnd", "return"}]
    OBVIOUS
  <2> QED BY <2>1, <2>2
<1>5. TypeOK'
  BY <1>1, <1>3, <1>4, <1>2 DEF TypeOK, SinkTypeOK, SenderTypeOK, ThreadTypeOK, Label, PutLabel
<1>6. Taken' = Taken
  BY <1>1, <1>2 DEF Taken, CallOK, TakenLabel, PumpLabel, config, receiver
<1>7. pc' = "Put2" => Held = 0 /\ todo = <<>>
  BY <1>1, Types DEF ReceiverOK, Held, Pending
<1>8. m_skipBytes = 0 /\ ~m_outputBlocked
  BY <1>1, <1>2 DEF CallOK, PutLabel, TakenLabel
<1>9. InOrder'
  BY <1>1, <1>3, <1>6, KeepsOrder DEF config, receiver
<1>10. PutOK'
  BY <1>1, <1>2, <1>3, <1>7, <1>8 DEF PutOK, CallOK, PumpLabel, PutLabel, TakenLabel, receiver, config
<1>11. CallOK'
  BY <1>1, <1>2, <1>8 DEF CallOK, PumpLabel, PutLabel, TakenLabel, config, receiver
<1>12. EofOK'
  BY <1>1, <1>2, <1>3, <1>7 DEF EofOK, CallOK, PumpLabel, PutLabel, TakenLabel, config, receiver
<1>13. FlushOK' /\ QueueOK'
  BY <1>1, <1>2 DEF FlushOK, QueueOK, TakenLabel, FlushLabel, config
<1> QED BY <1>3, <1>5, <1>9, <1>10, <1>11, <1>12, <1>13 DEF IInv

\* The end of the message has been passed on.
LEMMA MessageEndSentInv == IInv /\ MessageEndSent => IInv'
<1> SUFFICES ASSUME IInv, MessageEndSent PROVE IInv'
  OBVIOUS
<1> USE DEF MessageEndSent, Return, config, receiver, sink, sender
<1>1. TypeOK /\ InOrder /\ ReceiverOK /\ PutOK /\ CallOK /\ EofOK /\ FlushOK /\ QueueOK
  BY DEF IInv
<1>2. At = "messageEnd" /\ At' = "return" /\ pc' = "return"
  BY <1>1 DEF At, FlushLabel
<1>3. Pending' = Pending /\ Held' = Held
  BY <1>1 DEF Pending, Held
<1>4. (ret = 0) \in BOOLEAN
  OBVIOUS
<1>5. SourceTypeOK'
  BY <1>1, <1>4 DEF TypeOK, SourceTypeOK
<1>6. ConfigTypeOK' /\ ReceiverTypeOK' /\ SinkTypeOK' /\ SenderTypeOK'
  BY <1>1 DEF TypeOK, ConfigTypeOK, ReceiverTypeOK, SinkTypeOK, SenderTypeOK
<1>7. TypeOK'
  BY <1>1, <1>5, <1>6 DEF TypeOK, ThreadTypeOK, Label
<1>8. Taken' = Taken
  BY <1>1, <1>2 DEF Taken, CallOK, TakenLabel, PumpLabel
<1>9. InOrder'
  BY <1>1, <1>3, <1>8, KeepsOrder
<1>10. m_skipBytes = 0 /\ ~m_outputBlocked
  BY <1>1, <1>2 DEF CallOK, PutLabel, TakenLabel
<1>11. ReceiverOK' /\ PutOK' /\ CallOK'
  BY <1>1, <1>2, <1>3, <1>10 DEF ReceiverOK, PutOK, CallOK, PumpLabel, PutLabel, TakenLabel
<1>12. EofOK' /\ FlushOK' /\ QueueOK'
  BY <1>1, <1>2, <1>3, <1>10 DEF EofOK, FlushOK, QueueOK, CallOK, PumpLabel, PutLabel, TakenLabel, FlushLabel
<1> QED BY <1>7, <1>9, <1>11, <1>12 DEF IInv

\* A put flushes what may be sent without waiting.
LEMMA AutoFlushInv == IInv /\ AutoFlush => IInv'
<1> SUFFICES ASSUME IInv, AutoFlush PROVE IInv'
  OBVIOUS
<1> USE DEF AutoFlush, TimedFlush, sink, sender
<1>1. TypeOK /\ InOrder /\ ReceiverOK /\ PutOK /\ CallOK /\ EofOK /\ FlushOK /\ QueueOK
  BY DEF IInv
<1>2. /\ At = "autoFlush" /\ At' = "put" /\ pc' \in {"put", "DoFlush"}
  BY <1>1 DEF At, FlushLabel
<1>3. /\ ConfigTypeOK' /\ ReceiverTypeOK' /\ SourceTypeOK'
      /\ Pending' = Pending /\ Held' = Held /\ ReceiverOK'
  BY <1>1, <1>2, SourceRests
<1>4. flush' = flush \/ flush' \in [time : Time, target : Nat, back : {"put", "putFlushed", "eofFlushed", "return"}]
  BY DEF Time
<1>5. TypeOK'
  BY <1>1, <1>2, <1>3, <1>4 DEF TypeOK, SinkTypeOK, SenderTypeOK, ThreadTypeOK, Label, PutLabel, TakenLabel, FlushLabel
<1>6. Taken' = Taken
  BY <1>1, <1>2 DEF Taken, TakenLabel, config, receiver
<1>7. InOrder'
  BY <1>1, <1>3, <1>6, KeepsOrder DEF config, receiver, source
<1>8. PutOK'
  BY <1>1, <1>2, <1>3 DEF PutOK, Data, PutLabel, TakenLabel, config, receiver, source
<1>9. CallOK'
  BY <1>1, <1>2 DEF CallOK, PumpLabel, PutLabel, TakenLabel, config, receiver, source
<1>10. EofOK' /\ QueueOK'
  BY <1>1, <1>2, <1>3 DEF EofOK, QueueOK, TakenLabel, config, receiver
<1>11. FlushOK'
  BY <1>1, <1>2 DEF FlushOK, FlushLabel
<1> QED BY <1>3, <1>5, <1>7, <1>8, <1>9, <1>10, <1>11 DEF IInv

\* A put that blocks flushes down to what the sink may keep.
LEMMA PutFlushInv == IInv /\ PutFlush => IInv'
<1> SUFFICES ASSUME IInv, PutFlush PROVE IInv'
  OBVIOUS
<1> USE DEF PutFlush, TimedFlush, Goto, sink, sender
<1>1. TypeOK /\ InOrder /\ ReceiverOK /\ PutOK /\ CallOK /\ EofOK /\ FlushOK /\ QueueOK
  BY DEF IInv
<1>2. /\ At = "put" /\ At' = "putFlushed" /\ pc' \in {"putFlushed", "DoFlush"}
  BY <1>1 DEF At, FlushLabel
<1>3. /\ ConfigTypeOK' /\ ReceiverTypeOK' /\ SourceTypeOK'
      /\ Pending' = Pending /\ Held' = Held /\ ReceiverOK'
  BY <1>1, <1>2, SourceRests
<1>4. TargetSize \in Nat /\ TargetSize' = TargetSize
  BY <1>1, Types DEF TargetSize, config
<1>5. flush' = flush \/ flush' \in [time : Time, target : Nat, back : {"put", "putFlushed", "eofFlushed", "return"}]
  BY <1>4 DEF Time
<1>6. TypeOK'
  BY <1>1, <1>2, <1>3, <1>5 DEF TypeOK, SinkTypeOK, SenderTypeOK, ThreadTypeOK, Label, PutLabel, TakenLabel, FlushLabel
<1>7. Taken' = Taken
  BY <1>1, <1>2 DEF Taken, TakenLabel, config, receiver
<1>8. InOrder'
  BY <1>1, <1>3, <1>7, KeepsOrder DEF config, receiver, source
<1>9. PutOK'
  BY <1>1, <1>2, <1>3 DEF PutOK, Data, PutLabel, TakenLabel, config, receiver, source
<1>10. CallOK'
  BY <1>1, <1>2 DEF CallOK, PumpLabel, PutLabel, TakenLabel, config, receiver, source
<1>11. EofOK' /\ QueueOK'
  BY <1>1, <1>2, <1>3 DEF EofOK, QueueOK, TakenLabel, config, receiver
<1>12. Len(m_buffer) \in Nat
  BY <1>1, Types
<1>13. pc' = "putFlushed" /\ put.blocking => ~(Len(m_buffer) > TargetSize)
  BY <1>4, <1>12
<1>14. FlushOK'
  BY <1>1, <1>2, <1>4, <1>13 DEF FlushOK, FlushLabel, Blocked
<1> QED BY <1>3, <1>6, <1>8, <1>9, <1>10, <1>11, <1>14 DEF IInv

\* A put is refused: the bytes it has queued are to be skipped by the next try.
LEMMA PutBlockedInv == IInv /\ PutBlocked => IInv'
<1> SUFFICES ASSUME IInv, PutBlocked PROVE IInv'
  OBVIOUS
<1> USE DEF PutBlocked, PutReturns, sink, sender
<1>1. TypeOK /\ InOrder /\ ReceiverOK /\ PutOK /\ CallOK /\ EofOK /\ FlushOK /\ QueueOK
  BY DEF IInv
<1>2. /\ At = "putFlushed" /\ At' = put.back /\ put.back \in {"DoOutput", "messageEnd", "return"}
      /\ pc' = put.back
  BY <1>1, Types DEF At, FlushLabel
<1>3. /\ ConfigTypeOK' /\ ReceiverTypeOK' /\ SourceTypeOK'
      /\ Pending' = Pending /\ Held' = Held /\ ReceiverOK'
  BY <1>1, <1>2, SourceRests
<1>4. m_skipBytes' = Len(put.s)
  <2>1. m_skipBytes <= Len(put.s) /\ m_skipBytes \in Nat /\ put.s \in Seq(Byte)
    BY <1>1, <1>2, Types DEF PutOK, PutLabel, TakenLabel
  <2> QED BY <2>1, SubSeqFacts DEF Skipped
<1>5. TypeOK'
  BY <1>1, <1>2, <1>3, <1>4, Types DEF TypeOK, SinkTypeOK, SenderTypeOK, ThreadTypeOK, Label, PumpLabel, PutLabel
<1>6. ~put.blocking /\ put.back # "messageEnd" /\ m_eofState = "EOF_NONE"
  BY <1>1, <1>2 DEF FlushOK, PutOK, EofOK, PutLabel, TakenLabel
<1>7. Taken' = Taken
  BY <1>1, <1>2, <1>4, <1>6 DEF Taken, TakenLabel
<1>8. InOrder'
  BY <1>1, <1>3, <1>7, KeepsOrder DEF config, receiver, source
<1>9. Len(put.s) \in Nat
  BY <1>1, Lengths
<1>10. PutOK'
  BY <1>1, <1>2, <1>3, <1>4, <1>6, <1>9 DEF PutOK, Data, PutLabel, TakenLabel, config, receiver, source
<1>11. /\ put.back = "return" => call.op = "Put2" /\ call.size <= Len(todo) /\ Len(put.s) = call.size
       /\ put.back = "DoOutput" => Len(put.s) = m_putSize
  BY <1>2, PutIs DEF PutLabel, TakenLabel
<1>12. CallOK'
  <2>1. Len(put.s) <= Len(put.s)
    BY <1>9
  <2> QED BY <1>1, <1>2, <1>4, <1>6, <1>11, <2>1
          DEF CallOK, PumpLabel, PutLabel, TakenLabel, config, receiver, source
<1>13. EofOK' /\ FlushOK'
  BY <1>1, <1>2, <1>3, <1>6 DEF EofOK, FlushOK, TakenLabel, FlushLabel, config, receiver
<1>14. QueueOK'
  BY <1>1, <1>2, <1>4, Sequences, Empty DEF QueueOK, TakenLabel, config, receiver
<1> QED BY <1>3, <1>5, <1>8, <1>10, <1>12, <1>13, <1>14 DEF IInv

\* A put is accepted, and if it ends the message the end is to be sent.
LEMMA PutDoneInv == IInv /\ PutDone => IInv'
<1> SUFFICES ASSUME IInv, PutDone PROVE IInv'
  OBVIOUS
<1> USE DEF PutDone, PutReturns, FlushEof, Restarted, sender
<1>1. TypeOK /\ InOrder /\ ReceiverOK /\ PutOK /\ CallOK /\ EofOK /\ FlushOK /\ QueueOK
  BY DEF IInv
<1>2. /\ At = "putFlushed" /\ put.back \in {"DoOutput", "messageEnd", "return"}
      /\ IF put.messageEnd THEN pc' = "DoFlush" /\ At' = "eofFlushed" ELSE pc' = put.back /\ At' = put.back
  <2>1. put.back \in {"DoOutput", "messageEnd", "return"}
    BY <1>1, Types, Zenon
  <2> QED BY <2>1 DEF At, FlushLabel
<1>3. /\ ConfigTypeOK' /\ ReceiverTypeOK' /\ SourceTypeOK'
      /\ Pending' = Pending /\ Held' = Held /\ ReceiverOK'
  BY <1>1, <1>2, SourceRests
<1>4. /\ m_skipBytes' = 0 /\ m_eofState = "EOF_NONE" /\ put.messageEnd \in BOOLEAN
      /\ ~put.messageEnd => put.back # "messageEnd"
  BY <1>1, <1>2, Types DEF EofOK, PutOK, PutLabel, TakenLabel
<1>5. flush' = flush \/ flush' \in [time : Time, target : Nat, back : {"put", "putFlushed", "eofFlushed", "return"}]
  BY <1>4 DEF Time
<1>6. TypeOK'
  BY <1>1, <1>2, <1>3, <1>4, <1>5 DEF TypeOK, SinkTypeOK, SenderTypeOK, ThreadTypeOK, Label, PumpLabel, PutLabel, FlushLabel
<1>7. /\ put.back = "return" =>
            /\ driver = "client" /\ call.op = "Put2" /\ put.messageEnd = call.line
            /\ call.size <= Len(todo) /\ Len(put.s) = call.size
            /\ put.messageEnd => call.size = Len(todo)
      /\ put.back = "DoOutput" => driver = "source" /\ ~put.messageEnd /\ Len(put.s) = m_putSize
      /\ put.back = "messageEnd" => driver = "source" /\ Held = 0 /\ todo = <<>> /\ Len(put.s) = 0
  BY <1>2, PutIs DEF PutLabel, TakenLabel
<1>8. Taken' = Taken
  BY <1>1, <1>2, <1>4, <1>7 DEF Taken, TakenLabel, config, receiver, source
<1>9. InOrder'
  BY <1>1, <1>3, <1>8, KeepsOrder DEF config, receiver, source
<1>10. put.messageEnd => m_buffer = <<>>
  BY <1>1, Types, Empty DEF Blocked, TargetSize
<1>11. Len(put.s) \in Nat
  BY <1>1, Types
<1>12. PutOK'
  BY <1>1, <1>2, <1>3, <1>4, <1>7, <1>11 DEF PutOK, Data, PutLabel, TakenLabel, config, receiver, source
<1>13. CallOK'
  BY <1>1, <1>2, <1>4, <1>7 DEF CallOK, PutOK, PumpLabel, PutLabel, TakenLabel, config, receiver, source
<1>14. EofOK'
  BY <1>1, <1>2, <1>3, <1>4, <1>7, <1>10 DEF EofOK, TakenLabel, config, receiver
<1>15. FlushOK'
  BY <1>1, <1>2 DEF FlushOK, FlushLabel
<1>16. QueueOK'
  BY <1>1, <1>2, <1>10, Types, Empty DEF QueueOK, Blocked, TargetSize, config
<1> QED BY <1>3, <1>6, <1>9, <1>12, <1>13, <1>14, <1>15, <1>16 DEF IInv

\* A step inside a flush, which leaves the queue alone.
LEMMA FlushGoesOn ==
  ASSUME IInv, pc \in FlushLabel, At' = At, pc' \in {flush.back, "DoFlush", "flushEof", "eofWait", "eofSpin"},
         UNCHANGED <<config, receiver, source, m_buffer, m_skipBytes, wire, m_lastResult>>,
         UNCHANGED <<call, byteCount, put, flush, ret>>,
         m_eofState' = m_eofState \/ (m_eofState # "EOF_NONE" /\ m_eofState' \in {"EOF_PENDING_DELIVERY", "EOF_DONE"}),
         pc' \in {"eofWait", "eofSpin"} => m_eofState # "EOF_NONE"
  PROVE  /\ ConfigTypeOK' /\ ReceiverTypeOK' /\ SourceTypeOK' /\ SinkTypeOK' /\ ThreadTypeOK'
         /\ InOrder' /\ ReceiverOK' /\ PutOK' /\ CallOK' /\ EofOK' /\ QueueOK'
<1>1. TypeOK /\ InOrder /\ ReceiverOK /\ PutOK /\ CallOK /\ EofOK /\ FlushOK /\ QueueOK
  BY DEF IInv
<1>2. At = flush.back /\ flush.back \in {"put", "putFlushed", "eofFlushed", "return"}
  BY <1>1, Types DEF At
<1>3. /\ ConfigTypeOK' /\ ReceiverTypeOK' /\ SourceTypeOK'
      /\ Pending' = Pending /\ Held' = Held /\ ReceiverOK'
  BY <1>1, <1>2, SourceRests DEF FlushLabel
<1>4. SinkTypeOK' /\ ThreadTypeOK'
  BY <1>1, <1>2 DEF TypeOK, SinkTypeOK, ThreadTypeOK, Label, FlushLabel, PutLabel, TakenLabel
<1>5. Taken' = Taken
  BY <1>1, <1>2 DEF Taken, config, receiver, source
<1>6. InOrder'
  BY <1>1, <1>3, <1>5, KeepsOrder DEF config, receiver, source
<1>7. PutOK'
  BY <1>1, <1>2, <1>3 DEF PutOK, Data, PutLabel, TakenLabel, config, receiver, source
<1>8. CallOK'
  BY <1>1, <1>2 DEF CallOK, FlushOK, PumpLabel, PutLabel, TakenLabel, FlushLabel, config, receiver, source
<1>9. EofOK'
  BY <1>1, <1>2, <1>3 DEF EofOK, TakenLabel, FlushLabel, config, receiver
<1>10. QueueOK'
  BY <1>1, <1>2 DEF QueueOK, config
<1> QED BY <1>3, <1>4, <1>6, <1>7, <1>8, <1>9, <1>10

\* A flush gives up waiting.
LEMMA FlushTimesOutInv == IInv /\ (FlushTimesOut \/ EofTimesOut) => IInv'
<1> SUFFICES ASSUME IInv, FlushTimesOut \/ EofTimesOut PROVE IInv'
  OBVIOUS
<1>1. /\ UNCHANGED <<config, receiver, source, sink, sender, call, byteCount, put, flush, ret>>
      /\ pc \in FlushLabel /\ MayTimeOut(flush.time) /\ pc' \in {"flushEof", flush.back}
  BY DEF FlushTimesOut, EofTimesOut, FlushReturns, Goto, Flushes, Sends, FlushLabel
<1>2. TypeOK /\ FlushOK
  BY DEF IInv
<1>3. At' = At
  BY <1>1, <1>2, Types DEF At, FlushLabel
<1>4. /\ ConfigTypeOK' /\ ReceiverTypeOK' /\ SourceTypeOK' /\ SinkTypeOK' /\ ThreadTypeOK'
      /\ InOrder' /\ ReceiverOK' /\ PutOK' /\ CallOK' /\ EofOK' /\ QueueOK'
  BY <1>1, <1>2, <1>3, Types, FlushGoesOn DEF sink, sender
<1>5. SenderTypeOK'
  BY <1>1, <1>2 DEF TypeOK, SenderTypeOK, sender
<1>6. FlushOK'
  BY <1>1, <1>2, Types DEF FlushOK, FlushLabel, TargetSize, MayTimeOut, sink, sender, config
<1> QED BY <1>4, <1>5, <1>6 DEF IInv, TypeOK

\* The end of the stream is sent, or its delivery awaited.
LEMMA SendEofInv == IInv /\ (SendEof \/ EofWait) => IInv'
<1> SUFFICES ASSUME IInv, SendEof \/ EofWait PROVE IInv'
  OBVIOUS
<1>1. TypeOK /\ FlushOK /\ EofOK
  BY DEF IInv
<1>2. /\ UNCHANGED <<config, receiver, source, sender, m_buffer, m_skipBytes, call, byteCount, put, flush, ret>>
      /\ pc \in FlushLabel /\ pc' \in {"eofWait", "eofSpin", flush.back}
      /\ m_eofState' = m_eofState \/ (m_eofState # "EOF_NONE" /\ m_eofState' \in {"EOF_PENDING_DELIVERY", "EOF_DONE"})
      /\ pc' \in {"eofWait", "eofSpin"} => m_eofState # "EOF_NONE"
  BY <1>1, Types DEF SendEof, EofWait, FlushReturns, Goto, Flushed, FlushLabel, EofOK
<1>3. At' = At
  BY <1>1, <1>2, Types DEF At, FlushLabel
<1>4. /\ ConfigTypeOK' /\ ReceiverTypeOK' /\ SourceTypeOK' /\ SinkTypeOK' /\ ThreadTypeOK'
      /\ InOrder' /\ ReceiverOK' /\ PutOK' /\ CallOK' /\ EofOK' /\ QueueOK'
  BY <1>1, <1>2, <1>3, Types, FlushGoesOn DEF sender
<1>5. SenderTypeOK'
  BY <1>1, <1>2 DEF TypeOK, SenderTypeOK, sender
<1>6. pc' = "putFlushed" => ~(Len(m_buffer) > TargetSize)
  <2> SUFFICES ASSUME pc' = "putFlushed" PROVE ~(Len(m_buffer) > TargetSize)
    OBVIOUS
  <2>1. flush.back = "putFlushed" /\ flush.time = "forever" /\ flush.target = TargetSize
    BY <1>1, <1>2, Types DEF FlushOK
  <2>2. CASE pc = "flushEof"
    <3>1. m_buffer = <<>> /\ flush.target \in Nat
      BY <1>1, <2>1, <2>2, Types DEF FlushOK, MayTimeOut
    <3> QED BY <2>1, <3>1
  <2>3. CASE pc = "DoFlush"
    BY <1>1, <2>1, <2>3, Types DEF SendEof, EofWait, Flushes
  <2>4. CASE pc = "eofWait"
    <3>1. m_buffer = <<>> /\ flush.target \in Nat
      BY <1>1, <2>4, Types DEF EofOK
    <3> QED BY <2>1, <3>1
  <2> QED BY <2>2, <2>3, <2>4 DEF SendEof, EofWait
<1>7. FlushOK'
  BY <1>1, <1>2, <1>6, Types DEF FlushOK, FlushLabel, TargetSize, Blocked, sender, config
<1> QED BY <1>4, <1>5, <1>7 DEF IInv, TypeOK

\* A piece from the front of the queue is handed to the sender.
LEMMA SendInv == IInv /\ Send => IInv'
<1> SUFFICES ASSUME IInv, Send PROVE IInv'
  OBVIOUS
<1>1. TypeOK /\ FlushOK /\ EofOK
  BY DEF IInv
<1>2. /\ UNCHANGED <<config, receiver, source, sink, wire, m_lastResult, call, byteCount, put, flush, ret>>
      /\ pc \in FlushLabel /\ m_needSendResult' = TRUE
      /\ pc' = "DoFlush" \/ (flush.time = "some" /\ pc' = "flushEof")
  BY DEF Send, Goto, Sends, Flushes, FlushLabel
<1>3. At' = At
  BY <1>1, <1>2, Types DEF At, FlushLabel
<1>4. /\ ConfigTypeOK' /\ ReceiverTypeOK' /\ SourceTypeOK' /\ SinkTypeOK' /\ ThreadTypeOK'
      /\ InOrder' /\ ReceiverOK' /\ PutOK' /\ CallOK' /\ EofOK' /\ QueueOK'
  BY <1>1, <1>2, <1>3, Types, FlushGoesOn DEF sink
<1>5. PICK n \in 1 .. Len(m_buffer) : block' = SubSeq(m_buffer, 1, n)
  BY DEF Send
<1>6. /\ block' \in Seq(Byte) /\ Len(block') = n
      /\ block' # <<>> /\ IsPrefix(block', m_buffer)
  <2>1. m_buffer \in Seq(Byte) /\ Len(m_buffer) \in Nat /\ n \in Nat /\ 1 <= n /\ n <= Len(m_buffer)
    BY <1>1, <1>5, Types
  <2>2. /\ block' \in Seq(Byte) /\ Len(block') = n
        /\ \A i \in 1 .. n : block'[i] = m_buffer[i]
    BY <1>5, <2>1, SubSeqFacts
  <2> QED BY <2>1, <2>2, PrefixFacts, Empty
<1>7. SenderTypeOK'
  BY <1>1, <1>2, <1>6 DEF TypeOK, SenderTypeOK
<1>8. FlushOK'
  BY <1>1, <1>2, <1>6, Types DEF FlushOK, FlushLabel, TargetSize, MayTimeOut, sink, config
<1> QED BY <1>4, <1>7, <1>8 DEF IInv, TypeOK

\* The put that ended the message returns.
LEMMA EofFlushedInv == IInv /\ EofFlushed => IInv'
<1> SUFFICES ASSUME IInv, EofFlushed PROVE IInv'
  OBVIOUS
<1> USE DEF EofFlushed, PutReturns, sink, sender
<1>1. TypeOK /\ InOrder /\ ReceiverOK /\ PutOK /\ CallOK /\ EofOK /\ FlushOK /\ QueueOK
  BY DEF IInv
<1>2. /\ At = "eofFlushed" /\ At' = put.back /\ put.back \in {"DoOutput", "messageEnd", "return"}
      /\ pc' = put.back
  BY <1>1, Types DEF At, FlushLabel
<1>3. /\ ConfigTypeOK' /\ ReceiverTypeOK' /\ SourceTypeOK'
      /\ Pending' = Pending /\ Held' = Held /\ ReceiverOK'
  BY <1>1, <1>2, SourceRests
<1>4. m_eofState # "EOF_NONE"
  BY <1>1, <1>2 DEF EofOK
<1>5. /\ put.back = "return" => driver = "client" /\ call.op = "Put2"
      /\ put.back = "messageEnd" => driver = "source" /\ Held = 0 /\ todo = <<>>
      /\ put.back # "DoOutput"
  BY <1>1, <1>2, <1>4, PutIs DEF EofOK, PutLabel, TakenLabel
<1>6. TypeOK'
  BY <1>1, <1>2, <1>3 DEF TypeOK, SinkTypeOK, SenderTypeOK, ThreadTypeOK, Label, PumpLabel, PutLabel
<1>7. Taken' = Taken
  BY <1>4, <1>3 DEF Taken, config, receiver
<1>8. InOrder'
  BY <1>1, <1>3, <1>7, KeepsOrder DEF config, receiver, source
<1>9. PutOK' /\ CallOK'
  BY <1>1, <1>2, <1>3, <1>4, <1>5
     DEF PutOK, CallOK, EofOK, Data, PumpLabel, PutLabel, TakenLabel, config, receiver, source
<1>10. EofOK' /\ FlushOK' /\ QueueOK'
  BY <1>1, <1>2, <1>3, <1>5 DEF EofOK, FlushOK, QueueOK, PutLabel, TakenLabel, FlushLabel, config, receiver
<1> QED BY <1>3, <1>6, <1>8, <1>9, <1>10 DEF IInv

\* What has been sent leaves the queue for the wire.
LEMMA GetSendResultInv == IInv /\ GetSendResult => IInv'
<1> SUFFICES ASSUME IInv, GetSendResult PROVE IInv'
  OBVIOUS
<1>1. TypeOK /\ InOrder /\ ReceiverOK /\ PutOK /\ CallOK /\ EofOK /\ FlushOK /\ QueueOK
  BY DEF IInv
<1>2. /\ UNCHANGED <<config, receiver, source, m_skipBytes, m_eofState, call, byteCount, put, flush, ret>>
      /\ pc = "DoFlush" /\ m_needSendResult /\ block' = <<>>
      /\ m_needSendResult' = FALSE
      /\ (pc' = "flushEof" /\ m_buffer' = <<>>) \/ pc' = "DoSend"
  BY DEF GetSendResult, Flushes, Goto
<1>3. PICK n \in 1 .. Len(block) :
        /\ wire' = wire \o SubSeq(block, 1, n)
        /\ m_buffer' = SubSeq(m_buffer, n + 1, Len(m_buffer))
        /\ m_lastResult' = n
  BY DEF GetSendResult, Sent
<1>4. /\ stream \in Seq(Byte) /\ m_buffer \in Seq(Byte) /\ block \in Seq(Byte) /\ wire \in Seq(Byte)
      /\ n \in Nat \ {0} /\ n <= Len(block) /\ Len(block) \in Nat /\ Len(m_buffer) \in Nat /\ Len(wire) \in Nat
  BY <1>1, <1>3, Sequences, Lengths
<1>5. /\ block # <<>> /\ Len(block) <= Len(m_buffer)
      /\ \A i \in 1 .. Len(block) : block[i] = m_buffer[i]
  BY <1>1, <1>2, <1>4, PrefixFacts DEF FlushOK
<1>6. m_eofState = "EOF_NONE"
  BY <1>1, <1>4, <1>5, Empty DEF EofOK
<1>7. /\ m_buffer' \in Seq(Byte) /\ Len(m_buffer') = Len(m_buffer) - n
      /\ SubSeq(block, 1, n) \in Seq(Byte) /\ Len(SubSeq(block, 1, n)) = n
      /\ wire' \in Seq(Byte) /\ Len(wire') = Len(wire) + n
  BY <1>3, <1>4, <1>5, SubSeqFacts, ConcatFacts
<1>8. At' = At /\ At = flush.back /\ flush.back \in {"put", "putFlushed", "eofFlushed", "return"}
  BY <1>1, <1>2, Types DEF At, FlushLabel
<1>9. /\ ConfigTypeOK' /\ ReceiverTypeOK' /\ SourceTypeOK'
      /\ Pending' = Pending /\ Held' = Held /\ ReceiverOK'
  BY <1>1, <1>2, SourceRests
<1>10. TypeOK'
  <2>1. SinkTypeOK' /\ ThreadTypeOK'
    BY <1>1, <1>2, <1>7 DEF TypeOK, SinkTypeOK, ThreadTypeOK, Label, FlushLabel
  <2>2. m_lastResult' \in Nat /\ block' \in Seq(Byte)
    BY <1>2, <1>3, <1>4
  <2>3. SenderTypeOK'
    BY <1>2, <1>7, <2>2 DEF SenderTypeOK
  <2> QED BY <1>9, <2>1, <2>3 DEF TypeOK
<1>11. Taken' = Taken /\ Taken \in Nat
  BY <1>1, <1>2, <1>8, Numbers DEF Taken, config, receiver, source
<1>12. Done' = Done
  BY <1>4, <1>7, <1>11 DEF Done
<1>13. Continues(SubSeq(block, 1, n), Len(wire))
  <2>1. Continues(m_buffer, Len(wire))
    BY <1>1 DEF InOrder
  <2>2. Continues(block, Len(wire))
    BY <2>1, <1>4, <1>5 DEF Continues
  <2>3. Continues(SubSeq(block, 1, n), Len(wire) + 1 - 1)
    BY <2>2, <1>4, ContinuesSubSeq
  <2> QED BY <2>3, <1>4
<1>14. Continues(wire', 0)
  <2>1. Continues(wire, 0)
    BY <1>1 DEF InOrder
  <2>2. Continues(SubSeq(block, 1, n), 0 + Len(wire))
    BY <1>4, <1>13
  <2> QED BY <1>3, <1>4, <1>7, <2>1, <2>2, ContinuesConcat
<1>15. Continues(m_buffer', Len(wire'))
  <2>1. Continues(m_buffer, Len(wire))
    BY <1>1 DEF InOrder
  <2>2. n + 1 \in Nat \ {0} /\ n + 1 <= Len(m_buffer) + 1
    BY <1>4, <1>5
  <2>3. Continues(SubSeq(m_buffer, n + 1, Len(m_buffer)), Len(wire) + (n + 1) - 1)
    BY <1>4, <2>1, <2>2, ContinuesSubSeq
  <2>4. Len(wire) + (n + 1) - 1 = Len(wire')
    BY <1>4, <1>7
  <2> QED BY <1>3, <2>3, <2>4
<1>16. InOrder'
  BY <1>1, <1>2, <1>9, <1>12, <1>14, <1>15 DEF InOrder, Continues, config, receiver, source
<1>17. PutOK'
  BY <1>1, <1>2, <1>8, <1>9 DEF PutOK, Data, PutLabel, TakenLabel, config, receiver, source
<1>18. CallOK' /\ EofOK'
  BY <1>1, <1>2, <1>6, <1>8 DEF CallOK, EofOK, FlushOK, PumpLabel, PutLabel, TakenLabel, FlushLabel, config, receiver, source
<1>19. FlushOK'
  BY <1>1, <1>2 DEF FlushOK, FlushLabel, TargetSize, config
<1>20. QueueOK'
  <2> DEFINE room == m_maxBufferSize + (IF At \in TakenLabel THEN Len(put.s) ELSE m_skipBytes)
  <2>1. Len(m_buffer) <= room
    BY <1>1 DEF QueueOK
  <2>2. room' = room
    BY <1>2, <1>8 DEF config
  <2>3. room \in Nat
    BY <1>1, Counts, Lengths
  <2>4. Len(m_buffer') <= room
    <3> HIDE DEF room
    <3> QED BY <1>4, <1>7, <2>1, <2>3
  <2> QED BY <2>2, <2>4 DEF QueueOK
<1> QED BY <1>9, <1>10, <1>16, <1>17, <1>18, <1>19, <1>20 DEF IInv

\* What a put has left after the bytes that earlier tries have queued.
LEMMA SkippedIs ==
  ASSUME TypeOK, m_skipBytes <= Len(put.s)
  PROVE  /\ Skipped(put.s) \in Seq(Byte) /\ Len(Skipped(put.s)) = Len(put.s) - m_skipBytes
         /\ \A k \in Nat : Continues(put.s, k) => Continues(Skipped(put.s), k + m_skipBytes)
<1>1. /\ put.s \in Seq(Byte) /\ stream \in Seq(Byte) /\ m_skipBytes \in Nat /\ Len(put.s) \in Nat
      /\ m_skipBytes + 1 \in Nat \ {0} /\ m_skipBytes + 1 <= Len(put.s) + 1
  <2>1. m_skipBytes \in Nat /\ Len(put.s) \in Nat
    BY Lengths, Counts, Zenon
  <2>2. m_skipBytes + 1 \in Nat \ {0} /\ m_skipBytes + 1 <= Len(put.s) + 1
    BY <2>1
  <2> QED BY <2>1, <2>2, Sequences, Zenon
<1>2. Skipped(put.s) = SubSeq(put.s, m_skipBytes + 1, Len(put.s))
  BY DEF Skipped
<1>3. Skipped(put.s) \in Seq(Byte) /\ Len(Skipped(put.s)) = Len(put.s) - m_skipBytes
  BY <1>1, <1>2, SubSeqFacts
<1>4. ASSUME NEW k \in Nat, Continues(put.s, k)
      PROVE  Continues(Skipped(put.s), k + m_skipBytes)
  <2>1. Continues(Skipped(put.s), k + (m_skipBytes + 1) - 1)
    <3>1. Len(put.s) <= Len(put.s)
      BY <1>1
    <3>2. Continues(SubSeq(put.s, m_skipBytes + 1, Len(put.s)), k + (m_skipBytes + 1) - 1)
      BY <1>1, <1>4, <3>1, ContinuesSubSeq
    <3> QED BY <1>2, <3>2
  <2> QED BY <1>1, <2>1
<1> QED BY <1>3, <1>4

\* A put queues its bytes behind those that wait.
LEMMA Put2Inv == IInv /\ Put2 => IInv'
<1> SUFFICES ASSUME IInv, Put2 PROVE IInv'
  OBVIOUS
<1>1. TypeOK /\ InOrder /\ ReceiverOK /\ PutOK /\ CallOK /\ EofOK /\ FlushOK /\ QueueOK
  BY DEF IInv
<1>2. /\ pc = "Put2" /\ At = "Put2" /\ pc' \in {"autoFlush", "put", "DoFlush"}
      /\ UNCHANGED <<config, receiver, source, sender, m_skipBytes, m_eofState, call, byteCount, put, ret>>
      /\ UNCHANGED <<wire, block, m_needSendResult>>
  BY DEF Put2, At, FlushLabel, FlushEof, Goto, sender
<1>3. /\ ConfigTypeOK' /\ ReceiverTypeOK' /\ SourceTypeOK'
      /\ Pending' = Pending /\ Held' = Held /\ ReceiverOK'
  BY <1>1, <1>2, SourceRests
<1>4. /\ stream \in Seq(Byte) /\ m_buffer \in Seq(Byte) /\ wire \in Seq(Byte) /\ put.s \in Seq(Byte)
      /\ block \in Seq(Byte) /\ m_skipBytes \in Nat /\ m_skipBytes <= Len(put.s)
      /\ Taken \in Nat /\ Done \in Nat
  <2>1. m_skipBytes <= Len(put.s)
    BY <1>1, <1>2 DEF PutOK, PutLabel
  <2>2. Done \in Nat
    BY <1>1, Numbers DEF InOrder
  <2> QED BY <1>1, <2>1, <2>2, Sequences, Counts, Numbers
<1>5. CASE m_eofState # "EOF_NONE"
  <2>1. /\ UNCHANGED m_buffer /\ pc' = "DoFlush" /\ flush'.back = "eofFlushed" /\ At' = "eofFlushed"
        /\ flush' \in [time : Time, target : Nat, back : {"put", "putFlushed", "eofFlushed", "return"}]
    BY <1>5 DEF Put2, FlushEof, At, FlushLabel, Time
  <2>2. TypeOK'
    BY <1>1, <1>2, <1>3, <2>1 DEF TypeOK, SinkTypeOK, SenderTypeOK, ThreadTypeOK, sender, Label, FlushLabel
  <2>3. Taken' = Taken
    BY <1>1, <1>2, <1>3, <1>5 DEF Taken, config, receiver
  <2>4. InOrder'
    BY <1>1, <1>2, <1>3, <2>1, <2>3, KeepsOrder DEF config, receiver, source
  <2>5. PutOK'
    BY <1>1, <1>2, <1>3, <2>1 DEF PutOK, Data, PutLabel, TakenLabel, config, receiver, source
  <2>6. CallOK'
    BY <1>1, <1>2, <1>5, <2>1 DEF CallOK, EofOK, PumpLabel, PutLabel, TakenLabel, config, receiver, source
  <2>7. EofOK'
    BY <1>1, <1>2, <1>3, <1>5, <2>1 DEF EofOK, PutLabel, TakenLabel, config, receiver
  <2>8. QueueOK'
    BY <1>1, <1>2, <2>1 DEF QueueOK, TakenLabel, config
  <2>9. FlushOK'
    BY <1>1, <1>2, <2>1 DEF FlushOK, FlushLabel
  <2> QED BY <1>3, <2>2, <2>4, <2>5, <2>6, <2>9, <2>7, <2>8 DEF IInv
<1>6. CASE m_eofState = "EOF_NONE"
  <2>1. /\ m_buffer' = m_buffer \o Skipped(put.s) /\ pc' \in {"autoFlush", "put"} /\ UNCHANGED flush
        /\ At' = pc'
    BY <1>6 DEF Put2, Goto, At, FlushLabel
  <2>2. /\ Skipped(put.s) \in Seq(Byte) /\ Len(Skipped(put.s)) = Len(put.s) - m_skipBytes
        /\ m_buffer' \in Seq(Byte) /\ Len(m_buffer') = Len(m_buffer) + Len(put.s) - m_skipBytes
        /\ \A i \in 1 .. Len(m_buffer) : m_buffer'[i] = m_buffer[i]
    <3>1. Skipped(put.s) \in Seq(Byte) /\ Len(Skipped(put.s)) = Len(put.s) - m_skipBytes
      BY <1>1, <1>4, SkippedIs
    <3>2. m_buffer \in Seq(Byte)
      BY <1>4
    <3>3. LET t == m_buffer \o Skipped(put.s)
          IN  /\ t \in Seq(Byte) /\ Len(t) = Len(m_buffer) + Len(Skipped(put.s))
              /\ \A i \in 1 .. Len(m_buffer) : t[i] = m_buffer[i]
      BY <3>1, <3>2, ConcatFacts, Zenon
    <3>4. /\ m_buffer' \in Seq(Byte) /\ Len(m_buffer') = Len(m_buffer) + Len(Skipped(put.s))
          /\ \A i \in 1 .. Len(m_buffer) : m_buffer'[i] = m_buffer[i]
      BY <2>1, <3>3, Zenon
    <3>5. Len(m_buffer) \in Nat /\ Len(put.s) \in Nat
      BY <1>4
    <3> QED BY <1>4, <3>1, <3>4, <3>5
  <2>3. TypeOK'
    BY <1>1, <1>2, <1>3, <2>1, <2>2 DEF TypeOK, SinkTypeOK, SenderTypeOK, ThreadTypeOK, sender, Label, PutLabel, TakenLabel
  <2>4. Taken = m_skipBytes /\ Taken' = Len(put.s)
    BY <1>2, <1>6, <2>1 DEF Taken, TakenLabel
  <2>5. Done' = Done /\ Done + m_skipBytes = Len(wire) + Len(m_buffer)
    <3>1. m_skipBytes \in Nat /\ Len(wire) \in Nat /\ Len(m_buffer) \in Nat /\ Len(put.s) \in Nat
      BY <1>4
    <3>2. Done = Len(wire) + Len(m_buffer) - m_skipBytes
      BY <2>4 DEF Done
    <3>3. Done' = Len(wire) + Len(m_buffer') - Len(put.s)
      BY <1>2, <2>4 DEF Done
    <3>4. Len(m_buffer') = Len(m_buffer) + Len(put.s) - m_skipBytes
      BY <2>2
    <3>5. Done + m_skipBytes = Len(wire) + Len(m_buffer)
      BY <3>1, <3>2
    <3>6. Done' = Done
      <4>1. \A w, b, l, k \in Nat : w + (b + l - k) - l = w + b - k
        OBVIOUS
      <4>2. Done' = Len(wire) + (Len(m_buffer) + Len(put.s) - m_skipBytes) - Len(put.s)
        BY <3>3, <3>4
      <4>3. Len(wire) + (Len(m_buffer) + Len(put.s) - m_skipBytes) - Len(put.s)
              = Len(wire) + Len(m_buffer) - m_skipBytes
        <5>1. \A b, l, k \in Nat :
                Len(wire) + (b + l - k) - l = Len(wire) + b - k
          BY <3>1, <4>1, Zenon
        <5>2. \A k \in Nat :
                Len(wire) + (Len(m_buffer) + Len(put.s) - k) - Len(put.s) = Len(wire) + Len(m_buffer) - k
          BY <3>1, <5>1, Zenon
        <5> QED BY <3>1, <5>2, Zenon
      <4> QED BY <3>2, <4>2, <4>3, Zenon
    <3> QED BY <3>5, <3>6
  <2>6. Continues(Skipped(put.s), Len(wire) + Len(m_buffer))
    <3>1. Continues(put.s, Done)
      BY <1>2, <1>6, PutContinues DEF PutLabel
    <3>2. Continues(Skipped(put.s), Done + m_skipBytes)
      BY <1>1, <1>4, <3>1, SkippedIs
    <3> QED BY <2>5, <3>2
  <2>7. Continues(m_buffer', Len(wire))
    <3>1. Continues(m_buffer, Len(wire)) /\ Len(wire) \in Nat
      BY <1>1, <1>4 DEF InOrder
    <3> QED BY <1>4, <2>1, <2>2, <2>6, <3>1, ContinuesConcat
  <2>8. InOrder'
    BY <1>1, <1>2, <1>3, <2>5, <2>7 DEF InOrder, Continues, config, receiver, source
  <2>9. PutOK'
    BY <1>1, <1>2, <1>3, <2>1 DEF PutOK, Data, PutLabel, TakenLabel, config, receiver, source
  <2>10. CallOK'
    BY <1>1, <1>2, <2>1 DEF CallOK, PumpLabel, PutLabel, TakenLabel, config, receiver, source
  <2>11. EofOK'
    BY <1>2, <1>6, <2>1 DEF EofOK
  <2>12. m_needSendResult => IsPrefix(block, m_buffer')
    <3>1. m_needSendResult => /\ Len(block) <= Len(m_buffer)
                              /\ \A i \in 1 .. Len(block) : block[i] = m_buffer[i]
      BY <1>1, <1>4, PrefixFacts DEF FlushOK
    <3>2. Len(m_buffer) \in Nat /\ Len(block) \in Nat /\ Len(m_buffer) <= Len(m_buffer')
      <4>1. Len(put.s) \in Nat
        BY <1>4
      <4> QED BY <1>4, <2>2, <4>1
    <3>3. m_needSendResult => /\ Len(block) <= Len(m_buffer')
                              /\ \A i \in 1 .. Len(block) : block[i] = m_buffer'[i]
      BY <2>2, <3>1, <3>2
    <3> QED BY <1>4, <2>2, <3>3, PrefixFacts
  <2>13. FlushOK'
    BY <1>1, <1>2, <2>1, <2>12 DEF FlushOK, FlushLabel
  <2>14. Len(m_buffer) <= m_maxBufferSize + m_skipBytes
    BY <1>1, <1>2 DEF QueueOK, At, TakenLabel, FlushLabel
  <2>15. QueueOK'
    <3>1. Len(m_buffer) \in Nat /\ Len(put.s) \in Nat /\ m_skipBytes \in Nat /\ m_maxBufferSize \in Nat
      BY <1>1, <1>4, Counts
    <3>2. Len(m_buffer') <= m_maxBufferSize + Len(put.s)
      BY <2>2, <2>14, <3>1
    <3> QED BY <1>2, <2>1, <3>2 DEF QueueOK, TakenLabel, config
  <2> QED BY <1>3, <2>3, <2>8, <2>9, <2>10, <2>13, <2>15, <2>11 DEF IInv
<1> QED BY <1>5, <1>6

-----------------------------------------------------------------------------
(* The steps of the source.                                                *)

\* A step of the source that receives leaves the sink and the calls alone.
LEMMA SourceReceives ==
  ASSUME IInv, pc \in {"DoPump", "ReceiveReady", "ReceiveNoWait"},
         pc' \in {"DoPump", "ReceiveReady", "ReceiveNoWait", "pumped"},
         UNCHANGED <<config, sink, sender, call, byteCount, put, flush, ret>>,
         UNCHANGED <<m_putSize, m_outputBlocked, m_messageEndSent>>,
         ReceiverTypeOK', SourceTypeOK', ReceiverOK', InOrder',
         m_eofState # "EOF_NONE" => Held' = 0 /\ todo' = <<>>
  PROVE  IInv'
<1>1. TypeOK /\ CallOK /\ EofOK /\ FlushOK /\ QueueOK
  BY DEF IInv
<1>2. At = pc /\ At' = pc'
  BY DEF At, FlushLabel
<1>3. TypeOK'
  <2>1. ConfigTypeOK' /\ SinkTypeOK' /\ SenderTypeOK'
    BY <1>1 DEF TypeOK, ConfigTypeOK, SinkTypeOK, SenderTypeOK, config, sink, sender
  <2>2. ThreadTypeOK'
    BY <1>1 DEF TypeOK, ThreadTypeOK, Label, PumpLabel
  <2> QED BY <2>1, <2>2 DEF TypeOK
<1>4. m_skipBytes = 0 /\ ~m_outputBlocked /\ driver = "source" /\ call.op # "Put2"
  BY <1>1, <1>2 DEF CallOK, PumpLabel, PutLabel, TakenLabel
<1>5. PutOK' /\ CallOK'
  BY <1>1, <1>2, <1>4 DEF PutOK, CallOK, PumpLabel, PutLabel, TakenLabel, config, sink
<1>6. EofOK' /\ FlushOK' /\ QueueOK'
  BY <1>1, <1>2, <1>4 DEF EofOK, FlushOK, QueueOK, PutLabel, TakenLabel, FlushLabel, config, sink, sender
<1> QED BY <1>3, <1>5, <1>6 DEF IInv

\* As long as it receives, the sink has taken none of what the source holds.
LEMMA DoneKept ==
  ASSUME IInv, pc \in {"DoPump", "ReceiveReady", "ReceiveNoWait"},
         pc' \in {"DoPump", "ReceiveReady", "ReceiveNoWait", "pumped"},
         UNCHANGED <<config, sink, sender, call, byteCount, put, flush, ret>>
  PROVE  Done' = Done /\ Done \in Nat
<1>1. TypeOK /\ InOrder /\ CallOK
  BY DEF IInv
<1>2. At = pc /\ At' = pc' /\ driver = "source"
  BY <1>1 DEF At, FlushLabel, CallOK, PumpLabel
<1>3. Taken' = Taken
  BY <1>2 DEF Taken, TakenLabel, config, sink
<1>4. Done \in Nat
  BY <1>1, Numbers DEF InOrder
<1> QED BY <1>3, <1>4 DEF Done, sink, sender

\* Nothing is held, and m_buf is used from its start again.
LEMMA Rewinds ==
  ASSUME IInv, pc = "DoPump", NoData, ~m_waitingForResult, ~m_eofReceived,
         m_dataBegin' = 0, m_dataEnd' = 0,
         pc' \in {"pumped", "ReceiveReady", "ReceiveNoWait"},
         UNCHANGED <<config, receiver, sink, sender, call, byteCount, put, flush, ret>>,
         UNCHANGED <<m_putSize, m_waitingForResult, m_outputBlocked, m_messageEndSent>>
  PROVE  IInv'
<1>1. TypeOK /\ InOrder /\ ReceiverOK /\ CallOK /\ EofOK
  BY DEF IInv
<1>2. ReceiverTypeOK' /\ SourceTypeOK'
  BY <1>1 DEF TypeOK, ReceiverTypeOK, SourceTypeOK, receiver
<1>3. /\ m_dataBegin \in Nat /\ m_dataEnd = m_dataBegin /\ Len(m_buf) = BufSize /\ BufSize \in Nat
      /\ Len(todo) \in Nat /\ Len(stream) \in Nat
  BY <1>1, Counts, Lengths DEF NoData
<1>4. Held = 0 /\ Held' = 0 /\ Pending' = 0
  BY <1>3 DEF Held, Pending
<1>5. Done' = Done /\ Done \in Nat
  BY DoneKept
<1>6. ReceiverOK'
  BY <1>1, <1>3, <1>4 DEF ReceiverOK, CallOK, PumpLabel, receiver, config
<1>7. InOrder'
  BY <1>1, <1>3, <1>4, <1>5 DEF InOrder, Continues, receiver, config, sink, sender
<1>8. m_eofState # "EOF_NONE" => todo' = <<>>
  BY <1>1 DEF EofOK, CallOK, PumpLabel, receiver
<1> QED BY <1>2, <1>4, <1>6, <1>7, <1>8, SourceReceives

\* The source starts to receive, gives up waiting, or has nothing more to pump.
LEMMA StartsToReceiveInv == IInv /\ (StartsToReceive \/ ReceiveTimesOut \/ PumpedOut) => IInv'
<1> SUFFICES ASSUME IInv, StartsToReceive \/ ReceiveTimesOut \/ PumpedOut PROVE IInv'
  OBVIOUS
<1>1. CASE UNCHANGED <<m_dataBegin, m_dataEnd>>
  <2>1. /\ pc = "DoPump" /\ pc' \in {"pumped", "ReceiveReady", "ReceiveNoWait"}
        /\ UNCHANGED <<config, receiver, source, sink, sender, call, byteCount, put, flush, ret>>
    BY <1>1 DEF StartsToReceive, ReceiveTimesOut, PumpedOut, Goto, source
  <2>2. CASE pc' = "pumped"
    <3>1. TypeOK /\ InOrder /\ ReceiverOK /\ CallOK /\ EofOK
      BY DEF IInv
    <3>2. /\ ReceiverTypeOK' /\ SourceTypeOK' /\ ReceiverOK' /\ Pending' = Pending /\ Held' = Held
      BY <2>1, <2>2, <3>1, SourceRests
    <3>3. Taken' = Taken
      BY <2>1, <2>2 DEF Taken, At, FlushLabel, TakenLabel, config, receiver, source, sink
    <3>4. InOrder'
      BY <2>1, <3>1, <3>2, <3>3, KeepsOrder DEF config, receiver, source, sink, sender
    <3>5. m_eofState # "EOF_NONE" => Held' = 0 /\ todo' = <<>>
      BY <2>1, <3>1, <3>2 DEF EofOK, CallOK, PumpLabel, receiver
    <3> QED BY <2>1, <2>2, <3>2, <3>4, <3>5, SourceReceives DEF source
  <2>3. CASE pc' # "pumped"
    <3>1. NoData /\ ~m_waitingForResult /\ ~m_eofReceived /\ m_dataBegin' = 0 /\ m_dataEnd' = 0
      BY <2>1, <2>3 DEF StartsToReceive, ReceiveTimesOut, PumpedOut, Goto
    <3> QED BY <2>1, <3>1, Rewinds DEF source
  <2> QED BY <2>2, <2>3
<1>2. CASE ~UNCHANGED <<m_dataBegin, m_dataEnd>>
  BY <1>2, Rewinds DEF StartsToReceive, ReceiveTimesOut, PumpedOut, Goto, source
<1> QED BY <1>1, <1>2

\* The source learns how much has arrived.
LEMMA GetReceiveResultInv == IInv /\ GetReceiveResult => IInv'
<1> SUFFICES ASSUME IInv, GetReceiveResult PROVE IInv'
  OBVIOUS
<1>1. TypeOK /\ InOrder /\ ReceiverOK /\ CallOK /\ EofOK
  BY DEF IInv
<1>2. /\ pc = "DoPump" /\ m_dataBegin = m_dataEnd /\ ~m_eofReceived /\ m_waitingForResult
      /\ m_dataEnd' = m_dataEnd + arrived /\ m_eofReceived' = (arrived = 0) /\ m_waitingForResult' = FALSE
      /\ m_resultPending' = FALSE
      /\ pc' \in {"DoPump", "ReceiveNoWait"} /\ (pc' = "ReceiveNoWait" => ~m_eofReceived')
      /\ UNCHANGED <<config, todo, m_buf, arrived, sink, sender, m_dataBegin, m_putSize,
                     m_outputBlocked, m_messageEndSent, call, byteCount, put, flush, ret>>
  BY DEF GetReceiveResult, NoData, Goto
<1>3. /\ m_dataBegin \in Nat /\ m_dataEnd \in Nat /\ arrived \in Nat /\ BufSize \in Nat
  BY <1>1, Types
<1>4. Held = arrived /\ Held' = arrived /\ Pending = arrived /\ Pending' = 0
  BY <1>2, <1>3 DEF Held, Pending
<1>5. ReceiverTypeOK' /\ SourceTypeOK'
  <2>1. (arrived = 0) \in BOOLEAN
    OBVIOUS
  <2>2. m_eofReceived' \in BOOLEAN
    BY <1>2, <2>1
  <2>3. ReceiverTypeOK'
    BY <1>1, <1>2, <2>2 DEF TypeOK, ReceiverTypeOK
  <2>4. m_dataEnd' \in Nat
    <3>1. m_dataEnd' = m_dataEnd + arrived
      BY <1>2
    <3> QED BY <1>3, <3>1
  <2>5. m_putSize \in Nat /\ m_outputBlocked \in BOOLEAN /\ m_messageEndSent \in BOOLEAN
    BY <1>1 DEF TypeOK, SourceTypeOK
  <2>6. SourceTypeOK'
    BY <1>2, <1>3, <2>4, <2>5 DEF SourceTypeOK
  <2> QED BY <2>3, <2>6
<1>6. Done' = Done
  BY <1>2, DoneKept
<1>7. driver = "source" /\ arrived <= BufSize - m_dataEnd /\ (arrived = 0 => todo = <<>>)
  BY <1>1, <1>2, <1>3, <1>4 DEF ReceiverOK, CallOK, PumpLabel
<1>8. ReceiverOK'
  <2>1. /\ m_dataBegin' \in Nat /\ m_dataEnd' \in Nat
        /\ m_dataBegin' <= m_dataEnd' /\ m_dataEnd' + Pending' <= BufSize
    BY <1>2, <1>3, <1>4, <1>7
  <2>2. m_eofReceived' => todo' = <<>>
    BY <1>2, <1>7
  <2>3. driver' = "source" /\ ~m_waitingForResult' /\ ~m_resultPending' /\ pc' # "ReceiveReady"
        /\ (pc' = "ReceiveNoWait" => ~m_eofReceived')
    BY <1>2, <1>7 DEF config
  <2> QED BY <2>1, <2>2, <2>3 DEF ReceiverOK
<1>9. InOrder'
  BY <1>1, <1>2, <1>4, <1>6 DEF InOrder, Continues, config, sink, sender
<1>10. m_eofState # "EOF_NONE" => Held' = 0 /\ todo' = <<>>
  BY <1>1, <1>2, <1>4, <1>7 DEF EofOK
<1> QED BY <1>2, <1>5, <1>8, <1>9, <1>10, SourceReceives

\* What Receive adds behind m_dataEnd continues the stream.
LEMMA ReceiveIs ==
  ASSUME IInv, Receive, Pending = 0, m_dataBegin <= m_dataEnd
  PROVE  \E n \in Nat :
           /\ n <= BufSize - m_dataEnd /\ n <= Len(todo) /\ (n = 0 <=> todo = <<>>)
           /\ todo' = SubSeq(todo, n + 1, Len(todo)) /\ arrived' = n
           /\ todo' \in Seq(Byte) /\ Len(todo') = Len(todo) - n
           /\ m_buf' \in Seq(Byte) /\ Len(m_buf') = BufSize
           /\ Continues(todo', Done + Held + n)
           /\ \A i \in 1 .. Held + n : m_buf'[m_dataBegin + i] = stream[Done + i]
<1>1. TypeOK /\ InOrder /\ ReceiverOK
  BY DEF IInv
<1>2. /\ stream \in Seq(Byte) /\ todo \in Seq(Byte) /\ m_buf \in Seq(Byte) /\ Len(m_buf) = BufSize
      /\ m_dataBegin \in Nat /\ m_dataEnd \in Nat /\ BufSize \in Nat \ {0} /\ Len(todo) \in Nat
  BY <1>1, Types
<1>3. m_dataEnd <= BufSize /\ Held = m_dataEnd - m_dataBegin /\ Held \in Nat /\ Done \in Nat
  BY <1>1, <1>2, Numbers DEF ReceiverOK, Held, InOrder
<1>4. PICK n \in 0 .. Lower(BufSize - m_dataEnd, Len(todo)) :
        /\ n = 0 <=> todo = <<>>
        /\ todo' = SubSeq(todo, n + 1, Len(todo))
        /\ m_buf' = [i \in DOMAIN m_buf |-> IF i > m_dataEnd /\ i <= m_dataEnd + n
                                            THEN todo[i - m_dataEnd] ELSE m_buf[i]]
        /\ arrived' = n
  BY DEF Receive
<1>5. n \in Nat /\ n <= BufSize - m_dataEnd /\ n <= Len(todo)
  BY <1>2, <1>3, <1>4 DEF Lower
<1>6. todo' \in Seq(Byte) /\ Len(todo') = Len(todo) - n
  <2>1. n + 1 \in Nat \ {0} /\ Len(todo) <= Len(todo)
    BY <1>2, <1>5
  <2> QED BY <1>2, <1>4, <1>5, <2>1, SubSeqFacts
<1>7. m_buf' \in Seq(Byte) /\ Len(m_buf') = BufSize /\ DOMAIN m_buf = 1 .. BufSize
  <2>1. DOMAIN m_buf = 1 .. BufSize /\ \A i \in 1 .. BufSize : m_buf[i] \in Byte
    BY <1>2
  <2>2. \A i \in 1 .. BufSize : i > m_dataEnd /\ i <= m_dataEnd + n => todo[i - m_dataEnd] \in Byte
    BY <1>2, <1>5
  <2>3. m_buf' \in [1 .. BufSize -> Byte]
    BY <1>4, <2>1, <2>2
  <2> QED BY <1>2, <2>1, <2>3, IsASeq
<1>8. Continues(todo', Done + Held + n)
  <2>1. Continues(todo, Done + Held)
    BY <1>1 DEF InOrder
  <2>2. Continues(SubSeq(todo, n + 1, Len(todo)), (Done + Held) + (n + 1) - 1)
    <3>1. Done + Held \in Nat /\ n + 1 \in Nat \ {0} /\ Len(todo) <= Len(todo) /\ n + 1 <= Len(todo) + 1
      BY <1>2, <1>3, <1>5
    <3> QED BY <1>1, <1>2, <2>1, <3>1, ContinuesSubSeq
  <2>3. (Done + Held) + (n + 1) - 1 = Done + Held + n
    BY <1>3, <1>5
  <2> QED BY <1>4, <2>2, <2>3
<1>9. ASSUME NEW i \in 1 .. Held + n
      PROVE  m_buf'[m_dataBegin + i] = stream[Done + i]
  <2>1. m_dataBegin + i \in 1 .. BufSize /\ i \in Nat
    BY <1>2, <1>3, <1>5
  <2>2. CASE i <= Held
    <3>1. m_buf'[m_dataBegin + i] = m_buf[m_dataBegin + i]
      BY <1>2, <1>3, <1>4, <1>7, <2>1, <2>2
    <3>2. i \in 1 .. Held
      BY <1>3, <2>1, <2>2
    <3> QED BY <1>1, <3>1, <3>2 DEF InOrder
  <2>3. CASE i > Held
    <3>1. m_buf'[m_dataBegin + i] = todo[m_dataBegin + i - m_dataEnd]
      BY <1>2, <1>3, <1>4, <1>5, <1>7, <2>1, <2>3
    <3>2. i - Held \in 1 .. Len(todo) /\ m_dataBegin + i - m_dataEnd = i - Held
          /\ Done + Held + (i - Held) = Done + i
      BY <1>2, <1>3, <1>5, <2>1, <2>3
    <3>3. todo[i - Held] = stream[Done + Held + (i - Held)]
      BY <1>1, <3>2 DEF InOrder, Continues
    <3> QED BY <3>1, <3>2, <3>3
  <2> QED BY <1>3, <2>1, <2>2, <2>3
<1> QED BY <1>4, <1>5, <1>6, <1>7, <1>8, <1>9

\* The receiver puts what has come behind m_dataEnd.
LEMMA ReceiveReadyInv == IInv /\ (ReceiveReady \/ ReceiveNoWait) => IInv'
<1> SUFFICES ASSUME IInv, ReceiveReady \/ ReceiveNoWait PROVE IInv'
  OBVIOUS
<1>1. TypeOK /\ InOrder /\ ReceiverOK /\ CallOK /\ EofOK
  BY DEF IInv
<1>2. /\ pc \in {"ReceiveReady", "ReceiveNoWait"} /\ Receive
      /\ UNCHANGED <<config, sink, sender, m_dataBegin, m_putSize,
                     m_outputBlocked, m_messageEndSent, call, byteCount, put, flush, ret>>
      /\ pc' \in {"DoPump", "ReceiveNoWait"}
      /\ m_waitingForResult' \in BOOLEAN /\ m_eofReceived' \in BOOLEAN /\ m_resultPending' \in BOOLEAN
      /\ \/ /\ pc' = "DoPump" /\ m_waitingForResult' = TRUE
            /\ UNCHANGED <<m_dataEnd, m_eofReceived>>
         \/ /\ m_dataEnd' = m_dataEnd + arrived' /\ m_resultPending' = m_resultPending
            /\ m_eofReceived' = (arrived' = 0)
            /\ pc' = "DoPump" => ~m_waitingForResult'
            /\ pc' = "ReceiveNoWait" => ~m_eofReceived'
  BY <1>1 DEF ReceiveReady, ReceiveNoWait, Goto, TypeOK, ReceiverTypeOK
<1>3. driver = "source" /\ ~m_eofReceived /\ ~m_resultPending /\ Pending = 0 /\ m_dataBegin <= m_dataEnd
  BY <1>1, <1>2 DEF ReceiverOK, CallOK, PumpLabel, Pending
<1>4. /\ m_dataBegin \in Nat /\ m_dataEnd \in Nat /\ BufSize \in Nat \ {0} /\ Len(todo) \in Nat
  BY <1>1, Types
<1>5. PICK n \in Nat :
        /\ n <= BufSize - m_dataEnd /\ n <= Len(todo) /\ (n = 0 <=> todo = <<>>)
        /\ todo' = SubSeq(todo, n + 1, Len(todo)) /\ arrived' = n
        /\ todo' \in Seq(Byte) /\ Len(todo') = Len(todo) - n
        /\ m_buf' \in Seq(Byte) /\ Len(m_buf') = BufSize
        /\ Continues(todo', Done + Held + n)
        /\ \A i \in 1 .. Held + n : m_buf'[m_dataBegin + i] = stream[Done + i]
  BY <1>2, <1>3, ReceiveIs
<1>6. Done' = Done /\ Done \in Nat
  BY <1>2, DoneKept
<1>7. Held = m_dataEnd - m_dataBegin /\ Held' = Held + n /\ m_dataEnd' + Pending' = m_dataEnd + n
      /\ m_dataEnd' \in Nat /\ m_dataEnd <= m_dataEnd'
  BY <1>2, <1>3, <1>4, <1>5 DEF Held, Pending
<1>8. ReceiverTypeOK' /\ SourceTypeOK'
  BY <1>1, <1>2, <1>5, <1>7 DEF TypeOK, ReceiverTypeOK, SourceTypeOK
<1>9. todo = <<>> => todo' = <<>>
  BY <1>4, <1>5, Empty
<1>10. ReceiverOK'
  BY <1>1, <1>2, <1>3, <1>4, <1>5, <1>7, <1>9 DEF ReceiverOK, config
<1>11. InOrder'
  <2>1. Done + Held + Len(todo) = Len(stream)
    BY <1>1 DEF InOrder
  <2>2. Done + (Held + n) + Len(todo') = Len(stream) /\ Done + (Held + n) = Done + Held + n
    <3>1. Held \in Int /\ Done \in Nat /\ Len(todo) \in Nat /\ Len(todo') = Len(todo) - n
      BY <1>4, <1>5, <1>6, <1>7
    <3>2. \A d, l, k \in Nat, h \in Int :
            d + (h + k) + (l - k) = d + h + l /\ d + (h + k) = d + h + k
      OBVIOUS
    <3>3. Done + (Held + n) + (Len(todo) - n) = Done + Held + Len(todo)
          /\ Done + (Held + n) = Done + Held + n
      BY <3>1, <3>2
    <3> QED BY <2>1, <3>1, <3>3
  <2>3. Continues(wire', 0) /\ Continues(m_buffer', Len(wire'))
    BY <1>1, <1>2 DEF InOrder, sink, sender
  <2>4. stream' = stream /\ m_dataBegin' = m_dataBegin
    BY <1>2 DEF config
  <2>5. Continues(wire, 0)' /\ Continues(m_buffer, Len(wire))'
    BY <2>3, <2>4 DEF Continues
  <2>6. \A i \in 1 .. Held' : m_buf'[m_dataBegin' + i] = stream'[Done' + i]
    BY <1>5, <1>6, <1>7, <2>4
  <2>7. Done' + Held' + Len(todo') = Len(stream') /\ 0 <= Done'
    BY <1>6, <1>7, <2>2, <2>4
  <2>8. Continues(todo, Done + Held)'
    BY <1>5, <1>6, <1>7, <2>2, <2>4 DEF Continues
  <2> QED BY <2>5, <2>6, <2>7, <2>8 DEF InOrder
<1>12. m_eofState # "EOF_NONE" => Held' = 0 /\ todo' = <<>>
  BY <1>1, <1>3, <1>5, <1>7, <1>9 DEF EofOK
<1> QED BY <1>2, <1>8, <1>10, <1>11, <1>12, SourceReceives

\* What PumpLine's delimiter leaves of s is a front of it.
LEMMA UpToDelimiterIs ==
  ASSUME NEW s \in Seq(Byte)
  PROVE  UpToDelimiter(s) \in 0 .. Len(s)
<1> DEFINE D == {i \in DOMAIN s : s[i] = Delimiter}
<1>1. CASE call.line /\ Contains(s, Delimiter)
  <2>1. D # {} /\ D \subseteq 1 .. Len(s)
    BY <1>1 DEF Contains
  <2>2. D \subseteq Nat
    BY <2>1
  <2> HIDE DEF D
  <2>3. Min(D) \in 1 .. Len(s)
    BY <2>1, <2>2, MinOfNaturals
  <2> QED BY <1>1, <2>3 DEF UpToDelimiter, D
<1>2. CASE ~(call.line /\ Contains(s, Delimiter))
  BY <1>2 DEF UpToDelimiter
<1> QED BY <1>1, <1>2

\* A piece of m_buf is a sequence of bytes, as long as was asked for.
LEMMA DataIs ==
  ASSUME TypeOK, NEW n \in Nat, m_dataBegin + n <= BufSize
  PROVE  /\ Data(m_dataBegin, n) \in Seq(Byte) /\ Len(Data(m_dataBegin, n)) = n
         /\ \A i \in 1 .. n : Data(m_dataBegin, n)[i] = m_buf[m_dataBegin + i]
<1>1. /\ m_buf \in Seq(Byte) /\ Len(m_buf) = BufSize /\ BufSize \in Nat /\ m_dataBegin \in Nat
      /\ m_dataBegin + 1 \in Nat \ {0} /\ m_dataBegin + n \in Nat
  <2>1. m_dataBegin \in Nat
    BY Counts, Zenon
  <2>2. m_dataBegin + 1 \in Nat \ {0} /\ m_dataBegin + n \in Nat
    BY <2>1
  <2> QED BY <2>1, <2>2, Sequences, Lengths, Zenon
<1> QED BY <1>1, SubSeqFacts DEF Data

\* The source starts, or makes again, the put of the n bytes at m_dataBegin.
LEMMA DoOutputInv ==
  ASSUME IInv, driver = "source", m_eofState = "EOF_NONE", pc' = "Put2",
         At \notin TakenLabel, ret # 0 \/ At # "DoOutput", m_skipBytes <= m_putSize', m_putSize' \in Nat,
         pc \notin {"ReceiveReady", "ReceiveNoWait"}, m_dataBegin + m_putSize' <= m_dataEnd,
         put' = [s |-> Data(m_dataBegin, m_putSize'), messageEnd |-> FALSE,
                 blocking |-> call'.blocking, back |-> "DoOutput"],
         call'.op \notin {"Put2"}, ThreadTypeOK',
         UNCHANGED <<config, receiver, sink, sender, m_dataBegin, m_dataEnd, m_waitingForResult,
                     m_outputBlocked, m_messageEndSent, flush, ret>>,
         call.op # "Put2"
  PROVE  IInv'
<1>1. TypeOK /\ InOrder /\ ReceiverOK /\ PutOK /\ CallOK /\ EofOK /\ FlushOK /\ QueueOK
  BY DEF IInv
<1>2. At' = "Put2"
  BY DEF At, FlushLabel
<1>3. /\ m_dataBegin \in Nat /\ m_dataEnd \in Nat /\ BufSize \in Nat /\ m_skipBytes \in Nat
      /\ m_dataEnd <= BufSize
  BY <1>1, Counts, Lengths, DataFits
<1>4. /\ Data(m_dataBegin, m_putSize') \in Seq(Byte)
      /\ Len(Data(m_dataBegin, m_putSize')) = m_putSize'
  <2>1. \A p \in Nat : m_dataBegin + p <= m_dataEnd => m_dataBegin + p <= BufSize
    BY <1>3
  <2>2. m_dataBegin + m_putSize' <= BufSize
    BY <2>1
  <2> QED BY <1>1, <2>2, DataIs
<1>5. put'.s = Data(m_dataBegin, m_putSize') /\ ~put'.messageEnd /\ put'.back = "DoOutput"
  OBVIOUS
<1>6. TypeOK'
  BY <1>1 DEF TypeOK, ConfigTypeOK, ReceiverTypeOK, SourceTypeOK, SinkTypeOK, SenderTypeOK,
              config, receiver, sink, sender
<1>7. Pending' = Pending /\ Held' = Held /\ ReceiverOK'
  BY <1>1 DEF Pending, Held, ReceiverOK, config, receiver
<1>8. Taken' = Taken
  BY <1>2 DEF Taken, TakenLabel, config, sink
<1>9. InOrder'
  BY <1>1, <1>7, <1>8, KeepsOrder DEF config, receiver, sink, sender
<1>10. PutOK'
  <2>1. Data(m_dataBegin, m_putSize)' = Data(m_dataBegin, m_putSize')
    BY DEF Data, receiver
  <2> QED BY <1>2, <1>4, <1>5, <2>1 DEF PutOK, config, sink
<1>11. CallOK'
  BY <1>1, <1>2, <1>5 DEF CallOK, PumpLabel, PutLabel, config, sink
<1>12. EofOK' /\ FlushOK'
  BY <1>1, <1>2 DEF EofOK, FlushOK, FlushLabel, TakenLabel, sink, sender
<1>13. QueueOK'
  BY <1>1, <1>2 DEF QueueOK, TakenLabel, config, sink
<1> QED BY <1>6, <1>7, <1>9, <1>10, <1>11, <1>12, <1>13 DEF IInv

\* The source offers what it holds to the sink.
LEMMA OutputsInv == IInv /\ Outputs => IInv'
<1> SUFFICES ASSUME IInv, Outputs PROVE IInv'
  OBVIOUS
<1>1. TypeOK /\ ReceiverOK /\ CallOK /\ EofOK
  BY DEF IInv
<1>2. /\ pc = "DoPump" /\ m_dataBegin # m_dataEnd
      /\ m_putSize' = UpToDelimiter(Data(m_dataBegin, Lower(m_dataEnd - m_dataBegin, call.size - byteCount)))
      /\ pc' = "Put2"
      /\ put' = [s |-> Data(m_dataBegin, m_putSize'), messageEnd |-> FALSE,
                 blocking |-> call.blocking, back |-> "DoOutput"]
      /\ UNCHANGED <<config, receiver, sink, sender, m_dataBegin, m_dataEnd, m_waitingForResult,
                     m_outputBlocked, m_messageEndSent, call, flush, ret, byteCount>>
  BY DEF Outputs, DoOutput, NoData
<1>3. At = "DoPump" /\ m_skipBytes = 0 /\ driver = "source" /\ call.op # "Put2"
  BY <1>1, <1>2 DEF At, FlushLabel, CallOK, PumpLabel, PutLabel, TakenLabel
<1>4. /\ m_dataBegin \in Nat /\ m_dataEnd \in Nat /\ BufSize \in Nat /\ call.size \in Nat
      /\ m_dataBegin < m_dataEnd /\ m_dataEnd <= BufSize
  BY <1>1, <1>2, Counts, Lengths, DataFits
<1>5. m_putSize' \in Nat /\ m_dataBegin + m_putSize' <= m_dataEnd
  <2>1. Lower(m_dataEnd - m_dataBegin, call.size - byteCount) \in Int
        /\ Lower(m_dataEnd - m_dataBegin, call.size - byteCount) <= m_dataEnd - m_dataBegin
    BY <1>1, <1>4 DEF Lower, TypeOK, ThreadTypeOK
  <2>2. PICK k \in Int : k <= m_dataEnd - m_dataBegin /\ m_putSize' = UpToDelimiter(Data(m_dataBegin, k))
    BY <1>2, <2>1
  <2>3. CASE k \in Nat
    <3>1. m_dataBegin + k <= BufSize /\ m_dataBegin + k <= m_dataEnd
      BY <1>4, <2>2, <2>3
    <3>2. Data(m_dataBegin, k) \in Seq(Byte) /\ Len(Data(m_dataBegin, k)) = k
      BY <1>1, <2>3, <3>1, DataIs
    <3>3. m_putSize' \in 0 .. k
      BY <2>2, <3>2, UpToDelimiterIs
    <3>4. \A p \in 0 .. k : p \in Nat /\ (m_dataBegin + k <= m_dataEnd => m_dataBegin + p <= m_dataEnd)
      BY <1>4, <2>3
    <3> QED BY <3>1, <3>3, <3>4
  <2>4. CASE k \notin Nat
    <3>1. Data(m_dataBegin, k) = <<>>
      BY <1>1, <1>4, <2>2, <2>4, Types DEF Data
    <3>2. Data(m_dataBegin, k) \in Seq(Byte) /\ Len(Data(m_dataBegin, k)) = 0
      BY <3>1
    <3>3. m_putSize' \in 0 .. 0
      BY <2>2, <3>2, UpToDelimiterIs
    <3> QED BY <1>4, <3>3
  <2> QED BY <2>3, <2>4
<1>6. m_eofState = "EOF_NONE"
  <2>1. Held # 0
    BY <1>4, Numbers, <1>1 DEF Held
  <2> QED BY <1>1, <1>3, <2>1 DEF EofOK
<1>7. ThreadTypeOK'
  <2>1. \A p \in Nat : m_dataBegin + p <= m_dataEnd => m_dataBegin + p <= BufSize
    BY <1>4
  <2>2. m_dataBegin + m_putSize' <= BufSize
    BY <1>5, <2>1
  <2>3. Data(m_dataBegin, m_putSize') \in Seq(Byte)
    BY <1>1, <1>5, <2>2, DataIs
  <2>4. put' \in [s : Seq(Byte), messageEnd : BOOLEAN, blocking : BOOLEAN,
                  back : {"DoOutput", "messageEnd", "return"}]
    BY <1>1, <1>2, <2>3, Types
  <2> QED BY <1>1, <1>2, <2>4 DEF TypeOK, ThreadTypeOK, Label, PutLabel
<1>8. m_skipBytes <= m_putSize'
  BY <1>3, <1>5
<1> QED BY <1>2, <1>3, <1>5, <1>6, <1>7, <1>8, DoOutputInv DEF TakenLabel

\* The sink has refused: the source offers the same again, or returns.
LEMMA OutputBlockedInv == IInv /\ OutputBlocked => IInv'
<1> SUFFICES ASSUME IInv, OutputBlocked PROVE IInv'
  OBVIOUS
<1>1. TypeOK /\ InOrder /\ ReceiverOK /\ PutOK /\ CallOK /\ EofOK /\ FlushOK /\ QueueOK
  BY DEF IInv
<1>2. /\ pc = "DoOutput" /\ ret # 0
      /\ UNCHANGED <<config, receiver, sink, sender, m_dataBegin, m_dataEnd, m_putSize,
                     m_waitingForResult, m_messageEndSent, call, flush, byteCount>>
  BY DEF OutputBlocked, DoOutput, Return
<1>3. At = "DoOutput" /\ At \in PutLabel /\ put.back = "DoOutput"
  BY <1>1, <1>2 DEF At, FlushLabel, PutLabel, PutOK
<1>4. /\ driver = "source" /\ Len(put.s) = m_putSize /\ m_skipBytes <= m_putSize
      /\ m_dataBegin + m_putSize <= m_dataEnd /\ m_eofState = "EOF_NONE" /\ call.op # "Put2"
  BY <1>1, <1>3, PutIs DEF PutOK, EofOK, CallOK
<1>5. CASE DoOutput(m_putSize) /\ UNCHANGED <<byteCount, m_outputBlocked>>
  <2>1. /\ pc' = "Put2" /\ UNCHANGED <<m_outputBlocked, ret>>
        /\ put' = [s |-> Data(m_dataBegin, m_putSize), messageEnd |-> FALSE,
                   blocking |-> call.blocking, back |-> "DoOutput"]
    BY <1>5 DEF DoOutput
  <2>2. Data(m_dataBegin, m_putSize) \in Seq(Byte) /\ m_putSize \in Nat
    BY <1>1, <1>3, Types DEF PutOK
  <2>3. put' \in [s : Seq(Byte), messageEnd : BOOLEAN, blocking : BOOLEAN,
                  back : {"DoOutput", "messageEnd", "return"}]
    BY <1>1, <2>1, <2>2, Types
  <2>4. ThreadTypeOK'
    BY <1>1, <1>2, <2>1, <2>3 DEF TypeOK, ThreadTypeOK, Label, PutLabel
  <2> QED BY <1>2, <1>3, <1>4, <2>1, <2>2, <2>4, DoOutputInv DEF TakenLabel
<1>6. CASE m_outputBlocked' = TRUE /\ Return(1)
  <2>1. pc' = "return" /\ At' = "return" /\ ret' = 1 /\ UNCHANGED put
    BY <1>6 DEF Return, At, FlushLabel
  <2>2. TypeOK'
    <3>1. SourceTypeOK'
      BY <1>1, <1>2, <1>6 DEF TypeOK, SourceTypeOK
    <3>2. ThreadTypeOK'
      BY <1>1, <1>2, <2>1 DEF TypeOK, ThreadTypeOK, Label
    <3> QED BY <1>1, <1>2, <3>1, <3>2
            DEF TypeOK, ConfigTypeOK, ReceiverTypeOK, SinkTypeOK, SenderTypeOK, config, receiver, sink, sender
  <2>3. Pending' = Pending /\ Held' = Held /\ ReceiverOK'
    BY <1>1, <1>2, <2>1 DEF Pending, Held, ReceiverOK, config, receiver
  <2>4. Taken' = Taken
    BY <1>2, <1>3, <2>1 DEF Taken, TakenLabel, config, receiver, sink
  <2>5. InOrder'
    BY <1>1, <1>2, <2>3, <2>4, KeepsOrder DEF config, receiver, sink, sender
  <2>6. PutOK'
    BY <2>1 DEF PutOK, PutLabel, TakenLabel
  <2>7. CallOK'
    <3>1. /\ driver' = "source" /\ call'.op # "Put2" /\ m_eofState' = "EOF_NONE" /\ ret' # 0
          /\ m_dataBegin' + m_putSize' <= m_dataEnd' /\ m_skipBytes' <= m_putSize'
      BY <1>2, <1>4, <2>1 DEF config, sink
    <3> QED BY <1>6, <2>1, <3>1 DEF CallOK, PumpLabel
  <2>8. EofOK' /\ FlushOK'
    BY <1>1, <1>2, <1>4, <2>1 DEF EofOK, FlushOK, FlushLabel, sink, sender
  <2>9. QueueOK'
    BY <1>1, <1>2, <1>3, <2>1 DEF QueueOK, TakenLabel, config, sink
  <2> QED BY <2>2, <2>3, <2>5, <2>6, <2>8, <2>9, <2>7 DEF IInv
<1> QED BY <1>5, <1>6 DEF OutputBlocked

\* What the put has taken is dropped from m_buf.
LEMMA OutputDoneInv == IInv /\ OutputDone => IInv'
<1> SUFFICES ASSUME IInv, OutputDone PROVE IInv'
  OBVIOUS
<1>1. TypeOK /\ InOrder /\ ReceiverOK /\ PutOK /\ CallOK /\ EofOK /\ FlushOK /\ QueueOK
  BY DEF IInv
<1>2. /\ pc = "DoOutput" /\ ret = 0 /\ m_outputBlocked' = FALSE
      /\ byteCount' = byteCount + m_putSize /\ m_dataBegin' = m_dataBegin + m_putSize
      /\ pc' \in {"pumped", "DoPump"}
      /\ UNCHANGED <<config, receiver, sink, sender, m_dataEnd, m_putSize, m_waitingForResult,
                     m_messageEndSent, call, put, flush, ret>>
  BY DEF OutputDone
<1>3. At = "DoOutput" /\ At' = pc'
  BY <1>2 DEF At, FlushLabel
<1>4. /\ driver = "source" /\ m_dataBegin + m_putSize <= m_dataEnd /\ m_skipBytes = 0
      /\ m_eofState = "EOF_NONE" /\ call.op # "Put2"
  BY <1>1, <1>2, <1>3 DEF PutOK, EofOK, CallOK, PutLabel, TakenLabel
<1>5. /\ m_dataBegin \in Nat /\ m_dataEnd \in Nat /\ m_putSize \in Nat /\ byteCount \in Nat
      /\ Pending \in Nat /\ Done \in Nat /\ Held \in Int
      /\ Len(wire) \in Nat /\ Len(m_buffer) \in Nat
  <2>1. byteCount \in Nat
    BY <1>1 DEF TypeOK, ThreadTypeOK
  <2>2. Pending \in Nat /\ Done \in Nat /\ Held \in Int
    BY <1>1, Numbers DEF InOrder
  <2> QED BY <1>1, <2>1, <2>2, Counts, Lengths, Zenon
<1>6. TypeOK'
  <2>1. byteCount' \in Nat /\ m_dataBegin' \in Nat
    <3>1. \A i, j \in Nat : i + j \in Nat
      OBVIOUS
    <3> QED BY <1>2, <1>5, <3>1
  <2>2. SourceTypeOK'
    BY <1>1, <1>2, <2>1 DEF TypeOK, SourceTypeOK
  <2>3. ThreadTypeOK'
    BY <1>1, <1>2, <2>1 DEF TypeOK, ThreadTypeOK, Label, PumpLabel
  <2> QED BY <1>1, <1>2, <2>2, <2>3
          DEF TypeOK, ConfigTypeOK, ReceiverTypeOK, SinkTypeOK, SenderTypeOK, config, receiver, sink, sender
<1>7. Pending' = Pending
  BY <1>2 DEF Pending, receiver
<1>8. Held' = Held - m_putSize
  <2>1. \A b, e, n, p \in Nat : e + p - (b + n) = e + p - b - n
    OBVIOUS
  <2> QED BY <1>2, <1>5, <1>7, <2>1 DEF Held
<1>9. Done' = Done + m_putSize
  <2>1. Taken = m_putSize /\ Taken' = 0
    BY <1>2, <1>3, <1>4 DEF Taken, TakenLabel, config, sink
  <2>2. \A w, b, n \in Nat : w + b - 0 = w + b - n + n
    OBVIOUS
  <2>3. UNCHANGED <<wire, m_buffer>>
    BY <1>2 DEF sink, sender
  <2> QED BY <1>5, <2>1, <2>2, <2>3 DEF Done
<1>10. Done' + Held' = Done + Held /\ 0 <= Done'
  BY <1>5, <1>8, <1>9
<1>11. InOrder'
  <2>1. Continues(wire, 0)' /\ Continues(m_buffer, Len(wire))'
    BY <1>1, <1>2 DEF InOrder, Continues, config, sink, sender
  <2>2. Continues(todo, Done + Held)'
    BY <1>1, <1>2, <1>10 DEF InOrder, Continues, config, receiver
  <2>3. ASSUME NEW i \in 1 .. Held'
        PROVE  m_buf'[m_dataBegin' + i] = stream'[Done' + i]
    <3>1. /\ m_putSize + i \in 1 .. Held /\ m_dataBegin' + i = m_dataBegin + (m_putSize + i)
          /\ Done' + i = Done + (m_putSize + i)
      BY <1>2, <1>5, <1>8, <1>9
    <3>2. m_buf[m_dataBegin + (m_putSize + i)] = stream[Done + (m_putSize + i)]
      BY <1>1, <3>1 DEF InOrder
    <3> QED BY <1>2, <3>1, <3>2 DEF config, receiver
  <2>4. Done' + Held' + Len(todo') = Len(stream')
    BY <1>1, <1>2, <1>10 DEF InOrder, config, receiver
  <2> QED BY <1>10, <2>1, <2>2, <2>3, <2>4 DEF InOrder
<1>12. ReceiverOK'
  BY <1>1, <1>2, <1>4, <1>7 DEF ReceiverOK, config, receiver
<1>13. PutOK' /\ CallOK'
  BY <1>1, <1>2, <1>3, <1>4 DEF PutOK, CallOK, PumpLabel, PutLabel, TakenLabel, config, sink
<1>14. EofOK' /\ FlushOK' /\ QueueOK'
  BY <1>1, <1>2, <1>3, <1>4 DEF EofOK, FlushOK, QueueOK, TakenLabel, PutLabel, FlushLabel, config, sink, sender
<1> QED BY <1>6, <1>11, <1>12, <1>13, <1>14 DEF IInv

-----------------------------------------------------------------------------
(* The client.                                                             *)

\* A call that ends gives the bytes it has put to the sink for good.
LEMMA ReturnsInv == IInv /\ Returns => IInv'
<1> SUFFICES ASSUME IInv, Returns PROVE IInv'
  OBVIOUS
<1>1. TypeOK /\ InOrder /\ ReceiverOK /\ PutOK /\ CallOK /\ EofOK /\ FlushOK /\ QueueOK
  BY DEF IInv
<1>2. /\ pc = "return" /\ pc' = "idle" /\ put' = NoPut /\ flush' = NoFlush
      /\ todo' = IF call.op = "Put2" /\ ret = 0 THEN SubSeq(todo, call.size + 1, Len(todo)) ELSE todo
      /\ UNCHANGED <<config, m_buf, arrived, m_resultPending, m_eofReceived, source, sink, sender, call, byteCount, ret>>
  BY DEF Returns
<1>3. At = "return" /\ At' = "idle"
  BY <1>2 DEF At, FlushLabel
<1>4. /\ todo \in Seq(Byte) /\ stream \in Seq(Byte) /\ Len(todo) \in Nat /\ call.size \in Nat
      /\ Done \in Nat /\ Held \in Int /\ m_skipBytes \in Nat
      /\ Len(wire) \in Nat /\ Len(m_buffer) \in Nat
  <2>1. Done \in Nat /\ Held \in Int
    BY <1>1, Numbers DEF InOrder
  <2> QED BY <1>1, <2>1, Sequences, Lengths, Counts, Zenon
<1>5. Pending' = Pending /\ Held' = Held
  BY <1>2 DEF Pending, Held, source
<1>6. put' \in [s : Seq(Byte), messageEnd : BOOLEAN, blocking : BOOLEAN,
                back : {"DoOutput", "messageEnd", "return"}]
      /\ flush' \in [time : Time, target : Nat, back : {"put", "putFlushed", "eofFlushed", "return"}]
  BY <1>2 DEF NoPut, NoFlush, Time
<1>7. ThreadTypeOK' /\ ConfigTypeOK' /\ SourceTypeOK' /\ SinkTypeOK' /\ SenderTypeOK'
  <2>1. ThreadTypeOK'
    BY <1>1, <1>2, <1>6 DEF TypeOK, ThreadTypeOK, Label
  <2> QED BY <1>1, <1>2, <2>1 DEF TypeOK, ConfigTypeOK, SourceTypeOK, SinkTypeOK, SenderTypeOK,
                                  config, source, sink, sender
<1>8. CASE ~(call.op = "Put2" /\ ret = 0)
  <2>1. todo' = todo
    BY <1>2, <1>8
  <2>2. ReceiverTypeOK'
    BY <1>1, <1>2, <2>1 DEF TypeOK, ReceiverTypeOK
  <2>3. Taken' = Taken
    BY <1>2, <1>3, <1>8, <2>1 DEF Taken, TakenLabel, config, sink
  <2>4. InOrder'
    BY <1>1, <1>2, <1>5, <2>1, <2>3, KeepsOrder DEF config, source, sink, sender
  <2>5. ReceiverOK' /\ PutOK'
    BY <1>1, <1>2, <1>3, <1>5, <2>1 DEF ReceiverOK, PutOK, PutLabel, TakenLabel, config, source
  <2>6. CallOK'
    BY <1>1, <1>2, <1>3, <1>8, <2>1 DEF CallOK, PumpLabel, PutLabel, TakenLabel, config, source, sink
  <2>7. EofOK' /\ FlushOK' /\ QueueOK'
    BY <1>1, <1>2, <1>3, <1>5, <1>8, <2>1
       DEF EofOK, FlushOK, QueueOK, TakenLabel, PutLabel, FlushLabel, config, sink, sender
  <2> QED BY <1>7, <2>2, <2>4, <2>5, <2>6, <2>7 DEF IInv, TypeOK
<1>9. CASE call.op = "Put2" /\ ret = 0
  <2>1. /\ driver = "client" /\ call.size <= Len(todo) /\ (call.line => call.size = Len(todo))
        /\ m_skipBytes = 0 /\ ~m_outputBlocked
    BY <1>1, <1>2, <1>3, <1>9 DEF CallOK, PutLabel, TakenLabel
  <2>2. todo' = SubSeq(todo, call.size + 1, Len(todo))
    BY <1>2, <1>9
  <2>3. todo' \in Seq(Byte) /\ Len(todo') = Len(todo) - call.size
    <3>1. call.size + 1 \in Nat \ {0} /\ Len(todo) <= Len(todo)
      BY <1>4
    <3>2. Len(SubSeq(todo, call.size + 1, Len(todo)))
            = (IF call.size + 1 <= Len(todo) THEN Len(todo) + 1 - (call.size + 1) ELSE 0)
          /\ SubSeq(todo, call.size + 1, Len(todo)) \in Seq(Byte)
      BY <1>4, <3>1, SubSeqFacts
    <3>3. Len(todo') = IF call.size + 1 <= Len(todo) THEN Len(todo) + 1 - (call.size + 1) ELSE 0
      BY <2>2, <3>2
    <3>4. \A k, l \in Nat : k <= l => (IF k + 1 <= l THEN l + 1 - (k + 1) ELSE 0) = l - k
      OBVIOUS
    <3> QED BY <1>4, <2>1, <2>2, <3>2, <3>3, <3>4
  <2>4. ReceiverTypeOK'
    BY <1>1, <1>2, <2>3 DEF TypeOK, ReceiverTypeOK
  <2>5. Held = 0
    BY <1>1, <1>2, <2>1, Types DEF ReceiverOK, Held, Pending
  <2>6. Done' = Done + call.size
    <3>1. Done' = Len(wire) + Len(m_buffer) - Taken' /\ Done = Len(wire) + Len(m_buffer) - Taken
      BY <1>2 DEF Done, sink, sender
    <3>2. CASE m_eofState = "EOF_NONE"
      <4>1. Taken = call.size /\ Taken' = 0
        BY <1>2, <1>3, <1>9, <2>1, <3>2 DEF Taken, TakenLabel, config, sink
      <4>2. \A w, b, k \in Nat : w + b - 0 = w + b - k + k
        OBVIOUS
      <4> QED BY <1>4, <3>1, <4>1, <4>2
    <3>3. CASE m_eofState # "EOF_NONE"
      <4>1. Taken = Len(todo) /\ Taken' = Len(todo) - call.size
        BY <1>2, <2>1, <2>3, <3>3 DEF Taken, config, sink
      <4>2. \A w, b, l, k \in Nat : w + b - (l - k) = w + b - l + k
        OBVIOUS
      <4>3. Done' = Len(wire) + Len(m_buffer) - (Len(todo) - call.size)
            /\ Done = Len(wire) + Len(m_buffer) - Len(todo)
        BY <3>1, <4>1
      <4> QED BY <1>4, <4>2, <4>3
    <3> QED BY <3>2, <3>3
  <2>7. Continues(todo', Done + call.size)
    <3>1. Continues(todo, Done)
      BY <1>1, <1>4, <2>5 DEF InOrder
    <3>2. Len(todo) <= Len(todo) /\ call.size + 1 \in Nat \ {0} /\ call.size + 1 <= Len(todo) + 1
      BY <1>4, <2>1
    <3>3. Continues(SubSeq(todo, call.size + 1, Len(todo)), Done + (call.size + 1) - 1)
      BY <1>4, <3>1, <3>2, ContinuesSubSeq
    <3>4. Done + (call.size + 1) - 1 = Done + call.size
      BY <1>4
    <3> QED BY <2>2, <3>3, <3>4
  <2>8. InOrder'
    <3>1. Continues(wire, 0)' /\ Continues(m_buffer, Len(wire))'
      BY <1>1, <1>2 DEF InOrder, Continues, config, sink, sender
    <3>2. Held' = 0 /\ 1 .. Held' = {}
      BY <1>5, <2>5
    <3>3. Done' + Held' = Done + call.size /\ 0 <= Done' /\ Done' + Held' + Len(todo') = Len(stream')
      <4>1. Done + Held + Len(todo) = Len(stream) /\ UNCHANGED stream
        BY <1>1, <1>2 DEF InOrder, config
      <4>2. \A d, k, l \in Nat : d + k + 0 = d + k /\ 0 <= d + k /\ d + k + 0 + (l - k) = d + 0 + l
        OBVIOUS
      <4>3. /\ Done + call.size + 0 = Done + call.size /\ 0 <= Done + call.size
            /\ Done + call.size + 0 + (Len(todo) - call.size) = Done + 0 + Len(todo)
        BY <1>4, <4>2
      <4> QED BY <1>5, <2>3, <2>5, <2>6, <4>1, <4>3, Zenon
    <3>4. Continues(todo, Done + Held)'
      BY <1>2, <2>7, <3>3 DEF Continues, config
    <3> QED BY <3>1, <3>2, <3>3, <3>4 DEF InOrder
  <2>9. ReceiverOK' /\ PutOK' /\ CallOK'
    BY <1>1, <1>2, <1>3, <1>5, <1>9, <2>1
       DEF ReceiverOK, PutOK, CallOK, PumpLabel, PutLabel, TakenLabel, config, source, sink
  <2>10. EofOK'
    <3>1. m_eofState # "EOF_NONE" => todo' = <<>>
      <4>1. m_eofState # "EOF_NONE" => Len(todo') = 0
        <5>1. m_eofState # "EOF_NONE" => todo = <<>> \/ call.line
          BY <1>1, <2>1 DEF EofOK
        <5>2. m_eofState # "EOF_NONE" => Len(todo) = 0 \/ call.size = Len(todo)
          BY <2>1, <5>1
        <5> QED BY <1>4, <2>1, <2>3, <5>2
      <4> QED BY <2>3, <4>1, Empty
    <3> QED BY <1>1, <1>2, <1>3, <1>5, <2>1, <3>1 DEF EofOK, TakenLabel, PutLabel, config, sink
  <2>11. FlushOK' /\ QueueOK'
    BY <1>1, <1>2, <1>3 DEF FlushOK, QueueOK, TakenLabel, FlushLabel, config, sink, sender
  <2> QED BY <1>7, <2>4, <2>8, <2>9, <2>10, <2>11 DEF IInv, TypeOK
<1> QED BY <1>8, <1>9

\* A call of the pump starts, and goes on with the output that was refused.
LEMMA PumpInv == ASSUME NEW c \in Pumps PROVE IInv /\ Pump(c) => IInv'
<1> SUFFICES ASSUME IInv, Pump(c) PROVE IInv'
  OBVIOUS
<1>1. TypeOK /\ InOrder /\ ReceiverOK /\ PutOK /\ CallOK /\ EofOK /\ FlushOK /\ QueueOK
  BY DEF IInv
<1>2. /\ pc = "idle" /\ driver = "source" /\ (ret # 0 => c = call) /\ call' = c /\ byteCount' = 0
      /\ UNCHANGED <<config, receiver, source, sink, sender, flush, ret>>
  BY DEF Pump, MayCall
<1>3. At = "idle" /\ call.op # "Put2"
  BY <1>1, <1>2 DEF At, FlushLabel, CallOK
<1>4. c \in [op : {"PumpMessages2", "GeneralPump2"}, size : Nat, time : Time, blocking : BOOLEAN, line : BOOLEAN]
  <2>1. LWORD_MAX \in Nat /\ PumpSizes \subseteq Nat
    BY <1>1, Lengths, NetworkAssumption DEF LWORD_MAX
  <2> QED BY <2>1 DEF Pumps, Time
<1>5. c.op \in {"PumpMessages2", "GeneralPump2"} /\ c.blocking \in BOOLEAN
  BY <1>4
<1>6. call' \in [op : {"none", "PumpMessages2", "GeneralPump2", "Put2", "TimedFlush"},
                 size : Nat, time : Time, blocking : BOOLEAN, line : BOOLEAN]
  BY <1>2, <1>4
<1>7. CASE m_outputBlocked
  <2>1. /\ pc' = "Put2"
        /\ put' = [s |-> Data(m_dataBegin, m_putSize), messageEnd |-> FALSE,
                   blocking |-> call'.blocking, back |-> "DoOutput"]
    BY <1>2, <1>7 DEF Pump
  <2>2. /\ m_dataBegin + m_putSize <= m_dataEnd /\ m_eofState = "EOF_NONE" /\ m_skipBytes <= m_putSize
        /\ m_putSize \in Nat
    BY <1>1, <1>2, <1>3, <1>7, Types DEF CallOK, PutLabel, TakenLabel
  <2>3. Data(m_dataBegin, m_putSize) \in Seq(Byte)
    <3>1. m_dataBegin + m_putSize <= BufSize
      BY <1>1, <2>2, Counts, Lengths, DataFits
    <3> QED BY <1>1, <2>2, <3>1, DataIs
  <2>4. put' \in [s : Seq(Byte), messageEnd : BOOLEAN, blocking : BOOLEAN,
                  back : {"DoOutput", "messageEnd", "return"}]
    BY <1>2, <1>5, <2>1, <2>3
  <2>5. ThreadTypeOK'
    BY <1>1, <1>2, <1>6, <2>1, <2>4 DEF TypeOK, ThreadTypeOK, Label, PutLabel
  <2>6. UNCHANGED <<m_dataBegin, m_dataEnd, m_waitingForResult, m_outputBlocked, m_messageEndSent, m_putSize>>
    BY <1>2 DEF source
  <2>7. call'.op # "Put2" /\ At \notin TakenLabel /\ At # "DoOutput"
    BY <1>2, <1>3, <1>5 DEF TakenLabel
  <2> QED BY <1>2, <1>3, <2>1, <2>2, <2>5, <2>6, <2>7, DoOutputInv
<1>8. CASE ~m_outputBlocked
  <2>1. pc' = "DoPump" /\ At' = "DoPump" /\ UNCHANGED put
    BY <1>2, <1>8 DEF Pump, At, FlushLabel
  <2>2. /\ ConfigTypeOK' /\ ReceiverTypeOK' /\ SourceTypeOK'
        /\ Pending' = Pending /\ Held' = Held /\ ReceiverOK'
    BY <1>1, <1>2, <2>1, SourceRests
  <2>3. ThreadTypeOK'
    BY <1>1, <1>2, <1>6, <2>1 DEF TypeOK, ThreadTypeOK, Label, PumpLabel
  <2>4. TypeOK'
    BY <1>1, <1>2, <2>2, <2>3 DEF TypeOK, SinkTypeOK, SenderTypeOK, sink, sender
  <2>5. m_skipBytes = 0
    BY <1>1, <1>2, <1>3, <1>8 DEF CallOK, PutLabel, TakenLabel
  <2>6. Taken' = Taken
    BY <1>2, <1>3, <2>1 DEF Taken, TakenLabel, config, receiver, sink
  <2>7. InOrder'
    BY <1>1, <1>2, <2>2, <2>6, KeepsOrder DEF config, receiver, source, sink, sender
  <2>8. PutOK' /\ CallOK'
    BY <1>1, <1>2, <1>5, <1>8, <2>1, <2>5
       DEF PutOK, CallOK, PumpLabel, PutLabel, TakenLabel, config, receiver, source, sink
  <2>9. EofOK' /\ FlushOK' /\ QueueOK'
    BY <1>1, <1>2, <1>3, <2>1, <2>2
       DEF EofOK, FlushOK, QueueOK, TakenLabel, PutLabel, FlushLabel, config, receiver, sink, sender
  <2> QED BY <2>2, <2>4, <2>7, <2>8, <2>9 DEF IInv
<1> QED BY <1>7, <1>8

\* The client puts its next bytes, or makes a refused put again.
LEMMA PutsInv ==
  ASSUME NEW n \in Nat, NEW messageEnd \in BOOLEAN, NEW blocking \in BOOLEAN, n <= Len(todo)
  PROVE  IInv /\ Puts(n, messageEnd, blocking) => IInv'
<1> SUFFICES ASSUME IInv, Puts(n, messageEnd, blocking) PROVE IInv'
  OBVIOUS
<1> DEFINE c == [op |-> "Put2", size |-> n, time |-> "none", blocking |-> blocking, line |-> messageEnd]
<1>1. TypeOK /\ InOrder /\ ReceiverOK /\ PutOK /\ CallOK /\ EofOK /\ FlushOK /\ QueueOK
  BY DEF IInv
<1>2. /\ pc = "idle" /\ driver = "client" /\ (ret # 0 => c = call) /\ (messageEnd => n = Len(todo))
      /\ call' = c /\ pc' = "Put2"
      /\ put' = [s |-> SubSeq(todo, 1, n), messageEnd |-> messageEnd, blocking |-> blocking, back |-> "return"]
      /\ UNCHANGED <<config, receiver, source, sink, sender, byteCount, flush, ret>>
  BY DEF Puts, MayCall
<1>3. /\ c.op = "Put2" /\ c.size = n /\ c.line = messageEnd
      /\ c \in [op : {"none", "PumpMessages2", "GeneralPump2", "Put2", "TimedFlush"},
                size : Nat, time : Time, blocking : BOOLEAN, line : BOOLEAN]
  BY DEF Time
<1> HIDE DEF c
<1>4. At = "idle" /\ At' = "Put2"
  BY <1>2 DEF At, FlushLabel
<1>5. todo \in Seq(Byte) /\ SubSeq(todo, 1, n) \in Seq(Byte) /\ Len(SubSeq(todo, 1, n)) = n /\ m_skipBytes \in Nat
  <2>1. todo \in Seq(Byte) /\ m_skipBytes \in Nat
    BY <1>1, Types
  <2>2. /\ SubSeq(todo, 1, n) \in Seq(Byte)
        /\ Len(SubSeq(todo, 1, n)) = IF 1 <= n THEN n + 1 - 1 ELSE 0
    BY <2>1, SubSeqFacts
  <2> QED BY <2>1, <2>2
<1>6. /\ put' \in [s : Seq(Byte), messageEnd : BOOLEAN, blocking : BOOLEAN,
                   back : {"DoOutput", "messageEnd", "return"}]
      /\ put'.s = SubSeq(todo, 1, n) /\ put'.back = "return" /\ put'.messageEnd = messageEnd
  BY <1>2, <1>5
<1>7. /\ ConfigTypeOK' /\ ReceiverTypeOK' /\ SourceTypeOK'
      /\ Pending' = Pending /\ Held' = Held /\ ReceiverOK'
  BY <1>1, <1>2, SourceRests
<1>8. TypeOK'
  <2>1. ThreadTypeOK'
    BY <1>1, <1>2, <1>3, <1>6 DEF TypeOK, ThreadTypeOK, Label, PutLabel
  <2> QED BY <1>1, <1>2, <1>7, <2>1 DEF TypeOK, SinkTypeOK, SenderTypeOK, sink, sender
<1>9. m_skipBytes <= n /\ ~m_outputBlocked
  BY <1>1, <1>2, <1>3, <1>4, <1>5 DEF CallOK, PutLabel, TakenLabel
<1>10. Taken' = Taken
  BY <1>2, <1>4 DEF Taken, TakenLabel, config, receiver, sink
<1>11. InOrder'
  BY <1>1, <1>2, <1>7, <1>10, KeepsOrder DEF config, receiver, source, sink, sender
<1>12. PutOK'
  BY <1>2, <1>3, <1>4, <1>5, <1>6, <1>9 DEF PutOK, config, receiver, sink
<1>13. CallOK'
  BY <1>2, <1>3, <1>4, <1>6, <1>9 DEF CallOK, PumpLabel, PutLabel, config, receiver, source, sink
<1>14. EofOK'
  <2>1. m_eofState # "EOF_NONE" => todo = <<>> \/ messageEnd
    BY <1>1, <1>2, <1>3 DEF EofOK
  <2> QED BY <1>1, <1>2, <1>3, <1>4, <1>6, <2>1 DEF EofOK, TakenLabel, config, receiver, sink
<1>15. FlushOK' /\ QueueOK'
  BY <1>1, <1>2, <1>4 DEF FlushOK, QueueOK, TakenLabel, FlushLabel, config, sink, sender
<1> QED BY <1>7, <1>8, <1>11, <1>12, <1>13, <1>14, <1>15 DEF IInv

\* The client flushes the sink.
LEMMA FlushInv ==
  ASSUME NEW time \in Time, NEW target \in Nat
  PROVE  IInv /\ Flush(time, target) => IInv'
<1> SUFFICES ASSUME IInv, Flush(time, target) PROVE IInv'
  OBVIOUS
<1>1. TypeOK /\ InOrder /\ ReceiverOK /\ PutOK /\ CallOK /\ EofOK /\ FlushOK /\ QueueOK
  BY DEF IInv
<1>2. /\ pc = "idle" /\ ret = 0 /\ call' = [NoCall EXCEPT !.op = "TimedFlush"]
      /\ \/ pc' = "return" /\ UNCHANGED flush
         \/ pc' = "DoFlush" /\ flush' = [time |-> time, target |-> target, back |-> "return"]
      /\ UNCHANGED <<config, receiver, source, sink, sender, byteCount, put, ret>>
  BY DEF Flush, TimedFlush
<1>3. At = "idle" /\ At' = "return"
  BY <1>2 DEF At, FlushLabel
<1>4. /\ call'.op = "TimedFlush"
      /\ call' \in [op : {"none", "PumpMessages2", "GeneralPump2", "Put2", "TimedFlush"},
                    size : Nat, time : Time, blocking : BOOLEAN, line : BOOLEAN]
  BY <1>2 DEF NoCall, Time
<1>5. /\ pc' = "DoFlush" => flush'.back = "return"
      /\ flush' = flush \/ flush' \in [time : Time, target : Nat, back : {"put", "putFlushed", "eofFlushed", "return"}]
  BY <1>2
<1>6. /\ ConfigTypeOK' /\ ReceiverTypeOK' /\ SourceTypeOK'
      /\ Pending' = Pending /\ Held' = Held /\ ReceiverOK'
  BY <1>1, <1>2, SourceRests
<1>7. TypeOK'
  <2>1. ThreadTypeOK'
    BY <1>1, <1>2, <1>4, <1>5 DEF TypeOK, ThreadTypeOK, Label, FlushLabel
  <2> QED BY <1>1, <1>2, <1>6, <2>1 DEF TypeOK, SinkTypeOK, SenderTypeOK, sink, sender
<1>8. m_skipBytes = 0 /\ ~m_outputBlocked
  BY <1>1, <1>2, <1>3 DEF CallOK, PutLabel, TakenLabel
<1>9. Taken' = Taken
  BY <1>2, <1>3, <1>4 DEF Taken, TakenLabel, config, receiver, sink
<1>10. InOrder'
  BY <1>1, <1>2, <1>6, <1>9, KeepsOrder DEF config, receiver, source, sink, sender
<1>11. PutOK' /\ CallOK'
  BY <1>2, <1>3, <1>4, <1>8 DEF PutOK, CallOK, PumpLabel, PutLabel, TakenLabel, source, sink
<1>12. EofOK'
  BY <1>1, <1>2, <1>3, <1>6 DEF EofOK, TakenLabel, PutLabel, config, receiver, sink
<1>13. FlushOK' /\ QueueOK'
  BY <1>1, <1>2, <1>3, <1>4, <1>5, <1>8 DEF FlushOK, QueueOK, TakenLabel, FlushLabel, config, sink, sender
<1> QED BY <1>6, <1>7, <1>10, <1>11, <1>12, <1>13 DEF IInv

-----------------------------------------------------------------------------
\* Nothing is held, queued or under way in the initial states.
LEMMA InitInv == Init => IInv
<1> SUFFICES ASSUME Init PROVE IInv
  OBVIOUS
<1>1. /\ stream \in Seq(Byte) /\ todo = stream /\ m_maxBufferSize \in Nat /\ m_autoFlushBound \in Nat
      /\ BufSize \in Nat
  BY NetworkAssumption DEF Init
<1>2. /\ m_dataBegin = 0 /\ m_dataEnd = 0 /\ m_putSize = 0 /\ m_waitingForResult = FALSE
      /\ m_outputBlocked = FALSE /\ m_messageEndSent = FALSE /\ arrived = 0 /\ m_resultPending = FALSE /\ m_eofReceived = FALSE
      /\ m_buffer = <<>> /\ m_needSendResult = FALSE /\ m_skipBytes = 0 /\ m_eofState = "EOF_NONE"
      /\ block = <<>> /\ wire = <<>> /\ m_lastResult = 0 /\ pc = "idle" /\ byteCount = 0 /\ ret = 0
  BY DEF Init
<1>3. call = NoCall /\ put = NoPut /\ flush = NoFlush /\ At = "idle" /\ call.op = "none"
  BY DEF Init, At, FlushLabel, NoCall
<1>4. m_buf \in Seq(Byte) /\ Len(m_buf) = BufSize
  <2>1. m_buf = [i \in 1 .. BufSize |-> 0]
    BY DEF Init
  <2>2. 0 \in Byte
    BY DEF Byte
  <2> QED BY <1>1, <2>1, <2>2
<1>5. TypeOK
  <2>1. ConfigTypeOK
    BY <1>1 DEF Init, ConfigTypeOK
  <2>2. ReceiverTypeOK /\ SourceTypeOK
    BY <1>1, <1>2, <1>4 DEF ReceiverTypeOK, SourceTypeOK
  <2>3. SinkTypeOK /\ SenderTypeOK
    <3>1. m_buffer \in Seq(Byte) /\ block \in Seq(Byte) /\ wire \in Seq(Byte)
      BY <1>2
    <3>2. SinkTypeOK
      BY <1>2, <3>1 DEF SinkTypeOK
    <3>3. SenderTypeOK
      BY <1>2, <3>1 DEF SenderTypeOK
    <3> QED BY <3>2, <3>3
  <2>4. ThreadTypeOK
    BY <1>2, <1>3 DEF ThreadTypeOK, Label, NoCall, NoPut, NoFlush, Time
  <2> QED BY <2>1, <2>2, <2>3, <2>4 DEF TypeOK
<1>6. Pending = 0 /\ Held = 0 /\ Taken = 0 /\ Done = 0
  <2>1. Pending = 0 /\ Taken = 0
    BY <1>2, <1>3 DEF Pending, Taken, TakenLabel
  <2> QED BY <1>2, <2>1 DEF Held, Done
<1>7. InOrder
  <2>1. Len(wire) = 0 /\ Len(m_buffer) = 0 /\ Len(stream) \in Nat
    BY <1>1, <1>2
  <2>2. Continues(wire, 0) /\ Continues(m_buffer, Len(wire))
    BY <2>1 DEF Continues
  <2>3. Continues(todo, Done + Held)
    BY <1>1, <1>6, <2>1 DEF Continues
  <2> QED BY <1>1, <1>6, <2>1, <2>2, <2>3 DEF InOrder
<1>8. ReceiverOK /\ PutOK
  BY <1>1, <1>2, <1>3, <1>6 DEF ReceiverOK, PutOK, PutLabel, TakenLabel
<1>9. CallOK /\ EofOK
  BY <1>2, <1>3 DEF CallOK, EofOK, PumpLabel, TakenLabel
<1>10. FlushOK /\ QueueOK
  BY <1>1, <1>2, <1>3 DEF FlushOK, QueueOK, FlushLabel
<1> QED BY <1>5, <1>7, <1>8, <1>9, <1>10 DEF IInv

\* A loop that gets nowhere, and a step of nobody's, change nothing.
LEMMA StutterInv == IInv /\ UNCHANGED vars => IInv'
<1> SUFFICES ASSUME IInv, UNCHANGED vars PROVE IInv'
  OBVIOUS
<1> USE DEF vars, config, receiver, source, sink, sender, thread
<1>1. At' = At /\ Pending' = Pending /\ Held' = Held /\ Taken' = Taken /\ Done' = Done
  BY DEF At, Pending, Held, Taken, Done
<1>2. TypeOK'
  <2>1. ConfigTypeOK' /\ ReceiverTypeOK' /\ SourceTypeOK'
    BY DEF IInv, TypeOK, ConfigTypeOK, ReceiverTypeOK, SourceTypeOK
  <2>2. SinkTypeOK' /\ SenderTypeOK' /\ ThreadTypeOK'
    BY DEF IInv, TypeOK, SinkTypeOK, SenderTypeOK, ThreadTypeOK
  <2> QED BY <2>1, <2>2 DEF TypeOK
<1>3. InOrder' /\ ReceiverOK'
  BY <1>1 DEF IInv, InOrder, Continues, ReceiverOK
<1>4. PutOK' /\ CallOK'
  BY <1>1 DEF IInv, PutOK, CallOK, Data
<1>5. EofOK' /\ FlushOK' /\ QueueOK'
  BY <1>1 DEF IInv, EofOK, FlushOK, QueueOK, Blocked, TargetSize
<1> QED BY <1>2, <1>3, <1>4, <1>5 DEF IInv

\* Every step of the client and of the code keeps the invariant.
LEMMA NextInv == IInv /\ [Next]_vars => IInv'
<1> SUFFICES ASSUME IInv, Next PROVE IInv'
  BY StutterInv
<1>1. CASE Client
  <2>1. ASSUME NEW c \in Pumps, Pump(c) PROVE IInv'
    BY <2>1, PumpInv
  <2>2. ASSUME NEW n \in 1 .. 2, NEW messageEnd \in BOOLEAN, NEW blocking \in BOOLEAN,
               n <= Len(todo), Puts(n, messageEnd, blocking)
        PROVE  IInv'
    <3>1. n \in Nat
      OBVIOUS
    <3> QED BY <2>2, <3>1, PutsInv
  <2>3. ASSUME NEW blocking \in BOOLEAN, Puts(Len(todo), TRUE, blocking) PROVE IInv'
    <3>1. Len(todo) \in Nat /\ Len(todo) <= Len(todo)
      BY Types DEF IInv
    <3> QED BY <2>3, <3>1, PutsInv
  <2>4. ASSUME NEW time \in Time, NEW target \in FlushSizes, Flush(time, target) PROVE IInv'
    <3>1. target \in Nat
      BY NetworkAssumption
    <3> QED BY <2>4, <3>1, FlushInv
  <2> QED BY <1>1, <2>1, <2>2, <2>3, <2>4 DEF Client
<1>2. CASE PumpedOut \/ ReceiveTimesOut \/ GetReceiveResult \/ StartsToReceive \/ ReceiveReady \/ ReceiveNoWait
  BY <1>2, StartsToReceiveInv, GetReceiveResultInv, ReceiveReadyInv
<1>3. CASE Outputs \/ OutputBlocked \/ OutputDone \/ PumpReturns \/ MessageEndSent
  BY <1>3, OutputsInv, OutputBlockedInv, OutputDoneInv, PumpReturnsInv, MessageEndSentInv
<1>4. CASE Put2 \/ AutoFlush \/ PutFlush \/ PutBlocked \/ PutDone \/ EofFlushed
  BY <1>4, Put2Inv, AutoFlushInv, PutFlushInv, PutBlockedInv, PutDoneInv, EofFlushedInv
<1>5. CASE FlushTimesOut \/ GetSendResult \/ Send \/ SendEof \/ EofWait \/ EofTimesOut \/ EofSpins
  BY <1>5, FlushTimesOutInv, GetSendResultInv, SendInv, SendEofInv, StutterInv DEF EofSpins
<1>6. CASE Returns
  BY <1>6, ReturnsInv
<1> QED BY <1>1, <1>2, <1>3, <1>4, <1>5, <1>6 DEF Next, Runs

\* The invariant holds in every state of every behaviour.
THEOREM InvariantHolds == Spec => []IInv
BY InitInv, NextInv, PTL DEF Spec

-----------------------------------------------------------------------------
\* What has reached the peer is the beginning of what the other one sent, however
\* often calls time out, are refused and made again (network.cpp:432-458,
\* 487-517).
THEOREM TheWireIsAPrefix == Spec => []WireIsPrefix
<1>1. IInv => WireIsPrefix
  <2> SUFFICES ASSUME IInv PROVE WireIsPrefix
    OBVIOUS
  <2>1. wire \in Seq(Byte) /\ stream \in Seq(Byte)
    BY Types DEF IInv
  <2>2. Len(wire) <= Len(stream) /\ \A i \in 1 .. Len(wire) : wire[i] = stream[i]
    BY <2>1 DEF IInv, InOrder, Continues
  <2> QED BY <2>1, <2>2, PrefixFacts DEF WireIsPrefix
<1> QED BY <1>1, InvariantHolds, PTL

\* No assertion of Put2, PutDone, Receive or Send fails: no put shrinks, no
\* blocking one is refused, and nothing is received or sent while the result of
\* the last one is pending (network.cpp:434, 450, socketft.cpp:330, 412,
\* winpipes.cpp:91).
THEOREM NoAssertionFails == Spec => []AssertionsHold
<1>1. IInv => AssertionsHold
  <2> SUFFICES ASSUME IInv PROVE AssertionsHold
    OBVIOUS
  <2>1. ReceiverOK /\ PutOK /\ FlushOK
    BY DEF IInv
  <2>2. pc = "Put2" /\ m_eofState = "EOF_NONE" => Len(put.s) >= m_skipBytes
    <3>1. pc = "Put2" => m_skipBytes <= Len(put.s)
      BY <2>1 DEF PutOK, At, PutLabel, TakenLabel, FlushLabel
    <3> QED BY <3>1, Lengths, Counts DEF IInv
  <2>3. pc = "putFlushed" /\ put.blocking => ~Blocked
    BY <2>1 DEF FlushOK
  <2>4. pc \in {"ReceiveReady", "ReceiveNoWait"} => ~m_resultPending /\ ~m_eofReceived
    BY <2>1 DEF ReceiverOK
  <2>5. Sends => ~m_needSendResult
    BY <2>1 DEF FlushOK, Sends
  <2> QED BY <2>2, <2>3, <2>4, <2>5 DEF AssertionsHold
<1> QED BY <1>1, InvariantHolds, PTL

\* The end of the stream is sent after all of it, and what a pending send reads
\* is still at the front of the queue (network.cpp:511-532).
THEOREM TheEndIsLast == Spec => []EofIsLast
<1>1. IInv => EofIsLast
  <2> SUFFICES ASSUME IInv PROVE EofIsLast
    OBVIOUS
  <2>1. TypeOK /\ InOrder /\ ReceiverOK /\ EofOK /\ FlushOK
    BY DEF IInv
  <2>2. /\ wire \in Seq(Byte) /\ stream \in Seq(Byte) /\ block \in Seq(Byte) /\ m_buffer \in Seq(Byte)
        /\ Len(wire) \in Nat /\ Len(stream) \in Nat /\ Len(todo) \in Nat
        /\ driver \in {"source", "client"}
    <3>1. driver \in {"source", "client"}
      BY <2>1 DEF TypeOK, ConfigTypeOK
    <3> QED BY <2>1, <3>1, Sequences, Lengths
  <2>3. ASSUME m_eofState # "EOF_NONE" PROVE wire = stream /\ ~m_needSendResult
    <3>1. m_buffer = <<>>
      BY <2>1, <2>3 DEF EofOK
    <3>2. ~m_needSendResult
      <4>1. m_needSendResult => block # <<>> /\ Len(block) <= Len(m_buffer)
        BY <2>1, <2>2, PrefixFacts DEF FlushOK
      <4>2. Len(block) \in Nat /\ Len(m_buffer) = 0
        BY <2>2, <3>1
      <4> QED BY <2>2, <4>1, <4>2, Empty
    <3>3. Len(wire) = Len(stream)
      <4>1. Held = 0 /\ Done = Len(wire) - (IF driver = "client" THEN Len(todo) ELSE 0)
            /\ (driver = "source" => Len(todo) = 0)
        <5>1. CASE driver = "source"
          BY <2>1, <2>2, <2>3, <3>1, <5>1 DEF EofOK, Done, Taken
        <5>2. CASE driver = "client"
          <6>1. Held = 0
            BY <2>1, <5>2, Types DEF ReceiverOK, Held, Pending
          <6> QED BY <2>2, <2>3, <3>1, <5>2, <6>1 DEF Done, Taken
        <5> QED BY <2>2, <5>1, <5>2
      <4>2. Done + Held + Len(todo) = Len(stream)
        BY <2>1 DEF InOrder
      <4> QED BY <2>2, <4>1, <4>2
    <3>4. \A i \in 1 .. Len(wire) : wire[i] = stream[i]
      BY <2>1, <2>2 DEF InOrder, Continues
    <3>5. wire = stream
      BY <2>2, <3>3, <3>4, SeqEqual
    <3> QED BY <3>2, <3>5
  <2> QED BY <2>1, <2>3 DEF EofIsLast, FlushOK
<1> QED BY <1>1, InvariantHolds, PTL

\* Between the calls of a relay, or of a client of the sink, the queue keeps no
\* more than m_maxBufferSize bytes and those of the put that was refused, however
\* often that one is made again (network.cpp:432-459).
THEOREM TheQueueIsBounded == Spec => []BufferBounded
<1>1. IInv => BufferBounded
  <2> SUFFICES ASSUME IInv, pc = "idle"
               PROVE  Len(m_buffer) <= m_maxBufferSize + Refused
    BY DEF BufferBounded
  <2>1. At = "idle" /\ TypeOK /\ CallOK /\ QueueOK
    BY DEF At, FlushLabel, IInv
  <2>2. Len(m_buffer) <= m_maxBufferSize + m_skipBytes
    BY <2>1 DEF QueueOK, TakenLabel
  <2>3. /\ Len(m_buffer) \in Nat /\ m_maxBufferSize \in Nat /\ m_skipBytes \in Nat
        /\ m_putSize \in Nat /\ call.size \in Nat
    BY <2>1, Counts, Lengths, Types
  <2>4. m_skipBytes <= Refused
    <3>1. CASE m_skipBytes = 0
      BY <2>3, <3>1 DEF Refused
    <3>2. CASE m_skipBytes # 0
      <4>1. \/ ret # 0 /\ m_outputBlocked /\ m_skipBytes <= m_putSize
            \/ ret # 0 /\ call.op = "Put2" /\ m_skipBytes <= call.size
        BY <2>1, <3>2 DEF CallOK, PutLabel, TakenLabel
      <4>2. (m_outputBlocked => driver = "source") /\ (call.op = "Put2" => driver = "client")
        BY <2>1 DEF CallOK
      <4> QED BY <4>1, <4>2 DEF Refused
    <3> QED BY <3>1, <3>2
  <2>5. Refused \in Nat
    BY <2>3 DEF Refused
  <2> QED BY <2>2, <2>3, <2>4, <2>5
<1> QED BY <1>1, InvariantHolds, PTL
=============================================================================
