-------------------------- MODULE UsbIoCalls_proofs --------------------------
(***************************************************************************)
(* UsbIo used directly, for every volume, every set of ranges and any      *)
(* number of clients: its types, what a read hands out under the volume    *)
(* lock, and what the write of a lone client leaves alone. Then two calls  *)
(* by themselves: GetUsbIdentification, for every list of devices and      *)
(* every failure, and getRemovableDevice, for any number of drives.        *)
(***************************************************************************)
EXTENDS UsbIoCalls, CommonLemmas, FiniteSetTheorems

\* A step of client p.
StepOf(p) == Opens(p) \/ Calls(p) \/ readFileForUsb(p) \/ writeFileForUsb(p) \/ Closes(p)

Reading == [kind : {"read", "write"}, req : Requests, data : Block]

-----------------------------------------------------------------------------
(* Types.                                                                  *)

\* The ranges asked for lie on the volume.
LEMMA RequestFacts ==
  ASSUME NEW r \in Requests
  PROVE  /\ r.sector \in Nat /\ r.n \in Nat /\ r.n # 0 /\ Span(r) \in {1, 2}
         /\ \A i \in 0 .. 1 : i < Span(r) => r.sector + i \in SectorNo
<1>1. r \in Request /\ Span(r) <= 2 /\ r.sector + Span(r) - 1 <= LastSector /\ LastSector \in Nat
  BY UsbIoCallsAssumption, UsbIoAssumption
<1>2. r.sector \in Nat /\ r.n \in Nat /\ r.n # 0 /\ r.off \in Nat
  <2>1. r.sector \in Nat /\ r.n \in 1 .. 512 /\ r.off \in 0 .. 511
    BY <1>1 DEF Request
  <2>2. \A x \in 1 .. 512 : x \in Nat /\ x # 0
    OBVIOUS
  <2>3. \A x \in 0 .. 511 : x \in Nat
    OBVIOUS
  <2>4. r.n \in Nat /\ r.n # 0
    BY <2>1, <2>2
  <2>5. r.off \in Nat
    BY <2>1, <2>3
  <2> QED BY <2>1, <2>4, <2>5
<1>3. Span(r) \in Nat /\ Span(r) >= 1
  <2>1. \A x \in Nat : x \div 512 \in Nat
    OBVIOUS
  <2>2. r.n + r.off \in Nat
    <3>1. r.n \in Nat /\ r.off \in Nat
      BY <1>2
    <3> QED BY <3>1
  <2>3. (r.n + r.off) \div 512 \in Nat
    BY <2>1, <2>2
  <2> QED BY <2>3 DEF Span, perSectorSize
<1> QED BY <1>1, <1>2, <1>3 DEF SectorNo

\* The range that ReadFile loads for call c: the one asked for or, for a write,
\* one as long that is on the volume.
Loads(c) == IF c.kind = "read" THEN {c.req} ELSE PreRead(c.req)

LEMMA LoadsFacts ==
  ASSUME NEW c, c.req \in Requests, NEW r \in Loads(c)
  PROVE  /\ Span(r) = Span(c.req)
         /\ \A i \in 0 .. 1 : i < Span(r) => r.sector + i \in SectorNo
         /\ c.kind = "read" \/ ReadWhereWritten(c.req) => r = c.req
<1> DEFINE q == c.req
<1>1. /\ q.from + Span(q) - 1 <= LastSector /\ LastSector \in Nat
      /\ q \in [seek : BOOLEAN, sector : Nat, from : Nat \cup {Unmoved},
                off : 0 .. 511, n : 1 .. 512]
  BY UsbIoCallsAssumption, UsbIoAssumption DEF Request
<1>2. q.from \in Nat \cup {Unmoved} /\ q.sector \in Nat /\ Span(q) \in {1, 2}
  BY <1>1, RequestFacts
<1>3. CASE c.kind = "read"
  BY <1>3, RequestFacts DEF Loads
<1>4. CASE c.kind # "read"
  <2>1. PICK x \in IF q.from = Unmoved THEN 0 .. LastSector + 1 - Span(q) ELSE {q.from} :
           r = [q EXCEPT !.sector = x]
    BY <1>4 DEF Loads, PreRead
  <2>2. /\ r.n = q.n /\ r.off = q.off /\ r.sector = x
        /\ x = q.sector => r = q
    BY <1>1, <2>1
  <2>3. Span(r) = Span(q)
    BY <2>2 DEF Span
  <2>4. ReadWhereWritten(q) => x = q.sector
    BY <1>2, <2>1 DEF ReadWhereWritten, Unmoved
  <2> HIDE DEF q
  <2>5. x \in Nat /\ x + Span(q) - 1 <= LastSector
    BY <1>1, <1>2, <2>1
  <2>6. \A i \in 0 .. 1 : i < Span(q) => x + i \in SectorNo
    BY <1>1, <1>2, <2>5 DEF SectorNo
  <2> QED BY <1>4, <2>2, <2>3, <2>4, <2>6 DEF q
<1> QED BY <1>3, <1>4

\* The values that do not depend on a state.
LEMMA Blanks ==
  /\ ZeroBlock \in Block
  /\ NoBuf \in [0 .. 1 -> Block]
  /\ UninitBlocks \subseteq Block
  /\ NoClient \notin Client
  /\ NoCall.kind = "none" /\ NoAnswer.to = NoClient
  /\ ReadFailed \in Int /\ WriteFailed \in Int
<1>1. ZeroBlock \in Block
  BY ByteSizeAssumption DEF ZeroBlock, Block, Byte
<1> QED BY <1>1, UsbIoAssumption DEF NoBuf, NoCall, NoAnswer, ReadFailed, WriteFailed

\* A client that is in a call has a request.
LEMMA InACall ==
  ASSUME TypeOK, NEW p \in Client, call[p].kind \in {"read", "write"}
  PROVE  /\ call[p] \in Reading /\ call[p].req \in Requests /\ call[p].data \in Block
         /\ call[p] # NoCall
<1>1. call[p] # NoCall
  BY Blanks
<1>2. call[p] \in Reading
  BY <1>1 DEF TypeOK, Reading
<1> QED BY <1>1, <1>2 DEF Reading

\* ReadFile fills the client's own buffer.
LEMMA LoadIsTyped ==
  ASSUME TypeOK, NEW p \in Client, NEW c, c.req \in Requests, NEW r \in Loads(c),
         NEW f, Load(p, r, f)
  PROVE  /\ io' = [io EXCEPT ![p] = "loaded"] /\ io' \in [Client -> {"entry", "loaded"}]
         /\ buf' = [buf EXCEPT ![p] = buf'[p]] /\ buf' \in [Client -> [0 .. 1 -> Block]]
<1>1. /\ disk \in [SectorNo -> Block] /\ io \in [Client -> {"entry", "loaded"}]
      /\ buf \in [Client -> [0 .. 1 -> Block]]
  BY DEF TypeOK, IoTypeOK
<1>2. PICK b \in [0 .. 1 -> Block] : buf' = [buf EXCEPT ![p] = b]
  <2>1. CASE buf' = [buf EXCEPT ![p] =
             [i \in 0 .. 1 |-> IF i < Span(r) THEN disk[r.sector + i] ELSE ZeroBlock]]
    BY <1>1, <2>1, LoadsFacts, Blanks
  <2>2. CASE \E g \in UninitBlocks :
             buf' = [buf EXCEPT ![p] =
               [i \in 0 .. 1 |-> IF i < Span(r) THEN g ELSE ZeroBlock]]
    BY <1>1, <2>2, Blanks
  <2> QED BY <2>1, <2>2 DEF Load
<1> QED BY <1>1, <1>2 DEF Load

\* WriteFile leaves sectors on the volume.
LEMMA StoreIsTyped ==
  ASSUME TypeOK, NEW p \in Client, NEW r \in Requests, NEW d \in Block, Store(p, r, d)
  PROVE  disk' \in [SectorNo -> Block]
<1> DEFINE M == Merged(p, r, d)
<1>1. disk \in [SectorNo -> Block] /\ buf[p] \in [0 .. 1 -> Block]
  BY DEF TypeOK, IoTypeOK
<1>2. ASSUME NEW s \in SectorNo PROVE M[s] \in Block
  <2>1. CASE ~Touches(r, s)
    BY <1>1, <2>1 DEF Merged
  <2>2. CASE Touches(r, s)
    <3>1. s - r.sector \in 0 .. 1
      BY <2>2, RequestFacts, UsbIoAssumption DEF Touches, SectorNo
    <3>2. \A q \in Part : d[q] \in Byte /\ buf[p][s - r.sector][q] \in Byte
      BY <1>1, <3>1 DEF Block
    <3>3. M[s] = [q \in Part |-> IF Covers(r, s, q) THEN d[q] ELSE buf[p][s - r.sector][q]]
      BY <2>2 DEF Merged
    <3> QED BY <3>2, <3>3 DEF Block
  <2> QED BY <2>1, <2>2
<1>3. M = [s \in SectorNo |-> M[s]]
  BY DEF Merged
<1> HIDE DEF M
<1>4. M \in [SectorNo -> Block]
  BY <1>2, <1>3
<1>5. \/ disk' = M \/ disk' = disk
      \/ disk' = [disk EXCEPT ![r.sector] = M[r.sector]]
  BY DEF Store, M
<1>6. r.sector \in SectorNo
  BY RequestFacts, 0 \in 0 .. 1, r.sector + 0 = r.sector
<1> QED BY <1>1, <1>4, <1>5, <1>6

\* What client p has of its own, the others keep.
OwnOnly(p) ==
  /\ io' = [io EXCEPT ![p] = io'[p]] /\ buf' = [buf EXCEPT ![p] = buf'[p]]
  /\ call' = [call EXCEPT ![p] = call'[p]]

\* A read ends without changing the volume; it succeeds only under the lock.
LEMMA ReadEffect ==
  ASSUME TypeOK, NEW p \in Client, NEW r, NEW ret, ReadReturns(p, r, ret)
  PROVE  /\ disk' = disk /\ handle' = handle /\ io' = [io EXCEPT ![p] = "entry"]
         /\ buf' = [buf EXCEPT ![p] = buf'[p]] /\ buf'[p] \in {buf[p], NoBuf}
         /\ locker' \in {locker, NoClient, p}
         /\ locker' # locker => locker \in {NoClient, p}
         /\ locker' = p /\ locker # p => handle[p] = "open"
         /\ ret = ReadFailed \/ (ret = r.n /\ io[p] = "loaded" /\ locker = p)
<1>1. /\ io = [c \in Client |-> io[c]] /\ buf = [c \in Client |-> buf[c]]
  BY DEF TypeOK, IoTypeOK
<1>2. CASE ReadRefused(p, ret)
  BY <1>1, <1>2 DEF ReadRefused, ioVars
<1>3. CASE ReadOutOfMemory(p, r, ret)
  BY <1>1, <1>3 DEF ReadOutOfMemory, CanLock
<1>4. CASE ReadEnds(p, r, ret)
  BY <1>1, <1>4 DEF ReadEnds, Unlocked
<1> QED BY <1>2, <1>3, <1>4 DEF ReadReturns

\* A write ends; it changes the volume only by what it stores.
LEMMA WriteEffect ==
  ASSUME TypeOK, NEW p \in Client, NEW r, NEW d, NEW ret, WriteReturns(p, r, d, ret)
  PROVE  /\ disk' = disk \/ (io[p] = "loaded" /\ Store(p, r, d))
         /\ handle' = handle /\ io' = [io EXCEPT ![p] = "entry"]
         /\ buf' = [buf EXCEPT ![p] = buf'[p]] /\ buf'[p] \in {buf[p], NoBuf}
         /\ locker' \in {locker, Unlocked(p)}
<1>1. /\ io = [c \in Client |-> io[c]] /\ buf = [c \in Client |-> buf[c]]
  BY DEF TypeOK, IoTypeOK
<1>2. CASE WriteOutOfMemory(p, ret)
  BY <1>1, <1>2 DEF WriteOutOfMemory, ioVars
<1>3. CASE WriteEnds(p, r, d, ret)
  BY <1>1, <1>3 DEF WriteEnds
<1> QED BY <1>2, <1>3 DEF WriteReturns

\* The steps of client p, seen from outside.
Begins(p) ==
  /\ call[p].kind \in {"read", "write"}
  /\ io[p] = "entry" /\ disk' = disk /\ handle' = handle
  /\ \E r \in Loads(call[p]) :
       Load(p, r, \/ "read" \in Faults
                  \/ call[p].kind = "read" /\ call[p].req.seek /\ "alloc" \in Faults
                  \/ call[p].kind = "write" /\ call[p].req.from = Unmoved)
  /\ Quietly(p, call[p])
  /\ opened' = opened
  /\ \/ call[p].kind = "read" /\ CanLock(p) /\ locker' = p
     \/ call[p].kind = "write" /\ locker' = locker

Ends(p) ==
  /\ call[p].kind \in {"read", "write"} /\ handle' = handle
  /\ disk' = disk \/ (/\ call[p].kind = "write" /\ io[p] = "loaded"
                      /\ Store(p, call[p].req, call[p].data))
  /\ io' = [io EXCEPT ![p] = "entry"]
  /\ buf' = [buf EXCEPT ![p] = buf'[p]] /\ buf'[p] \in {buf[p], NoBuf}
  /\ locker' \in {locker, NoClient, p}
  /\ locker' # locker => locker \in {NoClient, p}
  /\ locker' = p /\ locker # p => handle[p] = "open"
  /\ \E ret \in Int :
       /\ Return(p, ret)
       /\ call[p].kind = "read" /\ ret # ReadFailed => io[p] = "loaded" /\ locker = p
  /\ opened' = opened

LEMMA OperationsBeginOrEnd ==
  ASSUME TypeOK, NEW p \in Client, readFileForUsb(p) \/ writeFileForUsb(p)
  PROVE  Begins(p) \/ Ends(p)
<1>1. NoClient \notin Client /\ ReadFailed \in Int /\ WriteFailed \in Int
  BY Blanks
<1>2. ASSUME call[p].kind \in {"read", "write"} PROVE call[p].req.n \in Int
  BY <1>2, InACall, RequestFacts
<1>3. CASE readFileForUsb(p)
  <2>1. call[p].kind = "read" /\ opened' = opened
    BY <1>3 DEF readFileForUsb
  <2>2. CASE ReadBegins(p, call[p].req) /\ Quietly(p, call[p])
    BY <2>1, <2>2, Zenon DEF Begins, ReadBegins, Loads, Load
  <2>3. ASSUME NEW ret \in {ReadFailed, call[p].req.n},
               ReadReturns(p, call[p].req, ret), Return(p, ret)
        PROVE  Ends(p)
    <3>1. ret \in Int
      BY <1>1, <1>2, <2>1
    <3>2. ret # ReadFailed => io[p] = "loaded" /\ locker = p
      BY <2>3, ReadEffect
    <3>3. \E x \in Int : /\ Return(p, x)
                         /\ call[p].kind = "read" /\ x # ReadFailed => io[p] = "loaded" /\ locker = p
      BY <2>3, <3>1, <3>2
    <3> QED BY <2>1, <2>3, <3>3, ReadEffect DEF Ends
  <2> QED BY <1>3, <2>2, <2>3 DEF readFileForUsb
<1>4. CASE writeFileForUsb(p)
  <2>1. call[p].kind = "write" /\ opened' = opened
    BY <1>4 DEF writeFileForUsb
  <2>2. CASE WriteBegins(p, call[p].req) /\ Quietly(p, call[p])
    BY <2>1, <2>2, Zenon DEF Begins, WriteBegins, Loads, Load
  <2>3. ASSUME NEW ret \in {WriteFailed, call[p].req.n},
               WriteReturns(p, call[p].req, call[p].data, ret), Return(p, ret)
        PROVE  Ends(p)
    <3>1. ret \in Int
      BY <1>1, <1>2, <2>1
    <3>2. /\ locker' \in {locker, NoClient, p}
          /\ locker' # locker => locker \in {NoClient, p}
          /\ locker' = p /\ locker # p => handle[p] = "open"
      BY <1>1, <2>3, WriteEffect DEF Unlocked
    <3>3. \E x \in Int : /\ Return(p, x)
                         /\ call[p].kind = "read" /\ x # ReadFailed => io[p] = "loaded" /\ locker = p
      BY <2>1, <2>3, <3>1
    <3> QED BY <2>1, <2>3, <3>2, <3>3, WriteEffect DEF Ends
  <2> QED BY <1>4, <2>2, <2>3 DEF writeFileForUsb
<1> QED BY <1>3, <1>4

\* Every step of a client leaves the others alone.
LEMMA StepsAreOwn ==
  ASSUME TypeOK, NEW p \in Client, StepOf(p)
  PROVE  /\ OwnOnly(p)
         /\ handle' = [handle EXCEPT ![p] = handle'[p]]
         /\ locker' \in {locker, NoClient, p}
         /\ locker' # locker => locker \in {NoClient, p}
<1>1. /\ call = [c \in Client |-> call[c]] /\ io = [c \in Client |-> io[c]]
      /\ buf = [c \in Client |-> buf[c]] /\ handle = [c \in Client |-> handle[c]]
  BY DEF TypeOK, IoTypeOK
<1>2. CASE Opens(p)
  BY <1>1, <1>2 DEF Opens, OpenDevice, NoCallInProgress, Quietly, OwnOnly
<1>3. CASE Closes(p)
  BY <1>1, <1>3 DEF Closes, CloseHandle, NoCallInProgress, Quietly, OwnOnly, Unlocked
<1>4. CASE Calls(p)
  BY <1>1, <1>4 DEF Calls, Quietly, OwnOnly, ioVars
<1>5. CASE Begins(p)
  BY <1>1, <1>5, LoadIsTyped, InACall DEF Begins, Quietly, OwnOnly, CanLock
<1>6. CASE Ends(p)
  BY <1>1, <1>6 DEF Ends, Return, OwnOnly
<1> QED BY <1>2, <1>3, <1>4, <1>5, <1>6, OperationsBeginOrEnd DEF StepOf

\* A client that opens or closes has no call in progress.
LEMMA OpenCloseEffect ==
  ASSUME TypeOK, NEW p \in Client, Opens(p) \/ Closes(p)
  PROVE  /\ disk' = disk /\ io'[p] = "entry" /\ buf'[p] = NoBuf /\ call'[p] = NoCall
         /\ answer' = NoAnswer /\ locker' \in {locker, NoClient}
         /\ handle'[p] \in {"none", "open", "invalid"}
         /\ Opens(p) => locker' = locker /\ opened' = opened \cup {p}
         /\ Closes(p) => locker' # p /\ opened' = opened /\ handle'[p] = "none"
<1>1. /\ call = [c \in Client |-> call[c]] /\ io = [c \in Client |-> io[c]]
      /\ buf = [c \in Client |-> buf[c]] /\ handle = [c \in Client |-> handle[c]]
      /\ NoClient \notin Client
  BY Blanks DEF TypeOK, IoTypeOK
<1>2. Opens(p) => handle[p] = "none"
  BY DEF Opens, OpenDevice
<1>3. Closes(p) => handle[p] # "none"
  BY DEF Closes, CloseHandle
<1>4. /\ disk' = disk /\ io'[p] = "entry" /\ buf'[p] = NoBuf /\ call'[p] = NoCall
      /\ answer' = NoAnswer
  BY <1>1 DEF Opens, OpenDevice, Closes, CloseHandle, NoCallInProgress, Quietly
<1>5. CASE Opens(p)
  <2>1. PICK h \in {"open", "invalid"} : handle' = [handle EXCEPT ![p] = h]
    BY <1>5 DEF Opens, OpenDevice
  <2>2. handle'[p] = h
    BY <1>1, <2>1
  <2>3. locker' = locker /\ opened' = opened \cup {p}
    BY <1>5 DEF Opens, OpenDevice
  <2> QED BY <1>2, <1>3, <1>4, <1>5, <2>2, <2>3
<1>6. CASE Closes(p)
  <2>1. handle'[p] = "none" /\ locker' \in {locker, NoClient} /\ locker' # p
    BY <1>1, <1>6 DEF Closes, CloseHandle, Unlocked
  <2>2. opened' = opened
    BY <1>6 DEF Closes
  <2> QED BY <1>2, <1>3, <1>4, <1>6, <2>1, <2>2
<1> QED BY <1>5, <1>6

\* A call begins: only the calls of the client and the answer change.
LEMMA CallsEffect ==
  ASSUME TypeOK, NEW p \in Client, Calls(p)
  PROVE  /\ UNCHANGED <<disk, locker, handle, io, buf, opened>> /\ answer' = NoAnswer
         /\ call[p] = NoCall /\ handle[p] # "none" /\ call'[p] \in Reading
<1>1. call = [c \in Client |-> call[c]] /\ ZeroBlock \in Block /\ Contents \subseteq Block
  BY Blanks, UsbIoCallsAssumption DEF TypeOK
<1>2. PICK r \in Requests :
        \/ Quietly(p, [kind |-> "read", req |-> r, data |-> ZeroBlock])
        \/ \E d \in Contents : Quietly(p, [kind |-> "write", req |-> r, data |-> d])
  BY DEF Calls
<1>3. PICK c \in Reading : Quietly(p, c)
  BY <1>1, <1>2 DEF Reading
<1> QED BY <1>1, <1>3 DEF Calls, Quietly, ioVars

\* Client p is as it should be, and so is what does not belong to a client.
ClientTyped(p) ==
  /\ io[p] \in {"entry", "loaded"} /\ buf[p] \in [0 .. 1 -> Block]
  /\ call[p] \in {NoCall} \cup Reading
  /\ handle[p] \in {"none", "open", "invalid"}
  /\ io[p] = "loaded" => call[p] # NoCall

AnswerTyped ==
  answer \in [call : {NoCall} \cup Reading, to : Client \cup {NoClient}, ret : Int,
              bytes : [0 .. 1 -> Block]]

LEMMA TypedBefore ==
  ASSUME TypeOK
  PROVE  \A p \in Client : ClientTyped(p)
BY DEF TypeOK, IoTypeOK, ClientTyped, Reading

LEMMA NoAnswerTyped ==
  NoAnswer \in [call : {NoCall} \cup Reading, to : Client \cup {NoClient}, ret : Int,
                bytes : [0 .. 1 -> Block]]
BY Blanks DEF NoAnswer

\* The step of a client keeps the types if it keeps its own.
LEMMA TypesAreOwn ==
  ASSUME TypeOK, NEW p \in Client, StepOf(p), ClientTyped(p)',
         disk' \in [SectorNo -> Block], AnswerTyped'
  PROVE  TypeOK'
<1>1. /\ OwnOnly(p) /\ handle' = [handle EXCEPT ![p] = handle'[p]]
      /\ locker' \in Client \cup {NoClient}
  BY StepsAreOwn DEF TypeOK, IoTypeOK
<1>2. /\ io' \in [Client -> {"entry", "loaded"}] /\ buf' \in [Client -> [0 .. 1 -> Block]]
      /\ handle' \in [Client -> {"none", "open", "invalid"}]
      /\ call' \in [Client -> {NoCall} \cup Reading]
  BY <1>1 DEF OwnOnly, ClientTyped, TypeOK, IoTypeOK, Reading
<1>3. \A r \in Client : io'[r] = "loaded" => call'[r] # NoCall
  BY <1>1 DEF OwnOnly, ClientTyped, TypeOK, IoTypeOK
<1> QED BY <1>1, <1>2, <1>3 DEF TypeOK, IoTypeOK, Reading, AnswerTyped

LEMMA TypeStep ==
  ASSUME TypeOK, NEW p \in Client, StepOf(p)
  PROVE  TypeOK'
<1>1. ClientTyped(p) /\ disk \in [SectorNo -> Block] /\ NoBuf \in [0 .. 1 -> Block]
  BY TypedBefore, Blanks DEF TypeOK, IoTypeOK
<1>2. CASE Opens(p) \/ Closes(p)
  BY <1>1, <1>2, OpenCloseEffect, NoAnswerTyped, TypesAreOwn DEF ClientTyped, AnswerTyped
<1>3. CASE Calls(p)
  <2>1. ClientTyped(p)'
    BY <1>1, <1>3, CallsEffect, Blanks DEF ClientTyped, Reading
  <2> QED BY <1>1, <1>3, <2>1, CallsEffect, NoAnswerTyped, TypesAreOwn DEF AnswerTyped
<1>4. CASE Begins(p)
  <2>1. /\ call[p] \in Reading /\ call[p] # NoCall /\ call[p].req \in Requests
    BY <1>4, InACall DEF Begins
  <2>2. /\ io'[p] \in {"entry", "loaded"} /\ buf'[p] \in [0 .. 1 -> Block]
        /\ handle' = handle /\ disk' = disk /\ answer' = NoAnswer
    BY <1>4, <2>1, LoadIsTyped DEF Begins, Quietly
  <2>3. call'[p] = call[p]
    BY <1>4 DEF Begins, Quietly, TypeOK
  <2> QED BY <1>1, <2>1, <2>2, <2>3, NoAnswerTyped, TypesAreOwn DEF ClientTyped, AnswerTyped
<1>5. CASE Ends(p)
  <2>1. /\ call[p] \in Reading /\ call[p].req \in Requests /\ call[p].data \in Block
    BY <1>5, InACall DEF Ends
  <2>2. disk' \in [SectorNo -> Block]
    BY <1>1, <1>5, <2>1, StoreIsTyped DEF Ends
  <2>3. PICK ret \in Int : Return(p, ret)
    BY <1>5 DEF Ends
  <2>4. call'[p] = NoCall /\ io'[p] = "entry"
    BY <1>5, <2>3 DEF Ends, Return, TypeOK, IoTypeOK
  <2>5. AnswerTyped'
    BY <1>1, <2>1, <2>3 DEF Return, AnswerTyped, ClientTyped
  <2>6. ClientTyped(p)'
    BY <1>1, <1>5, <2>4 DEF Ends, ClientTyped
  <2> QED BY <2>2, <2>5, <2>6, TypesAreOwn
<1> QED BY <1>2, <1>3, <1>4, <1>5, OperationsBeginOrEnd DEF StepOf

\* The stick is pulled out, or nothing happens.
LEMMA QuietEffect ==
  ASSUME TypeOK, Pulled \/ UNCHANGED vars
  PROVE  /\ UNCHANGED <<disk, io, buf, call, opened>>
         /\ locker' \in {locker, NoClient}
         /\ \A p \in Client : handle'[p] = "none" <=> handle[p] = "none"
         /\ \A p \in Client : handle'[p] = "open" => handle[p] = "open"
         /\ \A p \in Client : locker' = p => handle'[p] = handle[p]
         /\ handle' \in [Client -> {"none", "open", "invalid"}]
         /\ answer' \in {answer, NoAnswer}
BY Blanks DEF Pulled, Unplug, vars, TypeOK, IoTypeOK

LEMMA TypeNext == TypeOK /\ [Next]_vars => TypeOK'
<1> SUFFICES ASSUME TypeOK, [Next]_vars PROVE TypeOK'
  OBVIOUS
<1>1. CASE \E p \in Client : StepOf(p)
  BY <1>1, TypeStep
<1>2. CASE Pulled \/ UNCHANGED vars
  BY <1>2, QuietEffect, NoAnswerTyped DEF TypeOK, IoTypeOK, Reading
<1> QED BY <1>1, <1>2 DEF Next, StepOf

LEMMA TypeInit == Init => TypeOK
<1> SUFFICES ASSUME Init PROVE TypeOK
  OBVIOUS
<1>1. /\ disk \in [SectorNo -> Block] /\ locker = NoClient /\ answer = NoAnswer
      /\ handle = [p \in Client |-> "none"] /\ io = [p \in Client |-> "entry"]
      /\ buf = [p \in Client |-> NoBuf] /\ call = [p \in Client |-> NoCall]
  BY UsbIoCallsAssumption DEF Init, IoInit
<1>2. IoTypeOK
  BY <1>1, Blanks DEF IoTypeOK
<1> QED BY <1>1, <1>2, NoAnswerTyped DEF TypeOK, Reading

\* Every call asks for sectors that exist and hands out two sectors at most,
\* whatever ranges clients ask for on whatever volume.
THEOREM TypeCorrect == Spec => []TypeOK
BY TypeInit, TypeNext, PTL DEF Spec

-----------------------------------------------------------------------------
(* Reads under the lock.                                                   *)

\* The buffer of client p is what the volume holds.
Current(p) ==
  \A i \in 0 .. 1 :
    i < Span(call[p].req) => buf[p][i] = disk[call[p].req.sector + i]

\* What a client has read under the lock that it holds is what is there.
HolderIsCurrent ==
  \A p \in Client :
    locker = p /\ call[p].kind = "read" /\ io[p] = "loaded" => Current(p)

ReadInv == TypeOK /\ HolderIsCurrent

\* ReadFile, when it works, loads what the volume holds.
LEMMA LoadIsCurrent ==
  ASSUME TypeOK, NEW p \in Client, Begins(p), Reaches(p), "read" \notin Faults,
         call[p].kind = "read" => "alloc" \notin Faults,
         call[p].kind = "write" => ReadWhereWritten(call[p].req)
  PROVE  Current(p)'
<1>0. PICK r \in Loads(call[p]) :
        Load(p, r, \/ "read" \in Faults
                   \/ call[p].kind = "read" /\ call[p].req.seek /\ "alloc" \in Faults
                   \/ call[p].kind = "write" /\ call[p].req.from = Unmoved)
  BY DEF Begins
<1>5. call[p].req \in Requests /\ call[p].kind \in {"read", "write"}
  BY InACall DEF Begins
<1>6. r = call[p].req
  BY <1>5, LoadsFacts
<1>7. call[p].kind = "write" => call[p].req.from # Unmoved
  <2>1. call[p].req.sector \in Nat
    BY <1>5, RequestFacts
  <2> QED BY <2>1 DEF ReadWhereWritten, Unmoved
<1>1. /\ buf' = [buf EXCEPT ![p] =
             [i \in 0 .. 1 |-> IF i < Span(call[p].req) THEN disk[call[p].req.sector + i]
                                                        ELSE ZeroBlock]]
      /\ disk' = disk
  BY <1>0, <1>6, <1>7 DEF Begins, Load
<1>2. call'[p] = call[p] /\ buf = [c \in Client |-> buf[c]]
  BY DEF Begins, Quietly, TypeOK, IoTypeOK
<1>3. ASSUME NEW i \in 0 .. 1, i < Span(call[p].req)
      PROVE  buf'[p][i] = disk[call[p].req.sector + i]
  BY <1>1, <1>2, <1>3
<1>4. call'[p].req = call[p].req /\ Span(call'[p].req) = Span(call[p].req)
  BY <1>2
<1> QED BY <1>1, <1>3, <1>4 DEF Current

\* A buffer stays current while neither it nor the volume changes.
LEMMA CurrentStays ==
  ASSUME NEW p \in Client, Current(p), disk' = disk, buf'[p] = buf[p], call'[p] = call[p]
  PROVE  Current(p)'
BY DEF Current

\* A client holds the lock it takes, so that it does not reach a volume that
\* another one holds.
LEMMA HolderKeepsOthersOut ==
  ASSUME TypeOK, NEW p \in Client, NEW r \in Client, r # p, StepOf(r), locker' = p
  PROVE  /\ locker = p /\ disk' = disk
         /\ io'[p] = io[p] /\ buf'[p] = buf[p] /\ call'[p] = call[p]
<1>1. NoClient \notin Client /\ disk \in [SectorNo -> Block]
      /\ io \in [Client -> {"entry", "loaded"}]
  BY Blanks DEF TypeOK, IoTypeOK
<1>2. locker = p
  BY <1>1, StepsAreOwn
<1>3. io'[p] = io[p] /\ buf'[p] = buf[p] /\ call'[p] = call[p]
  BY StepsAreOwn DEF OwnOnly, TypeOK, IoTypeOK
<1>4. ~Reaches(r)
  BY <1>1, <1>2 DEF Reaches
<1>5. CASE Opens(r) \/ Closes(r)
  BY <1>2, <1>3, <1>5, OpenCloseEffect
<1>6. CASE Calls(r)
  BY <1>2, <1>3, <1>6, CallsEffect
<1>7. CASE Begins(r) \/ Ends(r)
  BY <1>2, <1>3, <1>4, <1>7 DEF Begins, Ends, Store
<1> QED BY <1>5, <1>6, <1>7, OperationsBeginOrEnd DEF StepOf

\* A step after which a client has a buffer in a call is the beginning of it.
LEMMA LoadedBegins ==
  ASSUME TypeOK, NEW p \in Client, StepOf(p), io'[p] = "loaded"
  PROVE  Begins(p)
<1>1. ~Opens(p) /\ ~Closes(p)
  BY OpenCloseEffect
<1>2. ~Calls(p)
  <2>1. Calls(p) => call[p] = NoCall /\ io'[p] = io[p]
    BY CallsEffect
  <2> QED BY <2>1 DEF TypeOK
<1>3. ~Ends(p)
  BY DEF Ends, TypeOK, IoTypeOK
<1> QED BY <1>1, <1>2, <1>3, OperationsBeginOrEnd DEF StepOf

LEMMA ReadStep ==
  ASSUME "read" \notin Faults, "alloc" \notin Faults
  PROVE  ReadInv /\ [Next]_vars => ReadInv'
<1> SUFFICES ASSUME ReadInv, [Next]_vars PROVE ReadInv'
  OBVIOUS
<1>1. TypeOK /\ HolderIsCurrent /\ TypeOK' /\ NoClient \notin Client
  BY TypeNext, Blanks DEF ReadInv
<1> SUFFICES ASSUME NEW p \in Client, locker' = p, call'[p].kind = "read", io'[p] = "loaded"
             PROVE  Current(p)'
  BY <1>1 DEF ReadInv, HolderIsCurrent
<1>2. CASE StepOf(p)
  <2>1. Begins(p)
    BY <1>1, <1>2, LoadedBegins
  <2>2. call'[p] = call[p]
    BY <1>1, <2>1 DEF Begins, Quietly, TypeOK
  <2>3. Reaches(p)
    BY <2>1, <2>2 DEF Begins, CanLock, Reaches
  <2>4. call[p].kind = "read"
    BY <2>2
  <2> QED BY <1>1, <2>1, <2>3, <2>4, LoadIsCurrent
<1>3. ASSUME NEW r \in Client, r # p, StepOf(r) PROVE Current(p)'
  BY <1>1, <1>3, HolderKeepsOthersOut, CurrentStays DEF HolderIsCurrent
<1>4. CASE Pulled \/ UNCHANGED vars
  BY <1>1, <1>4, QuietEffect, CurrentStays DEF HolderIsCurrent
<1> QED BY <1>2, <1>3, <1>4 DEF Next, StepOf

\* A read that succeeds hands out what is on the volume when it returns, for
\* any number of clients that read and write any ranges, unless ReadFile or
\* the allocation of the buffer fails unseen (UsbIo.cpp:52,98,111,167).
THEOREM ReadsAreTrue ==
  ASSUME "read" \notin Faults, "alloc" \notin Faults
  PROVE  Spec => ReadsWhatIsThere
<1> DEFINE Given == \A s \in SectorNo, q \in Part :
       LET c == answer'.call
       IN  answer'.to # NoClient /\ c.kind = "read" /\ answer'.ret = c.req.n
             /\ Asked(c.req, s, q)
           => answer'.bytes[s - c.req.sector][q] = disk[s][q]
<1>1. ASSUME ReadInv, Next PROVE Given
  <2> SUFFICES ASSUME NEW s \in SectorNo, NEW q \in Part,
                      answer'.to # NoClient, answer'.call.kind = "read",
                      answer'.ret = answer'.call.req.n, Touches(answer'.call.req, s)
               PROVE  answer'.bytes[s - answer'.call.req.sector][q] = disk[s][q]
    BY DEF Asked
  <2>1. TypeOK /\ HolderIsCurrent /\ NoAnswer.to = NoClient
    BY <1>1, Blanks DEF ReadInv
  <2>2. PICK p \in Client : StepOf(p)
    BY <1>1, <2>1 DEF Next, StepOf, Pulled
  <2>3. Ends(p)
    BY <2>1, <2>2, OpenCloseEffect, CallsEffect, OperationsBeginOrEnd
       DEF StepOf, Begins, Quietly
  <2>4. PICK ret \in Int :
          /\ Return(p, ret)
          /\ call[p].kind = "read" /\ ret # ReadFailed => io[p] = "loaded" /\ locker = p
    BY <2>3 DEF Ends
  <2>5. answer'.call = call[p] /\ answer'.ret = ret /\ answer'.bytes = buf[p]
    BY <2>4 DEF Return
  <2>6. call[p].kind = "read" /\ call[p].req \in Requests
    BY <2>1, <2>5, InACall
  <2>7. ret # ReadFailed
    <3>1. call[p].req.n \in Nat
      BY <2>6, RequestFacts
    <3>2. ret = call[p].req.n
      BY <2>5
    <3>3. ReadFailed \notin Nat
      BY DEF ReadFailed
    <3> QED BY <3>1, <3>2, <3>3, Zenon
  <2>8. Current(p)
    BY <2>1, <2>4, <2>6, <2>7 DEF HolderIsCurrent
  <2> DEFINE i == s - call[p].req.sector
  <2>9. i \in 0 .. 1 /\ i < Span(call[p].req) /\ call[p].req.sector + i = s
    BY <2>5, <2>6, RequestFacts, UsbIoAssumption DEF Touches, SectorNo
  <2>10. buf[p][i] = disk[s]
    BY <2>8, <2>9 DEF Current
  <2> QED BY <2>5, <2>10
<1>2. ReadInv /\ [Next]_vars => [Given]_vars
  BY <1>1
<1>3. Init => ReadInv
  <2>1. Init => \A p \in Client : io[p] = "entry"
    BY DEF Init, IoInit
  <2> QED BY <2>1, TypeInit DEF ReadInv, HolderIsCurrent
<1>4. ReadInv /\ [Next]_vars => ReadInv'
  BY ReadStep
<1> QED BY <1>2, <1>3, <1>4, PTL DEF Spec, ReadsWhatIsThere

-----------------------------------------------------------------------------
(* The writes of a lone client.                                            *)

\* At most one client has opened the device.
Alone == \A p, r \in opened : p = r

\* Only a client that has opened the device has a handle, a call or the lock.
OpenedFirst ==
  /\ IsFiniteSet(opened)
  /\ \A p \in Client :
       /\ handle[p] # "none" => p \in opened
       /\ call[p] # NoCall => handle[p] # "none"
       /\ locker = p => handle[p] # "none"

\* What a lone client puts back is what the volume holds, if it reads where it
\* writes.
LoneWriterIsCurrent ==
  Alone => \A p \in Client :
    /\ handle[p] = "open" /\ call[p].kind = "write" /\ io[p] = "loaded"
    /\ ReadWhereWritten(call[p].req)
    => Current(p)

WriteInv == TypeOK /\ OpenedFirst /\ LoneWriterIsCurrent

LEMMA AloneByNumber ==
  ASSUME IsFiniteSet(opened), Cardinality(opened) <= 1
  PROVE  Alone
<1> SUFFICES ASSUME NEW p \in opened, NEW r \in opened PROVE p = r
  BY DEF Alone
<1>1. Cardinality(opened) \in Nat
  BY FS_CardinalityType
<1>2. Cardinality(opened) # 0
  BY FS_EmptySet
<1>3. Cardinality(opened) = 1
  BY <1>1, <1>2
<1>4. PICK x : opened = {x}
  BY <1>3, FS_Singleton
<1> QED BY <1>4

\* The handle of a client stays as it is through a call, and no step takes a
\* client out of opened.
LEMMA HandleEffect ==
  ASSUME TypeOK, NEW p \in Client, StepOf(p)
  PROVE  /\ opened' \in {opened, opened \cup {p}}
         /\ handle'[p] # "none" => handle[p] # "none" \/ p \in opened'
         /\ call'[p] # NoCall => handle' = handle /\ (call[p] # NoCall \/ handle[p] # "none")
         /\ locker' = p => handle'[p] # "none" \/ (locker = p /\ handle' = handle)
         /\ disk' # disk => Ends(p) /\ call[p] # NoCall /\ io[p] = "loaded"
<1>1. NoClient # p /\ handle = [r \in Client |-> handle[r]]
      /\ call = [r \in Client |-> call[r]] /\ NoCall.kind = "none"
  BY Blanks DEF TypeOK, IoTypeOK
<1>2. CASE Opens(p)
  <2>1. locker' = p => handle'[p] # "none"
    <3>1. PICK h \in {"open", "invalid"} : handle' = [handle EXCEPT ![p] = h]
      BY <1>2 DEF Opens, OpenDevice
    <3> QED BY <1>1, <3>1
  <2> QED BY <1>2, <2>1, OpenCloseEffect
<1>3. CASE Closes(p)
  BY <1>3, OpenCloseEffect
<1>4. CASE Calls(p)
  BY <1>4, CallsEffect
<1>5. CASE Begins(p)
  <2>1. call[p] # NoCall /\ disk' = disk /\ handle' = handle /\ opened' = opened
    BY <1>1, <1>5 DEF Begins
  <2>2. locker' = p => handle[p] # "none" \/ locker = p
    BY <1>5 DEF Begins, CanLock
  <2> QED BY <2>1, <2>2
<1>6. CASE Ends(p)
  <2>1. /\ call[p] # NoCall /\ handle' = handle /\ opened' = opened
        /\ disk' = disk \/ io[p] = "loaded"
        /\ locker' = p => handle[p] # "none" \/ locker = p
    BY <1>1, <1>6 DEF Ends
  <2>2. call'[p] = NoCall
    BY <1>1, <1>6 DEF Ends, Return
  <2> QED BY <1>6, <2>1, <2>2
<1> QED BY <1>2, <1>3, <1>4, <1>5, <1>6, OperationsBeginOrEnd DEF StepOf

LEMMA OpenedFirstStep ==
  ASSUME TypeOK, OpenedFirst, [Next]_vars
  PROVE  OpenedFirst' /\ opened \subseteq opened'
<1>1. ASSUME NEW p \in Client, StepOf(p)
      PROVE  OpenedFirst' /\ opened \subseteq opened'
  <2>1. IsFiniteSet(opened') /\ opened \subseteq opened'
    <3>1. IsFiniteSet(opened) /\ IsFiniteSet(opened \cup {p})
      BY FS_AddElement DEF OpenedFirst
    <3> QED BY <1>1, <3>1, HandleEffect
  <2>2. ASSUME NEW r \in Client, r # p
        PROVE  /\ handle'[r] # "none" => r \in opened'
               /\ call'[r] # NoCall => handle'[r] # "none"
               /\ locker' = r => handle'[r] # "none"
    <3>1. handle'[r] = handle[r] /\ call'[r] = call[r]
      BY <1>1, <2>2, StepsAreOwn DEF OwnOnly, TypeOK, IoTypeOK
    <3>2. locker' = r => locker = r
      BY <1>1, <2>2, StepsAreOwn, Blanks
    <3> QED BY <2>1, <3>1, <3>2 DEF OpenedFirst
  <2>3. /\ handle'[p] # "none" => p \in opened'
        /\ call'[p] # NoCall => handle'[p] # "none"
        /\ locker' = p => handle'[p] # "none"
    BY <1>1, <2>1, HandleEffect DEF OpenedFirst
  <2> QED BY <2>1, <2>2, <2>3 DEF OpenedFirst
<1>2. CASE Pulled \/ UNCHANGED vars
  <2>1. \A p \in Client : locker' = p => locker = p
    BY <1>2, QuietEffect, Blanks
  <2> QED BY <1>2, <2>1, QuietEffect DEF OpenedFirst
<1> QED BY <1>1, <1>2 DEF Next, StepOf

\* Nobody but a lone client has the volume locked or changes it.
LEMMA AloneFacts ==
  ASSUME TypeOK, OpenedFirst, Alone, NEW p \in Client, handle[p] = "open"
  PROVE  /\ Reaches(p)
         /\ \A r \in Client : r # p /\ StepOf(r) => disk' = disk
<1>1. p \in opened
  BY DEF OpenedFirst
<1>2. locker \in {NoClient, p}
  BY <1>1 DEF OpenedFirst, Alone, TypeOK, IoTypeOK
<1>3. ASSUME NEW r \in Client, r # p, StepOf(r) PROVE disk' = disk
  <2>1. r \notin opened
    BY <1>1, <1>3 DEF Alone
  <2>2. call[r] = NoCall
    BY <2>1 DEF OpenedFirst
  <2> QED BY <1>3, <2>2, HandleEffect
<1> QED BY <1>2, <1>3 DEF Reaches

LEMMA WriteStep ==
  ASSUME "read" \notin Faults
  PROVE  WriteInv /\ [Next]_vars => WriteInv'
<1> SUFFICES ASSUME WriteInv, [Next]_vars PROVE WriteInv'
  OBVIOUS
<1>1. TypeOK /\ OpenedFirst /\ LoneWriterIsCurrent /\ TypeOK' /\ OpenedFirst'
      /\ opened \subseteq opened'
  BY TypeNext, OpenedFirstStep DEF WriteInv
<1> SUFFICES ASSUME Alone', NEW p \in Client,
                    handle'[p] = "open", call'[p].kind = "write", io'[p] = "loaded",
                    ReadWhereWritten(call'[p].req)
             PROVE  Current(p)'
  BY <1>1 DEF WriteInv, LoneWriterIsCurrent
<1>2. Alone
  BY <1>1 DEF Alone
<1>3. CASE StepOf(p)
  <2>1. Begins(p)
    BY <1>1, <1>3, LoadedBegins
  <2>2. call'[p] = call[p] /\ handle' = handle
    BY <1>1, <2>1 DEF Begins, Quietly, TypeOK
  <2>3. Reaches(p)
    BY <1>1, <1>2, <2>2, AloneFacts
  <2> QED BY <1>1, <2>1, <2>2, <2>3, LoadIsCurrent
<1>4. ASSUME NEW r \in Client, r # p, StepOf(r) PROVE Current(p)'
  <2>1. io'[p] = io[p] /\ buf'[p] = buf[p] /\ call'[p] = call[p] /\ handle'[p] = handle[p]
    BY <1>1, <1>4, StepsAreOwn DEF OwnOnly, TypeOK, IoTypeOK
  <2>2. disk' = disk
    BY <1>1, <1>2, <1>4, <2>1, AloneFacts
  <2> QED BY <1>1, <1>2, <2>1, <2>2, CurrentStays DEF LoneWriterIsCurrent
<1>5. CASE Pulled \/ UNCHANGED vars
  BY <1>1, <1>2, <1>5, QuietEffect, CurrentStays DEF LoneWriterIsCurrent
<1> QED BY <1>3, <1>4, <1>5 DEF Next, StepOf

\* What a lone client writes differs from what was there in the bytes it was
\* asked for.
LEMMA StoresItsBytes ==
  ASSUME TypeOK, NEW p \in Client, Current(p), call[p].req \in Requests,
         Store(p, call[p].req, call[p].data),
         NEW s \in SectorNo, NEW q \in Part, disk'[s][q] # disk[s][q]
  PROVE  Asked(call[p].req, s, q)
<1> DEFINE r == call[p].req
           M == Merged(p, r, call[p].data)
<1>1. disk \in [SectorNo -> Block]
  BY DEF TypeOK, IoTypeOK
<1>2. \/ disk' = M \/ disk' = disk
      \/ disk' = [disk EXCEPT ![r.sector] = M[r.sector]]
  BY DEF Store
<1> HIDE DEF M
<1>3. disk'[s] = M[s]
  BY <1>1, <1>2
<1>4. Touches(r, s)
  BY <1>3 DEF M, Merged
<1>5. s - r.sector \in 0 .. 1 /\ s - r.sector < Span(r) /\ r.sector + (s - r.sector) = s
  BY <1>4, RequestFacts, UsbIoAssumption DEF Touches, SectorNo
<1>6. buf[p][s - r.sector] = disk[s]
  BY <1>5 DEF Current
<1>7. M[s] = [x \in Part |-> IF Covers(r, s, x) THEN call[p].data[x]
                                                ELSE buf[p][s - r.sector][x]]
  BY <1>4 DEF M, Merged
<1>8. Covers(r, s, q)
  BY <1>3, <1>6, <1>7
<1> QED BY <1>4, <1>8 DEF Asked

\* While one client only has used the device, a write that reads where it writes
\* keeps to the bytes asked for, whatever else fails but ReadFile: the rest of
\* the sectors that WriteFile gets is put back as it was read (UsbIo.cpp:184,224).
\* A write counted from the end, or behind 2 GB, is no such write (UsbIo.cpp:196,221).
THEOREM LoneWritesKeepToTheirBytes ==
  ASSUME "read" \notin Faults
  PROVE  Spec => AloneWritesOnlyItsBytes
<1> DEFINE Kept == \A s \in SectorNo, q \in Part :
       /\ disk'[s][q] # disk[s][q] /\ Cardinality(opened) <= 1
       /\ \A p \in Client : call[p].kind = "write" => ReadWhereWritten(call[p].req)
       => \E p \in Client : call[p].kind = "write" /\ Asked(call[p].req, s, q)
<1>1. ASSUME WriteInv, Next PROVE Kept
  <2> SUFFICES ASSUME NEW s \in SectorNo, NEW q \in Part, disk'[s][q] # disk[s][q],
                      Cardinality(opened) <= 1,
                      \A p \in Client : call[p].kind = "write" => ReadWhereWritten(call[p].req)
               PROVE  \E p \in Client : call[p].kind = "write" /\ Asked(call[p].req, s, q)
    OBVIOUS
  <2>1. TypeOK /\ OpenedFirst /\ LoneWriterIsCurrent /\ Alone
    BY <1>1, AloneByNumber DEF WriteInv, OpenedFirst
  <2>2. PICK p \in Client : StepOf(p)
    BY <1>1, <2>1, QuietEffect DEF Next, StepOf
  <2>3. /\ Ends(p) /\ call[p].kind = "write" /\ io[p] = "loaded"
        /\ Store(p, call[p].req, call[p].data)
    <3>1. disk' # disk /\ Ends(p)
      BY <2>1, <2>2, HandleEffect
    <3> QED BY <3>1 DEF Ends
  <2>4. call[p].req \in Requests
    BY <2>1, <2>3, InACall
  <2>5. handle[p] = "open"
    BY <2>3 DEF Store, Reaches
  <2>6. Current(p)
    BY <2>1, <2>3, <2>5 DEF LoneWriterIsCurrent
  <2> QED BY <2>1, <2>3, <2>4, <2>6, StoresItsBytes
<1>2. WriteInv /\ [Next]_vars => [Kept]_vars
  BY <1>1
<1>3. Init => WriteInv
  <2> SUFFICES ASSUME Init PROVE WriteInv
    OBVIOUS
  <2>1. /\ opened = {} /\ locker = NoClient /\ NoClient \notin Client
        /\ \A p \in Client : io[p] = "entry" /\ handle[p] = "none" /\ call[p] = NoCall
    BY Blanks DEF Init, IoInit
  <2> QED BY <2>1, TypeInit, FS_EmptySet DEF WriteInv, OpenedFirst, LoneWriterIsCurrent
<1>4. WriteInv /\ [Next]_vars => WriteInv'
  BY WriteStep
<1> QED BY <1>2, <1>3, <1>4, PTL DEF Spec, AloneWritesOnlyItsBytes

-----------------------------------------------------------------------------
(* GetUsbIdentification on any drive, with any list of devices of any      *)
(* length and any failures: it walks inside the list, gives back what it   *)
(* takes, and hands out nothing but the identification of the drive's own  *)
(* device.                                                                 *)

CONSTANTS Worlds, NoPID
VARIABLES world, at, nDevIndex, held, lpPID, result

Id == INSTANCE GetUsbIdentification

\* The walk is at a device of the list when it asks for the device's details.
WalksInside == at \in {"size", "detail"} => nDevIndex < Len(world.devices)

\* What the call has taken and not given back, at each call of Windows.
Accounts ==
  /\ at \in {"type", "open", "returned"} => held = {}
  /\ at = "query"   => held = {"hKey"}
  /\ at = "requery" => held = {"hKey", "lpRegBinData", "lpUSBKeyData"}
  /\ at = "list"    => held = {"lpUSBKeyData"}
  /\ at \in {"enum", "size"} => held = {"lpUSBKeyData", "hUSB"}
  /\ at = "detail"  => held = {"lpUSBKeyData", "hUSB", "lpDevIntDetailData"}

\* The call compares only when it has a serial number of the drive to compare.
HasSerial == at \in {"list", "enum", "size", "detail"} => world.drive # <<>>

\* The inductive invariant.
SearchInv ==
  /\ Id!TypeOK
  /\ WalksInside
  /\ Accounts
  /\ HasSerial
  /\ Id!OnlyTheDrivesDevice

\* The list of devices is finite and no device is identified by NoPID.
LEMMA WorldFacts ==
  ASSUME Id!GetUsbIdentificationAssumption, Id!TypeOK
  PROVE  /\ Len(world.devices) \in Nat
         /\ \A i \in 1 .. Len(world.devices) : world.devices[i].pid # NoPID
         /\ nDevIndex \in Nat /\ nDevIndex <= Len(world.devices)
<1>1. world \in Worlds /\ nDevIndex \in 0 .. Len(world.devices)
  BY DEF Id!TypeOK
<1>2. /\ world.devices \in Seq([id : Seq(STRING), pid : STRING])
      /\ \A i \in 1 .. Len(world.devices) : world.devices[i].pid # NoPID
  BY <1>1 DEF Id!GetUsbIdentificationAssumption
<1>3. Len(world.devices) \in Nat
  BY <1>2
<1> QED BY <1>1, <1>2, <1>3

\* Until the drive's device is found, the caller's buffer is left alone.
LEMMA StillNothing ==
  ASSUME Id!OnlyTheDrivesDevice, at # "returned", lpPID' = lpPID
  PROVE  Id!OnlyTheDrivesDevice' /\ lpPID' = NoPID
BY DEF Id!OnlyTheDrivesDevice

\* A step that finds nothing keeps the invariant if it goes where its resources
\* and its place in the list allow.
LEMMA SearchStays ==
  ASSUME SearchInv, at \notin Id!Exit, world' = world, lpPID' = lpPID,
         nDevIndex' \in 0 .. Len(world.devices), result' \in BOOLEAN,
         held' \subseteq Id!Resource, Accounts',
         at' \in {"type", "open", "query", "requery", "list", "enum", "size", "detail"}
                   \cup Id!Exit,
         WalksInside', HasSerial'
  PROVE  SearchInv'
<1>1. Id!OnlyTheDrivesDevice'
  BY StillNothing DEF SearchInv, Id!Exit
<1> QED BY <1>1 DEF SearchInv, Id!TypeOK

\* The calls up to the list of devices (GetUsbIdentification.cpp:24-111).
LEMMA LookUpKeepsInv ==
  ASSUME Id!GetUsbIdentificationAssumption, SearchInv,
         Id!DriveType \/ Id!OpenKey \/ Id!QuerySize \/ Id!QueryValue \/ Id!GetClassDevs
  PROVE  SearchInv'
<1>1. Id!TypeOK /\ Accounts
  BY DEF SearchInv
<1>2. /\ world' = world /\ lpPID' = lpPID /\ nDevIndex' = nDevIndex /\ at \notin Id!Exit
      /\ result' \in BOOLEAN /\ at' \in {"open", "query", "requery", "list", "enum"} \cup Id!Exit
  BY <1>1 DEF Id!DriveType, Id!OpenKey, Id!QuerySize, Id!QueryValue, Id!GetClassDevs,
              Id!Goto, Id!Return, Id!Throws, Id!GivesUp, Id!Exit, Id!TypeOK
<1>3. Accounts' /\ held' \subseteq Id!Resource
  <2>1. CASE Id!DriveType
    BY <1>1, <2>1 DEF Id!DriveType, Id!Goto, Id!Return, Accounts
  <2>2. CASE Id!OpenKey
    BY <1>1, <2>2 DEF Id!OpenKey, Id!Goto, Id!Return, Id!GivesUp, Accounts, Id!Resource
  <2>3. CASE Id!QuerySize
    BY <1>1, <2>3 DEF Id!QuerySize, Id!Goto, Id!Return, Id!GivesUp, Id!Throws, Accounts, Id!Resource
  <2>4. CASE Id!QueryValue
    BY <1>1, <2>4 DEF Id!QueryValue, Id!Goto, Id!Return, Id!GivesUp, Accounts, Id!Resource
  <2>5. CASE Id!GetClassDevs
    BY <1>1, <2>5 DEF Id!GetClassDevs, Id!Goto, Id!Return, Id!GivesUp, Accounts, Id!Resource
  <2>6. Id!DriveType => held' \subseteq Id!Resource
    BY <1>1 DEF Id!DriveType, Id!TypeOK
  <2> QED BY <2>1, <2>2, <2>3, <2>4, <2>5, <2>6
<1>4. HasSerial'
  BY DEF Id!DriveType, Id!OpenKey, Id!QuerySize, Id!QueryValue, Id!GetClassDevs,
         Id!Goto, Id!Return, Id!Throws, Id!GivesUp, SearchInv, HasSerial
<1>5. WalksInside'
  BY <1>2 DEF WalksInside, Id!Exit
<1> QED BY <1>1, <1>2, <1>3, <1>4, <1>5, SearchStays DEF Id!TypeOK

\* The walk through the devices (GetUsbIdentification.cpp:116-168).
LEMMA WalkKeepsInv ==
  ASSUME Id!GetUsbIdentificationAssumption, SearchInv,
         Id!EnumDeviceInterfaces \/ Id!DetailSize \/ Id!Detail
  PROVE  SearchInv'
<1>1. Id!TypeOK /\ Accounts /\ WalksInside /\ HasSerial /\ Id!OnlyTheDrivesDevice
  BY DEF SearchInv
<1>2. /\ world' = world /\ result' \in BOOLEAN /\ at \notin Id!Exit
      /\ at' \in {"enum", "size", "detail"} \cup Id!Exit
  BY <1>1 DEF Id!EnumDeviceInterfaces, Id!DetailSize, Id!Detail,
              Id!Goto, Id!Return, Id!Throws, Id!Exit, Id!TypeOK
<1>3. HasSerial'
  BY <1>1, <1>2 DEF HasSerial, Id!EnumDeviceInterfaces, Id!DetailSize, Id!Detail
<1>4. Accounts' /\ held' \subseteq Id!Resource
  <2>1. CASE Id!EnumDeviceInterfaces
    BY <1>1, <2>1 DEF Id!EnumDeviceInterfaces, Id!Goto, Id!Return, Accounts, Id!Resource
  <2>2. CASE Id!DetailSize
    BY <1>1, <2>2 DEF Id!DetailSize, Id!Goto, Accounts, Id!Resource
  <2>3. CASE Id!Detail
    BY <1>1, <2>3 DEF Id!Detail, Id!FreedWhenFound, Id!Goto, Id!Return, Id!Throws, Accounts, Id!Resource
  <2> QED BY <2>1, <2>2, <2>3
<1>5. nDevIndex' \in 0 .. Len(world.devices) /\ WalksInside'
  <2>1. CASE Id!EnumDeviceInterfaces
    BY <1>1, <2>1, WorldFacts DEF Id!EnumDeviceInterfaces, Id!Goto, Id!Return, WalksInside
  <2>2. CASE Id!DetailSize
    BY <1>1, <2>2, WorldFacts DEF Id!DetailSize, Id!Goto, WalksInside
  <2>3. CASE Id!Detail
    <3>1. nDevIndex < Len(world.devices)
      BY <1>1, <2>3 DEF Id!Detail, WalksInside
    <3>2. nDevIndex' \in {nDevIndex, nDevIndex + 1} /\ at' \in {"enum"} \cup Id!Exit
      BY <2>3 DEF Id!Detail, Id!NextIndex, Id!Goto, Id!Return, Id!Throws, Id!Exit
    <3> QED BY <1>1, <3>1, <3>2, WorldFacts DEF WalksInside, Id!Exit
  <2> QED BY <2>1, <2>2, <2>3
<1>6. CASE lpPID' = lpPID
  BY <1>1, <1>2, <1>3, <1>4, <1>5, <1>6, SearchStays
<1>7. CASE lpPID' # lpPID
  <2>1. /\ Id!SameSerial /\ lpPID' = Id!Device.pid /\ Id!Return(TRUE) /\ at = "detail"
    BY <1>7 DEF Id!EnumDeviceInterfaces, Id!DetailSize, Id!Detail, Id!Goto, Id!Throws
  <2>2. nDevIndex + 1 \in 1 .. Len(world.devices)
    BY <1>1, <2>1, WorldFacts DEF WalksInside
  <2>3. world.devices[nDevIndex + 1].pid = lpPID'
    BY <2>1 DEF Id!Device
  <2>4. world.drive # <<>> /\ world.devices[nDevIndex + 1].id = <<world.drive[1]>>
    BY <1>1, <2>1 DEF HasSerial, Id!SameSerial, Id!Device
  <2>5. at' = "returned" /\ result' = TRUE /\ world' = world
    BY <2>1 DEF Id!Return
  <2>6. \E i \in 1 .. Len(world.devices) :
          /\ world.devices[i].pid = lpPID'
          /\ world.drive # <<>> /\ world.devices[i].id = <<world.drive[1]>>
    BY <2>2, <2>3, <2>4
  <2>7. Id!OnlyTheDrivesDevice'
    BY <2>5, <2>6 DEF Id!OnlyTheDrivesDevice, Id!IsTheDrives
  <2>8. Id!TypeOK'
    BY <1>1, <1>2, <1>4, <1>5, <2>5, <2>6 DEF Id!TypeOK, Id!Exit
  <2> QED BY <1>3, <1>4, <1>5, <2>7, <2>8 DEF SearchInv
<1> QED BY <1>6, <1>7

LEMMA SearchStarts ==
  ASSUME Id!GetUsbIdentificationAssumption, Id!Init
  PROVE  SearchInv
<1>1. /\ world \in Worlds /\ at = "type" /\ nDevIndex = 0 /\ held = {} /\ lpPID = NoPID
      /\ result = FALSE
  BY DEF Id!Init
<1>2. Len(world.devices) \in Nat
  BY <1>1 DEF Id!GetUsbIdentificationAssumption
<1>3. Id!TypeOK
  <2>1. nDevIndex \in 0 .. Len(world.devices)
    BY <1>1, <1>2
  <2>2. result \in BOOLEAN
    BY <1>1, Zenon
  <2>3. held \subseteq Id!Resource
    BY <1>1
  <2> QED BY <1>1, <2>1, <2>2, <2>3 DEF Id!TypeOK
<1> QED BY <1>1, <1>3 DEF SearchInv, WalksInside, Accounts, HasSerial, Id!OnlyTheDrivesDevice

LEMMA SearchGoesOn ==
  ASSUME Id!GetUsbIdentificationAssumption
  PROVE  SearchInv /\ [Id!Next]_(Id!vars) => SearchInv'
<1>1. ASSUME SearchInv, Id!Step PROVE SearchInv'
  BY <1>1, LookUpKeepsInv, WalkKeepsInv DEF Id!Step
<1>2. ASSUME SearchInv, UNCHANGED Id!vars PROVE SearchInv'
  BY <1>2 DEF Id!vars, SearchInv, Id!TypeOK, WalksInside, Accounts, HasSerial,
              Id!OnlyTheDrivesDevice, Id!IsTheDrives
<1> QED BY <1>1, <1>2 DEF Id!Next

\* The call keeps to the list of devices, whatever it finds and whatever fails.
THEOREM SearchInvHolds ==
  ASSUME Id!GetUsbIdentificationAssumption
  PROVE  Id!Spec => []SearchInv
<1>1. Id!Init => SearchInv
  BY SearchStarts
<1>2. SearchInv /\ [Id!Next]_(Id!vars) => SearchInv'
  BY SearchGoesOn
<1> QED BY <1>1, <1>2, PTL DEF Id!Spec

\* Every path on which the call returns gives back the registry key, the list
\* and the buffers it took (GetUsbIdentification.cpp:53,69-71,76,87,106,154-168).
THEOREM NothingIsLeaked ==
  ASSUME Id!GetUsbIdentificationAssumption
  PROVE  Id!Spec => []Id!NothingLeaks
<1>1. SearchInv => Id!NothingLeaks
  BY DEF SearchInv, Accounts, Id!NothingLeaks
<1> QED BY <1>1, SearchInvHolds, PTL

\* The identification handed out is that of a device with the drive's own
\* serial number (GetUsbIdentification.cpp:149-156).
THEOREM TheDeviceIsTheDrives ==
  ASSUME Id!GetUsbIdentificationAssumption
  PROVE  Id!Spec => []Id!OnlyTheDrivesDevice
<1>1. SearchInv => Id!OnlyTheDrivesDevice
  BY DEF SearchInv
<1> QED BY <1>1, SearchInvHolds, PTL

-----------------------------------------------------------------------------
(* UsbIo::getRemovableDevice.                                              *)

CONSTANT Drives
VARIABLES present, removable, letter, deviceName, done

Dr == INSTANCE getRemovableDevice WITH i <- letter

\* A bit of the mask is twice the one before it.
LEMMA BitIs ==
  /\ Dr!Bit \in [Nat -> Nat] /\ Dr!Bit[0] = 1
  /\ \A k \in Nat : Dr!Bit[k + 1] = 2 * Dr!Bit[k]
<1> DEFINE g == [p \in Nat \X Nat |-> 2 * p[2]]
           Doubles(f) == f = [k \in Nat |-> IF k = 0 THEN 1 ELSE 2 * f[k - 1]]
<1>1. PICK f \in [Nat -> Nat] : f[0] = 1 /\ \A n \in Nat : f[n + 1] = g[<<n, f[n]>>]
  <2> DEFINE S == Nat
             a == 1
  <2>1. Defines(S, a, g)
    BY DEF Defines
  <2> HIDE DEF g, S, a
  <2>2. \E f : DefinedBy(f, S, a, g)
    BY <2>1, Recursion
  <2> QED BY <2>2 DEF S, a, DefinedBy
<1>2. \A n \in Nat : f[n + 1] = 2 * f[n]
  BY <1>1
<1>3. Doubles(f)
  <2>1. ASSUME NEW k \in Nat PROVE f[k] = IF k = 0 THEN 1 ELSE 2 * f[k - 1]
    <3>1. CASE k = 0
      BY <3>1, <1>1
    <3>2. CASE k # 0
      <4>1. k - 1 \in Nat /\ (k - 1) + 1 = k
        BY <3>2
      <4> QED BY <3>2, <4>1, <1>2
    <3> QED BY <3>1, <3>2
  <2> QED BY <2>1
<1>4. Dr!Bit = CHOOSE h : Doubles(h)
  BY DEF Dr!Bit
<1>5. Doubles(Dr!Bit)
  <2> HIDE DEF Doubles
  <2> QED BY <1>3, <1>4, Zenon
<1> DEFINE b == Dr!Bit
<1>6. b = [k \in Nat |-> IF k = 0 THEN 1 ELSE 2 * b[k - 1]]
  BY <1>5
<1>7. b[0] = 1 /\ \A k \in Nat : b[k + 1] = 2 * b[k]
  <2> HIDE DEF b
  <2>1. b[0] = 1
    BY <1>6
  <2>2. ASSUME NEW k \in Nat PROVE b[k + 1] = 2 * b[k]
    <3>1. k + 1 \in Nat /\ k + 1 # 0 /\ (k + 1) - 1 = k
      OBVIOUS
    <3> QED BY <3>1, <1>6
  <2> QED BY <2>1, <2>2
<1>8. \A k \in Nat : b[k] \in Nat
  <2> HIDE DEF b
  <2> DEFINE T == {k \in Nat : b[k] \in Nat}
  <2>1. 0 \in T /\ \A k \in Nat : k \in T => k + 1 \in T
    BY <1>7
  <2> HIDE DEF T
  <2>2. Nat \subseteq T
    BY <2>1, AllNaturals
  <2> QED BY <2>2 DEF T
<1>9. b \in [Nat -> Nat]
  <2> HIDE DEF b
  <2> QED BY <1>6, <1>8
<1> QED BY <1>7, <1>9

\* What f makes of the first drives in the set p, one by one.
SumsOf(f, p) ==
  f = [k \in Nat |-> IF k = 0 THEN 0 ELSE f[k - 1] + (IF k - 1 \in p THEN Dr!Bit[k - 1] ELSE 0)]

LEMMA MaskIs ==
  \E f : /\ f \in [Nat -> Nat] /\ f[0] = 0
         /\ \A k \in Nat : f[k + 1] = f[k] + (IF k \in present THEN Dr!Bit[k] ELSE 0)
         /\ Dr!Mask = f[Drives]
<1> DEFINE b == Dr!Bit
           w == [k \in Nat |-> IF k \in present THEN b[k] ELSE 0]
           g == [p \in Nat \X Nat |-> p[2] + w[p[1]]]
<1>1. b \in [Nat -> Nat]
  BY BitIs
<1> HIDE DEF b
<1>2. w \in [Nat -> Nat]
  BY <1>1
<1>3. PICK f \in [Nat -> Nat] : f[0] = 0 /\ \A n \in Nat : f[n + 1] = g[<<n, f[n]>>]
  <2> DEFINE S == Nat
             a == 0
  <2>1. Defines(S, a, g)
    <3> HIDE DEF w
    <3>1. \A p \in Nat \X Nat : p[1] \in Nat /\ p[2] \in Nat
      OBVIOUS
    <3>2. \A p \in Nat \X Nat : p[2] + w[p[1]] \in Nat
      BY <1>2, <3>1
    <3> QED BY <3>2 DEF Defines
  <2> HIDE DEF g, S, a
  <2>2. \E f : DefinedBy(f, S, a, g)
    BY <2>1, Recursion
  <2> QED BY <2>2 DEF S, a, DefinedBy
<1>4. \A n \in Nat : f[n + 1] = f[n] + w[n]
  <2>1. \A n \in Nat : <<n, f[n]>> \in Nat \X Nat
    BY <1>3
  <2> HIDE DEF w
  <2>2. \A n \in Nat : g[<<n, f[n]>>] = f[n] + w[n]
    BY <2>1
  <2> HIDE DEF g
  <2> QED BY <1>3, <2>2
<1>5. SumsOf(f, present)
  <2>1. ASSUME NEW k \in Nat
        PROVE  f[k] = IF k = 0 THEN 0 ELSE f[k - 1] + (IF k - 1 \in present THEN b[k - 1] ELSE 0)
    <3>1. CASE k = 0
      BY <3>1, <1>3
    <3>2. CASE k # 0
      <4>1. k - 1 \in Nat /\ (k - 1) + 1 = k
        BY <3>2
      <4>2. f[(k - 1) + 1] = f[k - 1] + w[k - 1]
        BY <4>1, <1>4
      <4>3. w[k - 1] = IF k - 1 \in present THEN b[k - 1] ELSE 0
        BY <4>1
      <4> HIDE DEF w
      <4> QED BY <3>2, <4>1, <4>2, <4>3
    <3> QED BY <3>1, <3>2
  <2> QED BY <2>1, <1>3 DEF SumsOf, b
<1> DEFINE m == CHOOSE h : SumsOf(h, present)
<1>6. SumsOf(m, present)
  BY <1>5, Zenon
<1>7. Dr!Mask = m[Drives]
  BY Zenon DEF Dr!Mask, SumsOf
<1> HIDE DEF m
<1>8. m[0] = 0 /\ \A k \in Nat : m[k + 1] = m[k] + w[k]
  <2>1. m[0] = 0
    BY <1>6 DEF SumsOf
  <2>2. ASSUME NEW k \in Nat PROVE m[k + 1] = m[k] + w[k]
    <3>1. k + 1 \in Nat /\ k + 1 # 0 /\ (k + 1) - 1 = k
      OBVIOUS
    <3> QED BY <3>1, <1>6 DEF SumsOf, b
  <2> QED BY <2>1, <2>2
<1>9. \A k \in Nat : m[k] \in Nat
  <2> HIDE DEF w
  <2> DEFINE T == {k \in Nat : m[k] \in Nat}
  <2>1. 0 \in T /\ \A k \in Nat : k \in T => k + 1 \in T
    BY <1>8, <1>2
  <2> HIDE DEF T
  <2>2. Nat \subseteq T
    BY <2>1, AllNaturals
  <2> QED BY <2>2 DEF T
<1>10. m \in [Nat -> Nat]
  BY <1>6, <1>9 DEF SumsOf
<1> QED BY <1>7, <1>8, <1>10 DEF b

\* A bit is more than all those below it, and larger than one below it.
LEMMA BitsGrow ==
  ASSUME NEW j \in Nat, NEW k \in Nat, j <= k
  PROVE  Dr!Bit[j] >= 1 /\ Dr!Bit[j] <= Dr!Bit[k]
<1> DEFINE b == Dr!Bit
<1>1. b \in [Nat -> Nat] /\ b[0] = 1 /\ \A n \in Nat : b[n + 1] = 2 * b[n]
  BY BitIs
<1> HIDE DEF b
<1> DEFINE T == {n \in Nat : b[n] >= 1}
           U == {n \in Nat : b[j] <= b[j + n]}
<1>2. Nat \subseteq T
  <2>1. 0 \in T /\ \A n \in Nat : n \in T => n + 1 \in T
    BY <1>1
  <2> HIDE DEF T
  <2> QED BY <2>1, AllNaturals
<1>3. Nat \subseteq U
  <2>1. 0 \in U
    BY <1>1
  <2>2. ASSUME NEW n \in Nat, n \in U PROVE n + 1 \in U
    <3>1. j + n \in Nat /\ j + (n + 1) = (j + n) + 1
      OBVIOUS
    <3>2. b[(j + n) + 1] = 2 * b[j + n]
      BY <1>1, <3>1
    <3>3. b[j] \in Nat /\ b[j + n] \in Nat /\ b[j] <= b[j + n]
      BY <1>1, <2>2, <3>1
    <3>4. b[j] <= b[j + (n + 1)]
      BY <3>1, <3>2, <3>3
    <3> QED BY <3>4
  <2> HIDE DEF U
  <2> QED BY <2>1, <2>2, AllNaturals
<1>4. b[j] >= 1
  BY <1>2
<1>5. k - j \in Nat /\ j + (k - j) = k
  OBVIOUS
<1>6. k - j \in U
  BY <1>3, <1>5
<1>7. b[j] <= b[k]
  BY <1>5, <1>6
<1> QED BY <1>4, <1>7 DEF b

\* The mask is below the bit behind its last, and any two drives are in it.
LEMMA MaskBounds ==
  ASSUME Drives \in Nat, present \subseteq 0 .. Drives - 1
  PROVE  /\ Dr!Mask \in Nat /\ Dr!Mask < Dr!Bit[Drives]
         /\ \A j, k \in present : j # k => Dr!Bit[j] + Dr!Bit[k] <= Dr!Mask
<1> DEFINE b == Dr!Bit
           add(k) == IF k \in present THEN b[k] ELSE 0
<1>1. b \in [Nat -> Nat] /\ b[0] = 1 /\ \A n \in Nat : b[n + 1] = 2 * b[n]
  BY BitIs
<1>2. PICK f : /\ f \in [Nat -> Nat] /\ f[0] = 0
               /\ \A n \in Nat : f[n + 1] = f[n] + add(n)
               /\ Dr!Mask = f[Drives]
  BY MaskIs
<1> HIDE DEF b
<1>3. \A n \in Nat : add(n) \in Nat /\ add(n) <= b[n] /\ f[n] \in Nat /\ b[n] \in Nat
  BY <1>1, <1>2
<1>4. \A n \in present : add(n) = b[n]
  OBVIOUS
<1> HIDE DEF add
<1> DEFINE T == {n \in Nat : f[n] < b[n]}
           U == {n \in Nat : \A j \in present : j < n => b[j] <= f[n]}
           V == {n \in Nat : \A j, k \in present : j < k /\ k < n => b[j] + b[k] <= f[n]}
<1>5. Nat \subseteq T
  <2>1. 0 \in T
    BY <1>1, <1>2
  <2>2. ASSUME NEW n \in Nat, n \in T PROVE n + 1 \in T
    <3>1. f[n + 1] = f[n] + add(n) /\ b[n + 1] = 2 * b[n] /\ f[n] < b[n]
      BY <1>1, <1>2, <2>2
    <3>2. f[n + 1] < b[n + 1]
      BY <3>1, <1>3
    <3> QED BY <3>2
  <2> HIDE DEF T
  <2> QED BY <2>1, <2>2, AllNaturals
<1>6. Nat \subseteq U
  <2>1. 0 \in U
    OBVIOUS
  <2>2. ASSUME NEW n \in Nat, n \in U PROVE n + 1 \in U
    <3>1. f[n + 1] = f[n] + add(n)
      BY <1>2
    <3>2. ASSUME NEW j \in present, j < n + 1 PROVE b[j] <= f[n + 1]
      <4>1. j \in Nat /\ b[j] \in Nat
        BY <1>3
      <4>2. CASE j < n
        <5>1. b[j] <= f[n]
          BY <4>2, <2>2
        <5> QED BY <5>1, <3>1, <4>1, <1>3
      <4>3. CASE ~(j < n)
        <5>1. j = n
          BY <4>3, <4>1, <3>2
        <5>2. add(n) = b[n]
          BY <5>1, <1>4
        <5> QED BY <5>1, <5>2, <3>1, <4>1, <1>3
      <4> QED BY <4>2, <4>3
    <3> QED BY <3>2
  <2> HIDE DEF U
  <2> QED BY <2>1, <2>2, AllNaturals
<1>7. Nat \subseteq V
  <2>1. 0 \in V
    OBVIOUS
  <2>2. ASSUME NEW n \in Nat, n \in V PROVE n + 1 \in V
    <3>1. f[n + 1] = f[n] + add(n)
      BY <1>2
    <3>2. ASSUME NEW j \in present, NEW k \in present, j < k, k < n + 1
          PROVE  b[j] + b[k] <= f[n + 1]
      <4>1. j \in Nat /\ b[j] \in Nat /\ k \in Nat /\ b[k] \in Nat
        BY <1>3
      <4>2. CASE k < n
        <5>1. b[j] + b[k] <= f[n]
          BY <4>2, <2>2, <3>2
        <5> QED BY <5>1, <3>1, <4>1, <1>3
      <4>3. CASE ~(k < n)
        <5>1. k = n
          BY <4>3, <4>1, <3>2
        <5>2. add(n) = b[n]
          BY <5>1, <1>4
        <5>3. b[j] <= f[n]
          <6>1. n \in U
            BY <1>6
          <6> QED BY <6>1, <5>1, <3>2
        <5> QED BY <5>1, <5>2, <5>3, <3>1, <4>1, <1>3
      <4> QED BY <4>2, <4>3
    <3> QED BY <3>2
  <2> HIDE DEF V
  <2> QED BY <2>1, <2>2, AllNaturals
<1>8. f[Drives] < b[Drives]
  BY <1>5
<1>9. ASSUME NEW j \in present, NEW k \in present, j # k PROVE b[j] + b[k] <= f[Drives]
  <2>1. j \in Nat /\ k \in Nat /\ j < Drives /\ k < Drives /\ b[j] \in Nat /\ b[k] \in Nat
    BY <1>3
  <2>2. Drives \in V
    BY <1>7
  <2>3. j < k \/ k < j
    BY <1>9, <2>1
  <2>4. CASE j < k
    BY <2>1, <2>2, <2>4
  <2>5. CASE k < j
    <3>1. b[k] + b[j] <= f[Drives]
      BY <2>1, <2>2, <2>5
    <3> QED BY <3>1, <2>1
  <2> QED BY <2>3, <2>4, <2>5
<1> QED BY <1>2, <1>3, <1>8, <1>9 DEF b

-----------------------------------------------------------------------------
\* The letters below the loop variable have been looked at.
Looked ==
  /\ Drives \in Nat
  /\ present \subseteq 0 .. Drives - 1 /\ removable \subseteq present
  /\ letter \in 0 .. Drives
  /\ deviceName \in Seq(Nat)
  /\ \A k \in 1 .. Len(deviceName) : deviceName[k] \in removable /\ deviceName[k] < letter
  /\ \A j \in removable : j < letter => \E k \in 1 .. Len(deviceName) : deviceName[k] = j
  /\ \A k \in 1 .. Len(deviceName) - 1 : deviceName[k] < deviceName[k + 1]
  /\ done \in BOOLEAN
  /\ done => ~Dr!GoesOn

LEMMA LookedStarts ==
  ASSUME Dr!DrivesAssumption, Dr!Init
  PROVE  Looked
<1>1. Drives \in Nat /\ present \subseteq 0 .. Drives - 1 /\ removable \subseteq present
  BY DEF Dr!DrivesAssumption, Dr!Init, Dr!Drive
<1>2. letter = 0 /\ deviceName = <<>> /\ done = FALSE
  BY DEF Dr!Init
<1>3. Len(deviceName) = 0 /\ 1 .. 0 = {} /\ 1 .. 0 - 1 = {} /\ deviceName \in Seq(Nat)
  BY <1>2
<1>4. \A j \in removable : ~(j < letter)
  BY <1>1, <1>2
<1>5. done \in BOOLEAN /\ (done => ~Dr!GoesOn)
  BY <1>2, Zenon
<1> QED BY <1>1, <1>2, <1>3, <1>4, <1>5 DEF Looked

LEMMA LookKeepsLooked ==
  ASSUME Looked, Dr!Look
  PROVE  Looked'
<1>1. letter < Drives
  <2>1. Dr!Mask \in Nat /\ Dr!Mask < Dr!Bit[Drives] /\ Dr!Bit \in [Nat -> Nat]
    BY MaskBounds, BitIs DEF Looked
  <2>2. Dr!Bit[letter] < Dr!Mask
    BY DEF Dr!Look, Dr!GoesOn
  <2>3. letter \in Nat /\ Drives \in Nat /\ letter <= Drives
    BY DEF Looked
  <2> DEFINE b == Dr!Bit
             m == Dr!Mask
  <2>4. b[letter] \in Nat /\ b[Drives] \in Nat
    BY <2>1, <2>3
  <2>5. letter # Drives
    <3> HIDE DEF b, m
    <3>1. b[letter] < m /\ m < b[Drives] /\ m \in Nat
      BY <2>1, <2>2 DEF b, m
    <3> QED BY <3>1, <2>4
  <2> QED BY <2>3, <2>5
<1>2. /\ present' = present /\ removable' = removable /\ done' = done /\ letter' = letter + 1
      /\ deviceName' = IF letter \in removable THEN Append(deviceName, letter) ELSE deviceName
      /\ ~done
  BY DEF Dr!Look
<1>5. /\ Drives \in Nat /\ present' \subseteq 0 .. Drives - 1 /\ removable' \subseteq present'
      /\ letter' \in 0 .. Drives /\ done' \in BOOLEAN /\ (done' => ~Dr!GoesOn')
  <2>1. /\ Drives \in Nat /\ present \subseteq 0 .. Drives - 1 /\ removable \subseteq present
        /\ letter \in 0 .. Drives
    BY DEF Looked
  <2>2. done \in BOOLEAN
    BY DEF Looked
  <2>3. done' \in BOOLEAN /\ ~done'
    BY <1>2, <2>2, Zenon
  <2>4. letter + 1 \in 0 .. Drives
    BY <1>1, <2>1
  <2> QED BY <1>2, <2>1, <2>3, <2>4, Zenon
<1>3. CASE letter \in removable
  <2> DEFINE n == Len(deviceName)
  <2>1. /\ deviceName' \in Seq(Nat) /\ Len(deviceName') = n + 1 /\ n \in Nat
        /\ deviceName'[n + 1] = letter
        /\ \A k \in 1 .. n : deviceName'[k] = deviceName[k]
    BY <1>2, <1>3 DEF Looked
  <2>2. \A k \in 1 .. n + 1 : k \in 1 .. n \/ k = n + 1
    BY <2>1
  <2>3. ASSUME NEW k \in 1 .. n + 1 PROVE deviceName'[k] \in removable /\ deviceName'[k] < letter + 1
    <3>1. letter \in Nat /\ removable \subseteq Nat
      BY DEF Looked
    <3>2. CASE k \in 1 .. n
      <4>1. deviceName'[k] = deviceName[k] /\ deviceName[k] \in removable /\ deviceName[k] < letter
        BY <2>1, <3>2 DEF Looked
      <4> DEFINE d == deviceName[k]
      <4>2. d \in removable /\ d \in Nat /\ d < letter /\ deviceName'[k] = d
        BY <3>1, <4>1
      <4> HIDE DEF d
      <4>3. d < letter + 1
        BY <3>1, <4>2
      <4> QED BY <4>2, <4>3
    <3>3. CASE k = n + 1
      BY <1>3, <2>1, <3>1, <3>3
    <3> QED BY <2>2, <3>2, <3>3
  <2>4. ASSUME NEW j \in removable, j < letter + 1 PROVE \E k \in 1 .. n + 1 : deviceName'[k] = j
    <3>1. CASE j = letter
      BY <2>1, <3>1
    <3>2. CASE j # letter
      <4>1. j < letter
        BY <3>2, <2>4 DEF Looked
      <4>2. PICK k \in 1 .. n : deviceName[k] = j
        BY <4>1 DEF Looked
      <4> QED BY <2>1, <4>2
    <3> QED BY <3>1, <3>2
  <2>5. ASSUME NEW k \in 1 .. n PROVE deviceName'[k] < deviceName'[k + 1]
    <3>1. CASE k = n
      BY <2>1, <3>1 DEF Looked
    <3>2. CASE k # n
      <4>1. k \in 1 .. n - 1 /\ k + 1 \in 1 .. n
        BY <3>2, <2>1
      <4>2. deviceName'[k] = deviceName[k] /\ deviceName'[k + 1] = deviceName[k + 1]
        BY <2>1, <4>1
      <4> QED BY <4>1, <4>2 DEF Looked
    <3> QED BY <3>1, <3>2
  <2> HIDE DEF n
  <2>6. /\ \A k \in 1 .. Len(deviceName') : deviceName'[k] \in removable' /\ deviceName'[k] < letter'
        /\ \A j \in removable' : j < letter' => \E k \in 1 .. Len(deviceName') : deviceName'[k] = j
    BY <1>2, <2>1, <2>3, <2>4
  <2>7. \A k \in 1 .. Len(deviceName') - 1 : deviceName'[k] < deviceName'[k + 1]
    BY <2>1, <2>5
  <2> QED BY <1>5, <2>1, <2>6, <2>7 DEF Looked
<1>4. CASE letter \notin removable
  <2>1. deviceName' = deviceName
    BY <1>2, <1>4
  <2>2. \A j \in removable : j < letter + 1 => j < letter
    BY <1>4 DEF Looked
  <2>3. deviceName \in Seq(Nat) /\ letter \in Nat /\ removable \subseteq Nat
    BY DEF Looked
  <2>4. \A k \in 1 .. Len(deviceName) : deviceName[k] \in removable /\ deviceName[k] < letter + 1
    BY <2>3 DEF Looked
  <2>5. /\ \A j \in removable : j < letter + 1 => \E k \in 1 .. Len(deviceName) : deviceName[k] = j
        /\ \A k \in 1 .. Len(deviceName) - 1 : deviceName[k] < deviceName[k + 1]
    BY <2>2 DEF Looked
  <2> QED BY <1>2, <1>5, <2>1, <2>3, <2>4, <2>5 DEF Looked
<1> QED BY <1>3, <1>4

LEMMA FinishKeepsLooked ==
  ASSUME Looked, Dr!Finish \/ UNCHANGED Dr!vars
  PROVE  Looked'
<1>1. Dr!GoesOn' = Dr!GoesOn
  BY DEF Dr!Finish, Dr!GoesOn, Dr!Mask, Dr!vars
<1>2. /\ present' = present /\ removable' = removable /\ letter' = letter
      /\ deviceName' = deviceName
  BY DEF Dr!Finish, Dr!vars
<1>3. done' \in BOOLEAN /\ (done' => ~Dr!GoesOn)
  <2>1. done \in BOOLEAN /\ (done => ~Dr!GoesOn)
    BY DEF Looked
  <2>2. CASE Dr!Finish
    <3>1. done' = TRUE /\ ~Dr!GoesOn
      BY <2>2 DEF Dr!Finish
    <3> QED BY <3>1, Zenon
  <2>3. CASE UNCHANGED Dr!vars
    <3>1. done' = done
      BY <2>3 DEF Dr!vars
    <3> QED BY <2>1, <3>1, Zenon
  <2> QED BY <2>2, <2>3
<1> QED BY <1>1, <1>2, <1>3 DEF Looked

THEOREM LookedHolds ==
  ASSUME Dr!DrivesAssumption
  PROVE  Dr!Spec => []Looked
<1>1. Dr!Init => Looked
  BY LookedStarts
<1>2. Looked /\ [Dr!Next]_(Dr!vars) => Looked'
  BY LookKeepsLooked, FinishKeepsLooked DEF Dr!Next
<1> QED BY <1>1, <1>2, PTL DEF Dr!Spec

\* With two drives or more, every removable one is listed, once and in order,
\* for any number of letters (UsbIo.cpp:26-46).
THEOREM TheDrivesAreListed ==
  ASSUME Dr!DrivesAssumption
  PROVE  Dr!Spec => []Dr!ListedAmongOthers
<1>1. Looked => Dr!ListedAmongOthers
  <2> SUFFICES ASSUME Looked, done, \E j, k \in present : j # k PROVE Dr!Listed
    BY DEF Dr!ListedAmongOthers
  <2>1. ASSUME NEW j \in removable PROVE j < letter
    <3>1. present \subseteq 0 .. Drives - 1 /\ Drives \in Nat /\ j \in present /\ j \in Nat /\ letter \in Nat
      BY DEF Looked
    <3>2. PICK k \in present : k # j
      OBVIOUS
    <3>3. Dr!Bit[j] + Dr!Bit[k] <= Dr!Mask /\ Dr!Mask \in Nat
      BY <3>1, <3>2, MaskBounds
    <3>4. Dr!Bit \in [Nat -> Nat]
      BY BitIs
    <3>5. k \in Nat /\ k <= k
      BY <3>1
    <3>6. Dr!Bit[k] >= 1
      BY <3>5, BitsGrow
    <3>7. ~(Dr!Bit[letter] < Dr!Mask)
      BY DEF Looked, Dr!GoesOn
    <3> DEFINE b == Dr!Bit
               m == Dr!Mask
    <3>8. b[j] \in Nat /\ b[k] \in Nat /\ b[letter] \in Nat /\ m \in Nat
      BY <3>1, <3>3, <3>4, <3>5
    <3>9. ~(letter <= j)
      <4> SUFFICES ASSUME letter <= j PROVE FALSE
        OBVIOUS
      <4>1. b[letter] <= b[j]
        BY <3>1, BitsGrow
      <4>2. b[j] + b[k] <= m /\ b[k] >= 1 /\ ~(b[letter] < m)
        BY <3>3, <3>6, <3>7
      <4> HIDE DEF b, m
      <4> QED BY <4>1, <4>2, <3>8
    <3> QED BY <3>1, <3>9
  <2> QED BY <2>1 DEF Looked, Dr!Listed
<1> QED BY <1>1, LookedHolds, PTL
=============================================================================
