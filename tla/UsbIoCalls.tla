----------------------------- MODULE UsbIoCalls -----------------------------
(***************************************************************************)
(* Class UsbIo used directly: each client opens the device, reads and      *)
(* writes byte ranges of its choice, and closes it.                        *)
(***************************************************************************)
EXTENDS UsbIo, FiniteSets

CONSTANTS
  SectorsPerHigh,  \* sectors that one unit of *DistanceToMoveHigh stands for (2^23)
  Requests,      \* the ranges asked for
  Contents,      \* the bytes handed to writeFileForUsb
  InitialDisk    \* what the volume holds at first

ASSUME UsbIoCallsAssumption ==
  /\ Contents \subseteq Block
  /\ InitialDisk \in [SectorNo -> Block]
  /\ SectorsPerHigh \in Nat \ {0}
  /\ \A r \in Requests :
       /\ r \in Request /\ Span(r) <= 2 /\ r.sector + Span(r) - 1 <= LastSector
       /\ r.from + Span(r) - 1 <= LastSector

FILE_BEGIN == 0
FILE_END   == LastSector + 1

\* The overloads by distance with every argument of SetFilePointer: the method,
\* as the sector it counts from, and the distance in its two halves, a LONG each,
\* of which the low one counts as unsigned. Behind 2 GB the low half, by itself,
\* is negative. A negative one is a whole number of sectors.
SeekFrom(dwMoveMethod, high, low, n) ==
  [seek   |-> TRUE,
   sector |-> dwMoveMethod + high * SectorsPerHigh + ((low \div perSectorSize) % SectorsPerHigh),
   from   |-> IF low < 0 THEN Unmoved ELSE low \div perSectorSize,
   off    |-> low % perSectorSize, n |-> n]

VARIABLES
  call,      \* the call each client is in
  answer,    \* the call this step returned from, its value and its buffer
  opened     \* the clients that have opened the device so far

vars == <<disk, locker, handle, io, buf, call, answer, opened>>

NoReq    == At(0, 1)
NoCall   == [kind |-> "none", req |-> NoReq, data |-> ZeroBlock]
NoAnswer == [call |-> NoCall, to |-> NoClient, ret |-> 0, bytes |-> NoBuf]

TypeOK ==
  /\ IoTypeOK
  /\ call \in [Client -> {NoCall} \cup [kind : {"read", "write"},
                                        req : Requests, data : Block]]
  /\ answer \in [call : {NoCall} \cup [kind : {"read", "write"},
                                       req : Requests, data : Block],
                 to : Client \cup {NoClient}, ret : Int, bytes : [0 .. 1 -> Block]]
  /\ \A p \in Client : io[p] = "loaded" => call[p] # NoCall

Init ==
  /\ disk = InitialDisk
  /\ IoInit
  /\ call   = [p \in Client |-> NoCall]
  /\ answer = NoAnswer
  /\ opened = {}

-----------------------------------------------------------------------------
Quietly(p, newCall) == call' = [call EXCEPT ![p] = newCall] /\ answer' = NoAnswer

Return(p, ret) ==
  /\ call'   = [call EXCEPT ![p] = NoCall]
  /\ answer' = [call |-> call[p], to |-> p, ret |-> ret, bytes |-> buf[p]]

Calls(p) ==
  /\ call[p] = NoCall /\ handle[p] # "none"
  /\ \E r \in Requests :
       \/ Quietly(p, [kind |-> "read", req |-> r, data |-> ZeroBlock])
       \/ \E d \in Contents : Quietly(p, [kind |-> "write", req |-> r, data |-> d])
  /\ UNCHANGED <<ioVars, opened>>

readFileForUsb(p) ==
  /\ call[p].kind = "read"
  /\ \/ ReadBegins(p, call[p].req) /\ Quietly(p, call[p])
     \/ \E ret \in {ReadFailed, call[p].req.n} :
          ReadReturns(p, call[p].req, ret) /\ Return(p, ret)
  /\ UNCHANGED opened

writeFileForUsb(p) ==
  /\ call[p].kind = "write"
  /\ \/ WriteBegins(p, call[p].req) /\ Quietly(p, call[p])
     \/ \E ret \in {WriteFailed, call[p].req.n} :
          WriteReturns(p, call[p].req, call[p].data, ret) /\ Return(p, ret)
  /\ UNCHANGED opened

Opens(p) == OpenDevice(p) /\ Quietly(p, NoCall) /\ opened' = opened \cup {p}

\* ~UsbIo; a process that dies inside a call, by a kill or by the wild pointer
\* of a read by distance whose allocation failed, closes its handle too.
Closes(p) ==
  /\ \/ call[p] = NoCall
     \/ "crash" \in Faults
     \/ "alloc" \in Faults /\ io[p] = "loaded" /\ call[p].kind = "read" /\ call[p].req.seek
  /\ CloseHandle(p)
  /\ Quietly(p, NoCall)
  /\ UNCHANGED opened

Pulled == Unplug /\ answer' = NoAnswer /\ UNCHANGED <<call, opened>>

Next ==
  \/ \E p \in Client :
       Opens(p) \/ Calls(p) \/ readFileForUsb(p) \/ writeFileForUsb(p) \/ Closes(p)
  \/ Pulled

Spec == Init /\ [][Next]_vars

-----------------------------------------------------------------------------
\* Part q of sector s is among the bytes of a request.
Asked(req, s, q) == Touches(req, s) /\ Covers(req, s, q)

\* A write changes only the bytes it was asked to write ("要写的字符串",
\* UsbIo.h:38,46), although WriteFile gets whole sectors and one more than the
\* bytes fill (UsbIo.cpp:184,224).
WritesOnlyItsBytes ==
  [][\A s \in SectorNo, q \in Part :
       disk'[s][q] # disk[s][q] =>
         \E p \in Client : call[p].kind = "write" /\ Asked(call[p].req, s, q)]_vars

\* While one client only has used the device, its writes keep to their bytes
\* through torn, dropped, interrupted and repeated writes: the rest of the
\* sectors is put back as it was read. Needs ReadFile to work, and a write that
\* reads where it writes: one from the beginning of the volume below 2 GB, or by
\* sector number (UsbIo.cpp:196,221,254,279). The calls before and after it are
\* of any kind.
AloneWritesOnlyItsBytes ==
  [][\A s \in SectorNo, q \in Part :
       /\ disk'[s][q] # disk[s][q] /\ Cardinality(opened) <= 1
       /\ \A p \in Client : call[p].kind = "write" => ReadWhereWritten(call[p].req)
       => \E p \in Client : call[p].kind = "write" /\ Asked(call[p].req, s, q)]_vars

\* A read that succeeds hands out bytes the stick holds when it returns: the
\* lock it takes keeps out the writes of every other program, which take none
\* (UsbIo.cpp:52,98,111,167).
ReadsWhatIsThere ==
  [][\A s \in SectorNo, q \in Part :
       LET c == answer'.call
       IN  answer'.to # NoClient /\ c.kind = "read" /\ answer'.ret = c.req.n
             /\ Asked(c.req, s, q)
           => answer'.bytes[s - c.req.sector][q] = disk[s][q]]_vars
=============================================================================
