----------------------------- MODULE BlockQueue -----------------------------
(***************************************************************************)
(* FilterWithBufferedInput of cryptopp562/filters.cpp, as operators on the *)
(* filter f.  It keeps back part of its input, in a ring of m_maxBlocks    *)
(* blocks (BlockQueue), so that the class derived from it is handed        *)
(* firstSize bytes first, then whole blocks, and at the end of the message *)
(* at least lastSize bytes.  A call answers with the new f and the strings *)
(* it has handed over.                                                     *)
(***************************************************************************)
EXTENDS Integers, Sequences, SequencesExt

CONSTANT Garbage      \* a byte of memory never written

Lower(a, b) == IF a < b THEN a ELSE b

\* ResetQueue.
Queue(blockSize, maxBlocks) ==
  [buffer |-> [i \in 1 .. blockSize * maxBlocks |-> Garbage],
   blockSize |-> blockSize, begin |-> 0, size |-> 0]

MaxSize(q) == Len(q.buffer)

\* The n bytes in the ring from position p on.
Window(q, p, n) == [i \in 1 .. n |-> q.buffer[((p + i - 1) % MaxSize(q)) + 1]]

Queued(q) == Window(q, q.begin, q.size)

\* Mutant: the end of the bytes is sought without the wrap.
PutAt_NoWrap(q) == Lower(q.begin + q.size, MaxSize(q) - 1)

PutAt(q) == (q.begin + q.size) % MaxSize(q)

QueuePut(q, s) ==
  IF s = <<>> THEN q
  ELSE [q EXCEPT
          !.buffer = [i \in DOMAIN q.buffer |->
                        LET k == (i - 1 - PutAt(q) + MaxSize(q)) % MaxSize(q)
                        IN  IF k < Len(s) THEN s[k + 1] ELSE q.buffer[i]],
          !.size = @ + Len(s)]

\* GetBlock, of which there is one.
BlockGot(q) ==
  [q EXCEPT !.begin = IF @ + q.blockSize = MaxSize(q) THEN 0 ELSE @ + q.blockSize,
            !.size = @ - q.blockSize]

\* GetContigousBlocks gives no more than lies before the end of the ring.
Contiguous(q, n) == Lower(n, Lower(MaxSize(q) - q.begin, q.size))

ContiguousGot(q, n) ==
  LET k == Contiguous(q, n)
  IN  [q EXCEPT !.begin = IF q.size = k \/ @ + k = MaxSize(q) THEN 0 ELSE @ + k,
                !.size = @ - k]

-----------------------------------------------------------------------------
Filter(firstSize, blockSize, lastSize) ==
  [firstSize |-> firstSize, blockSize |-> blockSize, lastSize |-> lastSize,
   firstInputDone |-> FALSE, queue |-> Queue(1, firstSize)]

Answer(f, given) == [f |-> f, given |-> given]

\* The blocks of the ring for what is kept back: less than a block and lastSize.
MaxBlocks(f) == (2 * f.blockSize + f.lastSize - 2) \div f.blockSize

\* The first firstSize bytes have come.
FirstPut(f, s) ==
  LET len == f.firstSize - f.queue.size
  IN  [f |-> [f EXCEPT !.firstInputDone = TRUE,
                       !.queue = Queue(f.blockSize, MaxBlocks(f))],
       first |-> Queued(f.queue) \o SubSeq(s, 1, len),
       rest |-> SubSeq(s, len + 1, Len(s))]

\* Everything the queue can give, in two pieces at most, of n bytes wanted.
Drained(q, n) ==
  LET k1 == Contiguous(q, n)
      q1 == ContiguousGot(q, n)
      k2 == Contiguous(q1, n - k1)
  IN  [queue |-> ContiguousGot(q1, n - k1),
       given |-> <<Window(q, q.begin, k1), Window(q1, q1.begin, k2)>>,
       n |-> k1 + k2]

\* Mutant: nothing is kept back for LastPut.
Ready_All(f, total) == total \div f.blockSize

\* The blocks that can be handed on of `total` bytes.
Ready(f, total) ==
  IF total < f.lastSize THEN 0 ELSE (total - f.lastSize) \div f.blockSize

\* Blocks of one byte: all but lastSize bytes are handed on.
NextBytes(f, s) ==
  LET n == Ready(f, f.queue.size + Len(s))
      d == Drained(f.queue, n)
      direct == n - d.n
  IN  IF n = 0 THEN Answer([f EXCEPT !.queue = QueuePut(@, s)], <<>>)
      ELSE Answer([f EXCEPT !.queue = QueuePut(d.queue, SubSeq(s, direct + 1, Len(s)))],
                  d.given \o <<SubSeq(s, 1, direct)>>)

\* k blocks out of the queue, one by one.
GotBlocks(q, k) ==
  LET after[i \in 0 .. k] == IF i = 0 THEN q ELSE BlockGot(after[i - 1])
  IN  [queue |-> after[k],
       given |-> [i \in 1 .. k |-> Window(after[i - 1], after[i - 1].begin, q.blockSize)]]

\* Larger blocks: whole ones from the queue, one that s completes, then as many
\* as possible straight from s.
NextBlocks(f, s) ==
  LET bs     == f.blockSize
      ready  == Ready(f, f.queue.size + Len(s))
      whole  == Lower(ready, f.queue.size \div bs)
      b1     == GotBlocks(f.queue, whole)
      fills  == ready > whole /\ b1.queue.size > 0
      len    == IF fills THEN bs - b1.queue.size ELSE 0
      b2     == GotBlocks(QueuePut(b1.queue, SubSeq(s, 1, len)), IF fills THEN 1 ELSE 0)
      direct == (ready - whole - Len(b2.given)) * bs
  IN  Answer([f EXCEPT !.queue = QueuePut(b2.queue, SubSeq(s, len + direct + 1, Len(s)))],
             b1.given \o b2.given \o <<SubSeq(s, len + 1, len + direct)>>)

NextPut(f, s) == IF f.blockSize = 1 THEN NextBytes(f, s) ELSE NextBlocks(f, s)

\* Put2 of a string that is not empty.
PutMaybeModifiable(f, s) ==
  IF s = <<>> THEN Answer(f, <<>>)
  ELSE IF f.firstInputDone THEN NextPut(f, s)
  ELSE IF f.queue.size + Len(s) < f.firstSize THEN Answer([f EXCEPT !.queue = QueuePut(@, s)], <<>>)
  ELSE LET p == FirstPut(f, s)
           n == NextPut(p.f, p.rest)
       IN  Answer(n.f, <<p.first>> \o n.given)

\* Put2 with messageEnd, after its string: GetAll is what LastPut is given.
MessageEnd(f) ==
  Answer(Filter(f.firstSize, f.blockSize, f.lastSize), <<Queued(f.queue)>>)

\* The bytes that the ring has wrapped to its start.
Wrapped(q) == q.size - Contiguous(q, q.size)

Overreads(f) == f.firstInputDone /\ f.blockSize = 1 /\ Wrapped(f.queue) > 0

\* A hard flush hands on all that is in whole blocks.  Where these are bytes, the
\* string and its length stand in one list of arguments, and GetContigousBlocks
\* lowers the length.  A compiler may take the length first: the string of a ring
\* that has wrapped is then read past the end of the memory.
ForceNextPut(f, lengthFirst) ==
  IF ~f.firstInputDone THEN Answer(f, <<>>)
  ELSE LET d == IF f.blockSize > 1 THEN GotBlocks(f.queue, f.queue.size \div f.blockSize)
                ELSE Drained(f.queue, f.queue.size)
           behind == [i \in 1 .. Wrapped(f.queue) |-> Garbage]
       IN  Answer([f EXCEPT !.queue = d.queue],
                  IF lengthFirst /\ Overreads(f) THEN [d.given EXCEPT ![1] = @ \o behind]
                  ELSE d.given)
=============================================================================
