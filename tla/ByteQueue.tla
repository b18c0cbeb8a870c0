----------------------------- MODULE ByteQueue ------------------------------
(***************************************************************************)
(* ByteQueue of cryptopp562/queue.cpp: an unlimited byte queue kept in a   *)
(* linked list of arrays, with at most one string of the caller's that is  *)
(* queued without being copied (the lazy string), and the Walker that      *)
(* reads a queue without emptying it.                                      *)
(*                                                                         *)
(* A node is its array's size (max), the bytes already taken from its      *)
(* front (head, as a number) and the bytes in it (data): m_tail is         *)
(* head + Len(data).                                                       *)
(***************************************************************************)
EXTENDS Integers, Sequences, SequencesExt

CONSTANTS
  Byte,
  NodeSizes,           \* arguments of the constructor; 0 chooses automatic sizes
  AutoNodeSize,        \* the first automatic size, 256 in the code
  s_maxAutoNodeSize,
  MaxPut, MaxBytes     \* bounds: of a string put, and of the queue

ByteQueueAssumption ==
  /\ NodeSizes \subseteq Nat
  /\ {AutoNodeSize, s_maxAutoNodeSize, MaxPut, MaxBytes} \subseteq Nat \ {0}

VARIABLES
  nodes,            \* the list from m_head to m_tail
  m_nodeSize, m_autoNodeSize,
  m_lazyString,     \* its m_lazyLength bytes
  walker,           \* a Walker in use on the queue, or NoWalker
  call, out         \* the last call and the bytes it handed over

queue == <<nodes, m_nodeSize, m_autoNodeSize, m_lazyString>>
vars == <<nodes, m_nodeSize, m_autoNodeSize, m_lazyString, walker, call, out>>

NoWalker == [node |-> 0, offset |-> 0, position |-> 0, lazy |-> <<>>, seen |-> <<>>]

String == BoundedSeq(Byte, MaxPut)

Node(size, s) == [max |-> size, head |-> 0, data |-> s]

Lower(a, b) == IF a < b THEN a ELSE b
Higher(a, b) == IF a < b THEN b ELSE a

First(s) == IF s = <<>> THEN <<>> ELSE <<s[1]>>
Rest(s) == IF s = <<>> THEN <<>> ELSE Tail(s)

Room(n) == n.max - n.head - Len(n.data)
UsedUp(n) == n.head = n.max

Stored(ns) == FlattenSeq([i \in DOMAIN ns |-> ns[i].data])

\* The queue as its user sees it.
Contents == Stored(nodes) \o m_lazyString

SizeOf(n) == IF n = 0 THEN AutoNodeSize ELSE n

Init ==
  /\ \E n \in NodeSizes : m_nodeSize = SizeOf(n) /\ m_autoNodeSize = (n = 0)
  /\ nodes = <<Node(m_nodeSize, <<>>)>>
  /\ m_lazyString = <<>>
  /\ walker = NoWalker
  /\ call = [op |-> "Keep", arg |-> 0]
  /\ out = <<>>

-----------------------------------------------------------------------------
\* A list of nodes with the size of the next one.
Buf(ns, size) == [nodes |-> ns, size |-> size]

\* The automatic size doubles, at least once, until the rest fits.
Doubled(size, len) ==
  LET doubled[k \in 0 .. s_maxAutoNodeSize] == IF k = 0 THEN size ELSE 2 * doubled[k - 1]
  IN  IF m_autoNodeSize /\ size < s_maxAutoNodeSize
        THEN Min({n \in {doubled[k] : k \in 1 .. s_maxAutoNodeSize} :
                    n >= Lower(len, s_maxAutoNodeSize)})
        ELSE size

\* The tail is filled first; one new node takes what is left.
PutBytes(b, s) ==
  LET tail == Last(b.nodes)
      fits == Lower(Len(s), Room(tail))
      rest == SubSeq(s, fits + 1, Len(s))
      old  == [b.nodes EXCEPT ![Len(b.nodes)].data = @ \o SubSeq(s, 1, fits)]
      size == Doubled(b.size, Len(rest))
  IN  IF rest = <<>> THEN Buf(old, b.size)
      ELSE Buf(Append(old, Node(Higher(size, Len(rest)), rest)), size)

\* FinalizeLazyPut, the first thing that calls which append do.
Finalized == PutBytes(Buf(nodes, m_nodeSize), m_lazyString)

Becomes(b) == nodes' = b.nodes /\ m_nodeSize' = b.size

\* A call that changes the queue leaves a Walker with dangling pointers.
Did(op, arg, given) ==
  /\ call' = [op |-> op, arg |-> arg]
  /\ out' = given
  /\ walker' = NoWalker

Grows(s) == Len(Contents) + Len(s) <= MaxBytes

Put2(s) ==
  /\ Grows(s)
  /\ Becomes(PutBytes(Finalized, s))
  /\ m_lazyString' = <<>>
  /\ UNCHANGED m_autoNodeSize
  /\ Did("Put", s, <<>>)

\* LazyPut of a string that is not the tail's own free space (that is a Put2),
\* and LazyPutModifiable.
LazyPut(s) ==
  /\ Grows(s)
  /\ Becomes(Finalized)
  /\ m_lazyString' = s
  /\ UNCHANGED m_autoNodeSize
  /\ Did("Put", s, <<>>)

FinalizeLazyPut ==
  /\ Becomes(Finalized)
  /\ m_lazyString' = <<>>
  /\ UNCHANGED m_autoNodeSize
  /\ Did("Keep", 0, <<>>)

\* A larger n throws.
UndoLazyPut(n) ==
  /\ n <= Len(m_lazyString)
  /\ m_lazyString' = SubSeq(m_lazyString, 1, Len(m_lazyString) - n)
  /\ UNCHANGED <<nodes, m_nodeSize, m_autoNodeSize>>
  /\ Did("Undo", n, <<>>)

\* Mutant: a new node also when the space left is less than was asked for.
NeedsNode_TooSmall(n, size) == Room(n) < size

NeedsNode(n, size) == Room(n) = 0

\* The user may now fill the free space of the tail and Put2 it there.
CreatePutSpace(n) ==
  LET b == Finalized
  IN  /\ nodes' = IF NeedsNode(Last(b.nodes), n) THEN Append(b.nodes, Node(Higher(b.size, n), <<>>))
                ELSE b.nodes
      /\ m_nodeSize' = b.size
      /\ m_lazyString' = <<>>
      /\ UNCHANGED m_autoNodeSize
      /\ Did("Keep", 0, <<>>)

-----------------------------------------------------------------------------
\* Mutant: one used-up node is freed, not all of them.
CleanupUsedNodes_One(ns) ==
  LET left == SubSeq(ns, IF Len(ns) > 1 /\ UsedUp(ns[1]) THEN 2 ELSE 1, Len(ns))
  IN  IF left[1].data = <<>> THEN [left EXCEPT ![1].head = 0] ELSE left

\* Used-up nodes are freed up to the tail; an empty first node starts anew.
CleanupUsedNodes(ns) ==
  LET first == Min({i \in DOMAIN ns : i = Len(ns) \/ ~UsedUp(ns[i])})
      left  == SubSeq(ns, first, Len(ns))
  IN  IF left[1].data = <<>> THEN [left EXCEPT ![1].head = 0] ELSE left

\* The list when n bytes have been taken off its nodes.
Taken(ns, n) ==
  [i \in DOMAIN ns |->
     LET before == Len(Stored(SubSeq(ns, 1, i - 1)))
         k      == Lower(Len(ns[i].data), Higher(0, n - before))
     IN  [ns[i] EXCEPT !.head = @ + k, !.data = SubSeq(@, k + 1, Len(@))]]

\* Get of one byte looks at the first node and, if that is empty, at the lazy
\* string.
GetByte ==
  /\ IF nodes[1].data # <<>>
       THEN LET ns == Taken(nodes, 1)
            IN  /\ nodes' = IF UsedUp(ns[1]) THEN CleanupUsedNodes(ns) ELSE ns
                /\ Did("Get", 1, <<nodes[1].data[1]>>)
                /\ UNCHANGED m_lazyString
       ELSE /\ m_lazyString' = Rest(m_lazyString)
            /\ Did("Get", 1, First(m_lazyString))
            /\ UNCHANGED nodes
  /\ UNCHANGED <<m_nodeSize, m_autoNodeSize>>

\* TransferTo2 that blocks; Get and Skip of several bytes are this call.
Transferred(n) ==
  LET left == Higher(0, n - Len(Stored(nodes)))
      lazy == Lower(left, Len(m_lazyString))
  IN  /\ nodes' = CleanupUsedNodes(Taken(nodes, n))
      /\ m_lazyString' = SubSeq(m_lazyString, lazy + 1, Len(m_lazyString))
      /\ UNCHANGED <<m_nodeSize, m_autoNodeSize>>

TransferTo2(n) ==
  /\ Transferred(n)
  /\ Did("Get", n, SubSeq(Contents, 1, Lower(n, Len(Contents))))

-----------------------------------------------------------------------------
\* A Walker's pieces: what is left of its node, the nodes behind it, the lazy
\* string.  Node Len(nodes) + 1 is the null pointer.
Pieces(w) ==
  [i \in 1 .. Len(nodes) + 2 - w.node |->
     IF w.node + i - 1 > Len(nodes) THEN w.lazy
     ELSE LET d == nodes[w.node + i - 1].data
          IN  IF i = 1 THEN SubSeq(d, w.offset + 1, Len(d)) ELSE d]

AtBegin == [node |-> 1, offset |-> 0, position |-> 0, lazy |-> m_lazyString, seen |-> <<>>]

\* Mutant: the offset is kept for the nodes after the one it belongs to.
Offset_Kept(w, j) == w.offset

\* The offset at which a Walker starts in its j-th piece.
Offset(w, j) == IF j = 1 THEN w.offset ELSE 0

\* The Walker when it has read `part` bytes of its j-th piece and all of those
\* before.  m_position does not count the lazy string.
Reached(w, j, part) ==
  LET p      == Pieces(w)
      before == FlattenSeq(SubSeq(p, 1, j - 1))
      nodal  == j < Len(p)
  IN  [node     |-> w.node + j - 1,
       offset   |-> IF nodal THEN Offset(w, j) + part ELSE 0,
       position |-> w.position + Len(before) + (IF nodal THEN part ELSE 0),
       lazy     |-> IF nodal THEN w.lazy ELSE SubSeq(w.lazy, part + 1, Len(w.lazy)),
       seen     |-> w.seen \o before \o SubSeq(p[j], 1, part)]

\* Bytes in the first j pieces.
Upto(w, j) == Len(FlattenSeq(SubSeq(Pieces(w), 1, j)))

\* Walker::TransferTo2 of n bytes to a target that takes them all.
Walked(w, n) ==
  LET last == Len(Pieces(w))
      j    == Min({k \in 1 .. last : k = last \/ n <= Upto(w, k)})
  IN  Reached(w, j, Lower(n, Upto(w, last)) - Upto(w, j - 1))

\* A target that blocks has taken none of the piece it was offered, and all of
\* those before it.
Blocked(w, n) == {Reached(w, j, 0) : j \in {k \in DOMAIN Pieces(w) : Upto(w, k - 1) < n}}

\* TransferTo2 that does not block: a Walker offers the bytes, and what it got
\* rid of is skipped.
TransferOrBlock(n) ==
  \E w \in {Walked(AtBegin, n)} \cup Blocked(AtBegin, n) :
    /\ Transferred(Len(w.seen))
    /\ Did("GetOrBlock", n, w.seen)

\* One call of TransferTo2 on a Walker that has been reading the queue.
Walk(n) ==
  LET w == IF walker = NoWalker THEN AtBegin ELSE walker
  IN  /\ walker' \in {Walked(w, n)} \cup Blocked(w, n)
      /\ call' = [op |-> "Keep", arg |-> 0]
      /\ out' = <<>>
      /\ UNCHANGED queue

-----------------------------------------------------------------------------
\* Mutant: the bytes that go before m_head are the first ones of the string.
UngetSplit_WrongEnd(s, len) == [new |-> SubSeq(s, len + 1, Len(s)), old |-> SubSeq(s, 1, len)]

\* The last len bytes of s go into the first node, the others before it.
UngetSplit(s, len) ==
  [new |-> SubSeq(s, 1, Len(s) - len), old |-> SubSeq(s, Len(s) - len + 1, Len(s))]

Unget(s) ==
  LET len  == Lower(Len(s), nodes[1].head)
      part == UngetSplit(s, len)
      ns   == [nodes EXCEPT ![1].head = @ - len, ![1].data = part.old \o @]
  IN  /\ Grows(s)
      /\ nodes' = IF part.new = <<>> THEN ns ELSE <<Node(Len(part.new), part.new)>> \o ns
      /\ UNCHANGED <<m_nodeSize, m_autoNodeSize, m_lazyString>>
      /\ Did("Unget", s, <<>>)

\* Clear, and IsolatedInitialize, which stores the NodeSize of the parameters as
\* it is and leaves m_autoNodeSize alone; a NodeSize of 0 is left out.
Clear(size) ==
  /\ nodes' = <<[nodes[1] EXCEPT !.head = 0, !.data = <<>>]>>
  /\ m_nodeSize' = size
  /\ m_lazyString' = <<>>
  /\ UNCHANGED m_autoNodeSize
  /\ Did("Clear", 0, <<>>)

SetNodeSize(n) ==
  /\ m_autoNodeSize' = (n = 0) /\ m_nodeSize' = SizeOf(n)
  /\ call' = [op |-> "Keep", arg |-> 0] /\ out' = <<>>
  /\ UNCHANGED <<nodes, m_lazyString, walker>>

\* The copy constructor or operator=: the user goes on with the copy, in which
\* the lazy string has been put.
CopyFrom ==
  /\ Becomes(Finalized)
  /\ m_lazyString' = <<>>
  /\ UNCHANGED m_autoNodeSize
  /\ Did("Keep", 0, <<>>)

Next ==
  \/ \E s \in String : Put2(s) \/ LazyPut(s) \/ Unget(s)
  \/ \E n \in 0 .. MaxPut : UndoLazyPut(n) \/ CreatePutSpace(n)
  \/ \E n \in 1 .. MaxBytes : TransferTo2(n) \/ TransferOrBlock(n) \/ Walk(n)
  \/ GetByte
  \/ FinalizeLazyPut
  \/ CopyFrom
  \/ \E n \in NodeSizes : SetNodeSize(n)
  \/ \E size \in {m_nodeSize, AutoNodeSize} \cup (NodeSizes \ {0}) : Clear(size)

Spec == Init /\ [][Next]_vars

-----------------------------------------------------------------------------
TypeOK ==
  /\ nodes \in Seq([max : Nat \ {0}, head : Nat, data : Seq(Byte)]) /\ nodes # <<>>
  /\ \A i \in DOMAIN nodes : nodes[i].head + Len(nodes[i].data) <= nodes[i].max
  /\ m_nodeSize \in Nat \ {0} /\ m_autoNodeSize \in BOOLEAN
  /\ m_lazyString \in Seq(Byte)

\* Free space is at the end of the list only, so that appending to the tail
\* appends to the queue (queue.cpp:217-238, and the node that Unget adds, 390-396).
RoomAtTheTailOnly == \A i \in 1 .. Len(nodes) - 1 : Room(nodes[i]) = 0

IsEmpty == Len(nodes) = 1 /\ nodes[1].data = <<>> /\ m_lazyString = <<>>

Spied == IF nodes[1].data = <<>> THEN m_lazyString ELSE nodes[1].data

\* IsEmpty, Spy and the Get of one byte look at the front only.  They are right
\* because an emptied node never stays before a full one: Spy gives bytes
\* whenever there are any, or the loop of EqualityComparisonFilter that spies
\* and skips would never end (mqueue.cpp:102-112).
FrontShows ==
  /\ IsEmpty <=> Contents = <<>>
  /\ Contents # <<>> => Spied # <<>>

\* What a Walker has read, in however many calls and however often its target
\* blocked, is the front of the queue, nothing lost and nothing twice
\* (queue.cpp:510-551).
WalkerReadsTheFront == IsPrefix(walker.seen, Contents)

\* The queue hands over every byte once and in order (queue.h:12 calls the list
\* of arrays something its user need not know of).
Fifo == INSTANCE ByteFifo WITH bytes <- Contents
ImplementsFifo == Fifo!Spec
=============================================================================
