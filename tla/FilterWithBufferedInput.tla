---------------------- MODULE FilterWithBufferedInput ----------------------
(***************************************************************************)
(* FilterWithBufferedInput in use: a client puts messages in pieces, ends  *)
(* them and flushes; the class derived from it takes what it is given.     *)
(* The bytes of a message are numbered.                                    *)
(***************************************************************************)
EXTENDS BlockQueue

CONSTANTS
  FirstSizes, BlockSizes, LastSizes,     \* arguments of the constructor
  MaxMessage                             \* bound on the length of a message

FilterAssumption ==
  /\ FirstSizes \cup LastSizes \cup {MaxMessage} \subseteq Nat
  /\ BlockSizes \subseteq Nat \ {0}

VARIABLES
  f,           \* the filter
  put,         \* the number of bytes of the message so far
  given,       \* the strings FirstPut and NextPut have been given
  last,        \* what LastPut was given, at the end of a message
  flushed,     \* has this message been flushed hard?
  overread     \* did a flush of it read past the end of the ring?

vars == <<f, put, given, last, flushed, overread>>

NoLast == <<0>>

Init ==
  /\ \E firstSize \in FirstSizes, blockSize \in BlockSizes, lastSize \in LastSizes :
       f = Filter(firstSize, blockSize, lastSize)
  /\ put = 0 /\ given = <<>> /\ last = NoLast /\ flushed = FALSE /\ overread = FALSE

\* The strings that are not empty.
NotEmpty(strings) ==
  FlattenSeq([i \in DOMAIN strings |-> IF strings[i] = <<>> THEN <<>> ELSE <<strings[i]>>])

Becomes(a) ==
  /\ f' = a.f
  /\ given' = given \o NotEmpty(a.given)

Put2(n) ==
  /\ last = NoLast
  /\ put' = put + n /\ put' <= MaxMessage
  /\ Becomes(PutMaybeModifiable(f, [i \in 1 .. n |-> put + i]))
  /\ UNCHANGED <<last, flushed, overread>>

\* The end of the message, which comes with its last string or by itself.
PutMessageEnd ==
  /\ last = NoLast
  /\ LET a == MessageEnd(f) IN f' = a.f /\ last' = a.given[1]
  /\ UNCHANGED <<put, given, flushed, overread>>

IsolatedFlush ==
  /\ last = NoLast
  /\ \E lengthFirst \in BOOLEAN :
       /\ Becomes(ForceNextPut(f, lengthFirst))
       /\ overread' = (overread \/ (lengthFirst /\ Overreads(f)))
  /\ flushed' = TRUE
  /\ UNCHANGED <<put, last>>

\* The next message.
Again ==
  /\ last # NoLast
  /\ put' = 0 /\ given' = <<>> /\ last' = NoLast
  /\ flushed' = FALSE /\ overread' = FALSE
  /\ UNCHANGED f

Next == (\E n \in 1 .. MaxMessage : Put2(n)) \/ PutMessageEnd \/ IsolatedFlush \/ Again

Spec == Init /\ [][Next]_vars

-----------------------------------------------------------------------------
Kept == IF last = NoLast THEN Queued(f.queue) ELSE last

\* The derived class is given the bytes of the message, in order and no others:
\* what the class says of itself, of any order of the arguments at
\* filters.cpp:432 (filters.h:142-145).
BlocksAreTheInput == FlattenSeq(given) \o Kept = [i \in 1 .. put |-> i]

\* The derived class is given the message, whole and in order, wherever the ring
\* has wrapped, as long as no hard flush has read past the end of the ring
\* (filters.cpp:432); what is kept back fits in it (filters.cpp:283 asserts it).
RingKeepsTheMessage ==
  /\ ~overread => BlocksAreTheInput
  /\ f.queue.size <= MaxSize(f.queue)

\* The lengths promised to the derived class (filters.h:177-191): firstSize
\* bytes, then whole blocks, and at the end what is said there, which a hard
\* flush takes from.
LengthsArePromised ==
  LET next == IF f.firstSize > 0 THEN Tail(given) ELSE given
  IN  /\ f.firstSize > 0 /\ given # <<>> => Len(given[1]) = f.firstSize
      /\ given # <<>> => \A i \in DOMAIN next : Len(next[i]) % f.blockSize = 0
      /\ last # NoLast /\ ~flushed =>
           CASE put < f.firstSize                -> Len(last) = put
             [] put >= f.firstSize /\ put <= f.firstSize + f.lastSize -> Len(last) = put - f.firstSize
             [] put > f.firstSize + f.lastSize   -> Len(last) \in f.lastSize .. f.lastSize + f.blockSize - 1
=============================================================================
