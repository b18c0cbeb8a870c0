--------------------------- MODULE AdditiveCipher ---------------------------
(***************************************************************************)
(* AdditiveCipherTemplate of cryptopp562/strciphr.cpp over the policies of *)
(* counter mode (CTR) and output feedback (OFB) in modes.cpp: whichever    *)
(* calls use it, each byte of the stream gets its own byte of keystream.   *)
(*                                                                         *)
(* A block of keystream is known by what the cipher encrypted for it: in   *)
(* CTR the counter, a number whose digits are the bytes of the counter     *)
(* block, in OFB the number of times the IV has been encrypted.  A byte of *)
(* keystream is a block and an index in it.                                *)
(***************************************************************************)
EXTENDS Integers, Sequences, SequencesExt

CONSTANTS
  Base,                    \* the values of a byte, 256 in the code
  BlockSize,               \* GetBytesPerIteration
  IterationsToBuffer,      \* GetIterationsToBuffer
  IVs,                     \* the counters CTR is started with
  MaxLength, Positions     \* bounds: bytes of a call, arguments of Seek

AdditiveCipherAssumption ==
  /\ {Base, BlockSize, IterationsToBuffer} \subseteq Nat \ {0}
  /\ Positions \subseteq Nat

VARIABLES
  policy,            \* "CTR" or "OFB"
  m_register,        \* CTR: the IV; OFB: the last block
  m_counterArray,    \* CTR: digits, the most significant first
  m_buffer,          \* keystream bytes; those at its end are not yet used
  m_leftOver,
  start, position,   \* history: the IV's first block, and the bytes of stream since
  used               \* the keystream that the last call has used

vars == <<policy, m_register, m_counterArray, m_buffer, m_leftOver, start, position, used>>

Lower(a, b) == IF a < b THEN a ELSE b

Counters == Base ^ BlockSize

\* The number that digits stand for.
Number(digits) == FoldLeft(LAMBDA n, d : n * Base + d, 0, digits)

Digits(n) == [i \in 1 .. BlockSize |-> (n \div Base ^ (BlockSize - i)) % Base]

BufferByteSize == BlockSize * IterationsToBuffer

Bytes(blocks) == FlattenSeq([k \in DOMAIN blocks |-> [i \in 1 .. BlockSize |-> <<blocks[k], i>>]])

-----------------------------------------------------------------------------
\* The policies.  Each gives the next blocks of keystream and its new state.

\* Mutant: the last digit runs over into no other.
IncrementCounterBy256_Not(c) == c

\* The digits before the last one are incremented.
IncrementCounterBy256(c) ==
  LET n == (Number(SubSeq(c, 1, BlockSize - 1)) + 1) % (Counters \div Base)
  IN  Tail(Digits(n)) \o <<c[BlockSize]>>

\* AdvancedProcessBlocks counts in the last digit alone.
InBlockIsCounter(c, blocks) ==
  [k \in 1 .. blocks |-> Number([c EXCEPT ![BlockSize] = (@ + k - 1) % Base])]

\* OperateKeystream goes on to the end of the last digit, then carries.
RECURSIVE OperateKeystream(_, _)
OperateKeystream(c, iterations) ==
  IF iterations = 0 THEN [counter |-> c, blocks |-> <<>>]
  ELSE LET lsb    == c[BlockSize]
           n      == Lower(iterations, Base - lsb)
           next   == [c EXCEPT ![BlockSize] = (lsb + n) % Base]
           r      == OperateKeystream(IF next[BlockSize] = 0 THEN IncrementCounterBy256(next) ELSE next,
                                      iterations - n)
       IN  [counter |-> r.counter, blocks |-> InBlockIsCounter(c, n) \o r.blocks]

\* The state of the policy.
State == [register |-> m_register, counter |-> m_counterArray]

\* WriteKeystream; OFB encrypts its register again and again.
WriteKeystream(s, iterations) ==
  IF policy = "CTR"
    THEN LET r == OperateKeystream(s.counter, iterations)
         IN  [state |-> [s EXCEPT !.counter = r.counter], blocks |-> r.blocks]
    ELSE [state |-> [s EXCEPT !.register = @ + iterations],
          blocks |-> [k \in 1 .. iterations |-> s.register + k]]

\* SeekToIteration adds the count to the IV digit by digit, with the carry.
SeekToIteration(count) ==
  LET sum[i \in 1 .. BlockSize + 1] ==       \* from the last digit on
        IF i = BlockSize + 1 THEN [digits |-> <<>>, carry |-> 0]
        ELSE LET d == m_register[i] + ((count \div (Base ^ (BlockSize - i))) % Base) + sum[i + 1].carry
             IN  [digits |-> <<d % Base>> \o sum[i + 1].digits, carry |-> d \div Base]
  IN  sum[1].digits

-----------------------------------------------------------------------------
Init ==
  /\ policy \in {"CTR", "OFB"}
  /\ \E iv \in IVs :
       /\ start = IF policy = "CTR" THEN iv ELSE 1
       /\ m_register = IF policy = "CTR" THEN Digits(iv) ELSE 0
       /\ m_counterArray = Digits(iv)
  /\ m_buffer = [i \in 1 .. BufferByteSize |-> <<-1, i>>]
  /\ m_leftOver = 0 /\ position = 0 /\ used = <<>>

\* Keystream written to the end of the buffer.
AtEnd(bytes) == SubSeq(m_buffer, 1, BufferByteSize - Len(bytes)) \o bytes

LastOf(s, n) == SubSeq(s, Len(s) - n + 1, Len(s))

Becomes(s) == m_register' = s.register /\ m_counterArray' = s.counter

\* Mutant: the rest of the block that is cut short is thrown away.
LeftOver_None(size, length) == 0

LeftOver(size, length) == size - length

\* ProcessData and GenerateBlock: what is left of the last block; whole blocks;
\* and one more to take the last bytes from.  OFB writes ProcessData's blocks
\* into its buffer, as many as it holds at a time, and then as many as are needed.
Uses(n, wholeBlocks(_)) ==
  LET old    == Lower(m_leftOver, n)
      rest   == n - old
      whole  == wholeBlocks(rest)
      w      == WriteKeystream(State, whole)
      tail   == rest - whole * BlockSize
      blocks == (tail + BlockSize - 1) \div BlockSize
      t      == WriteKeystream(w.state, blocks)
      last   == Bytes(t.blocks)
  IN  /\ used' = SubSeq(LastOf(m_buffer, m_leftOver), 1, old) \o Bytes(w.blocks) \o SubSeq(last, 1, tail)
      /\ Becomes(t.state)
      /\ m_buffer' = AtEnd(last)
      /\ m_leftOver' = IF rest = 0 THEN m_leftOver - old ELSE LeftOver(Len(last), tail)
      /\ position' = position + n
      /\ UNCHANGED <<policy, start>>

GenerateBlock(n) == Uses(n, LAMBDA rest : rest \div BlockSize)

\* CTR operates on the data; what OFB does with its buffer in between is lost in
\* what it writes there last.
ProcessData(n) ==
  Uses(n, LAMBDA rest : IF policy = "CTR" THEN rest \div BlockSize
                        ELSE (rest \div BufferByteSize) * IterationsToBuffer)

\* Only a random access policy can seek.
Seek(p) ==
  LET s == [State EXCEPT !.counter = SeekToIteration(p \div BlockSize)]
      w == WriteKeystream(s, 1)
  IN  /\ policy = "CTR"
      /\ IF p % BlockSize > 0
           THEN /\ Becomes(w.state)
                /\ m_buffer' = AtEnd(Bytes(w.blocks))
                /\ m_leftOver' = BlockSize - (p % BlockSize)
           ELSE /\ Becomes(s)
                /\ m_leftOver' = 0
                /\ UNCHANGED m_buffer
      /\ position' = p /\ used' = <<>>
      /\ UNCHANGED <<policy, start>>

Resynchronize(iv) ==
  /\ m_leftOver' = 0
  /\ m_buffer' = [i \in 1 .. BufferByteSize |-> <<-1, i>>]
  /\ IF policy = "CTR"
       THEN start' = iv /\ m_register' = Digits(iv) /\ m_counterArray' = Digits(iv)
       ELSE m_register' = 0 /\ UNCHANGED <<start, m_counterArray>>
  /\ position' = 0 /\ used' = <<>>
  /\ UNCHANGED policy

MaxPosition == 2 * BlockSize * Counters

Next ==
  \/ \E n \in 1 .. MaxLength : position + n <= MaxPosition /\ (ProcessData(n) \/ GenerateBlock(n))
  \/ \E p \in Positions : Seek(p)
  \/ \E iv \in IVs : Resynchronize(iv)

Spec == Init /\ [][Next]_vars

-----------------------------------------------------------------------------
\* The byte of keystream that belongs to position p of the stream.
Keystream(p) ==
  LET n == start + p \div BlockSize
  IN  <<IF policy = "CTR" THEN n % Counters ELSE n, (p % BlockSize) + 1>>

\* Each byte of the stream has its own byte of the keystream, in whatever pieces
\* it is processed, after whatever seeks, and when the counter runs over; so have
\* the bytes waiting in the buffer (strciphr.cpp:28-150, modes.cpp:77-128).
KeystreamInPlace ==
  /\ used = [i \in 1 .. Len(used) |-> Keystream(position - Len(used) + i - 1)]
  /\ LastOf(m_buffer, m_leftOver) = [i \in 1 .. m_leftOver |-> Keystream(position + i - 1)]
=============================================================================
