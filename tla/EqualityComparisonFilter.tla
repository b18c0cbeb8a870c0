---------------------- MODULE EqualityComparisonFilter ----------------------
(***************************************************************************)
(* MessageQueue and EqualityComparisonFilter of cryptopp562/mqueue.cpp.    *)
(* The filter is fed on two channels, in pieces and in any interleaving,   *)
(* and tells whether both brought the same series of messages.             *)
(*                                                                         *)
(* A MessageQueue is its bytes (ByteQueue is the FIFO that the module      *)
(* ByteQueue shows it to be), the length of every message in it, the last  *)
(* one being still open, and a message count for every series.             *)
(***************************************************************************)
EXTENDS Integers, Sequences, SequencesExt, FiniteSets

CONSTANTS
  Byte,
  MaxPiece, MaxItems, MaxSeries   \* bounds: bytes of a call, items and series of a channel

VARIABLES
  m_q,                  \* the MessageQueue of either channel
  m_mismatchDetected,
  m_throwIfNotEqual,
  output,               \* what the filter has told: bytes to its attachment, or a throw
  sent                  \* history: what each channel brought, as a sequence of items

vars == <<m_q, m_mismatchDetected, m_throwIfNotEqual, output, sent>>

Channel == {0, 1}
End == "end of message"
SeriesEnd == "end of series"

EqualityAssumption ==
  /\ End \notin Byte /\ SeriesEnd \notin Byte
  /\ MaxPiece \in Nat

-----------------------------------------------------------------------------
\* MessageQueue.

Empty == [bytes |-> <<>>, lengths |-> <<0>>, counts |-> <<0>>]

MaxRetrievable(q) == q.lengths[1]
AnyRetrievable(q) == q.lengths[1] > 0
NumberOfMessages(q) == Len(q.lengths) - 1
AnyMessages(q) == NumberOfMessages(q) # 0
NumberOfMessageSeries(q) == Len(q.counts) - 1

Put(q, s) ==
  [q EXCEPT !.bytes = @ \o s, !.lengths[Len(q.lengths)] = @ + Len(s)]

\* Mutant: the next message goes on in the length of the one that has ended.
MessageEnd_SameLength(q) == [q EXCEPT !.counts[Len(q.counts)] = @ + 1]

MessageEnd(q) ==
  [q EXCEPT !.lengths = Append(@, 0), !.counts[Len(q.counts)] = @ + 1]

MessageSeriesEnd(q) == [q EXCEPT !.counts = Append(@, 0)]

\* TransferTo2 to the bit bucket, within the first message.
Skip(q, n) ==
  [q EXCEPT !.bytes = SubSeq(@, n + 1, Len(@)), !.lengths[1] = @ - n]

\* The first message is done with.  Its series is left only if no message was
\* ever counted in it: the count is never lowered.
GetNextMessage(q) ==
  [q EXCEPT !.lengths = Tail(@),
            !.counts = IF @[1] = 0 /\ Len(@) > 1 THEN Tail(@) ELSE @]

-----------------------------------------------------------------------------
Init ==
  /\ m_q = [i \in Channel |-> Empty]
  /\ m_mismatchDetected = FALSE
  /\ m_throwIfNotEqual \in BOOLEAN
  /\ output = <<>>
  /\ sent = [i \in Channel |-> <<>>]

\* The bytes found equal before the mismatch have been skipped: the queues are
\* not looked at again.
HandleMismatchDetected ==
  /\ m_mismatchDetected' = TRUE
  /\ output' = Append(output, IF m_throwIfNotEqual THEN "thrown" ELSE "0")
  /\ UNCHANGED <<m_q, m_throwIfNotEqual>>

Queues(i, q1, q2) ==
  /\ m_q' = [c \in Channel |-> IF c = i THEN q1 ELSE q2]
  /\ UNCHANGED <<m_mismatchDetected, m_throwIfNotEqual>>

\* The other channel has completed its message and it is shorter.
TooLong(q2, s) == AnyMessages(q2) /\ MaxRetrievable(q2) < Len(s)

EndsEarly(q2) == AnyRetrievable(q2)

\* The pieces of the loop that spies and skips together: as many bytes as both
\* have are compared.
Compared(q2, s) == IF MaxRetrievable(q2) < Len(s) THEN MaxRetrievable(q2) ELSE Len(s)

\* ChannelPut2 of the bytes s, with or without the end of a message.
ChannelPut2(i, s, messageEnd) ==
  LET q2   == m_q[1 - i]
      n    == Compared(q2, s)
      rest == Put(m_q[i], SubSeq(s, n + 1, Len(s)))
      left == Skip(q2, n)
  IN  IF \/ TooLong(q2, s)
         \/ SubSeq(s, 1, n) # SubSeq(q2.bytes, 1, n)
         \/ messageEnd /\ EndsEarly(left)
         \/ messageEnd /\ ~AnyMessages(left) /\ NumberOfMessageSeries(left) > 0
      THEN HandleMismatchDetected
      ELSE /\ CASE ~messageEnd       -> Queues(i, rest, left)
                [] messageEnd /\ AnyMessages(left)  -> Queues(i, rest, GetNextMessage(left))
                [] messageEnd /\ ~AnyMessages(left) -> Queues(i, MessageEnd(rest), left)
           /\ UNCHANGED output

\* Mutant: messages the other channel has sent are not looked at.
SeriesIsLonger_BytesOnly(q2) == AnyRetrievable(q2)

SeriesIsLonger(q2) == AnyRetrievable(q2) \/ AnyMessages(q2)

ChannelMessageSeriesEnd(i) ==
  LET q2 == m_q[1 - i]
  IN  CASE SeriesIsLonger(q2) -> HandleMismatchDetected
        [] ~SeriesIsLonger(q2) /\ NumberOfMessageSeries(q2) > 0 ->
             /\ output' = Append(output, "1")
             /\ Queues(i, m_q[i], q2)
        [] OTHER ->
             /\ Queues(i, MessageSeriesEnd(m_q[i]), q2)
             /\ UNCHANGED output

-----------------------------------------------------------------------------
\* The clients.  A series ends after the end of a message, or at once.

Series(i) == Cardinality({k \in DOMAIN sent[i] : sent[i][k] = SeriesEnd})

Sends(i, items) ==
  /\ ~m_mismatchDetected
  /\ Series(i) < MaxSeries
  /\ Len(sent[i]) + Len(items) <= MaxItems
  /\ sent' = [sent EXCEPT ![i] = @ \o items]

AtMessageEnd(i) == sent[i] # <<>> => Last(sent[i]) \notin Byte

\* Calls after a mismatch do nothing; clients that have sent what the bounds
\* allow stop.
Rests ==
  /\ m_mismatchDetected \/ \A i \in Channel : Series(i) = MaxSeries \/ Len(sent[i]) = MaxItems
  /\ UNCHANGED vars

Next ==
  \/ \E i \in Channel, s \in BoundedSeq(Byte, MaxPiece), messageEnd \in BOOLEAN :
       /\ Sends(i, s \o (IF messageEnd THEN <<End>> ELSE <<>>))
       /\ ChannelPut2(i, s, messageEnd)
  \/ \E i \in Channel :
       /\ AtMessageEnd(i) /\ Sends(i, <<SeriesEnd>>)
       /\ ChannelMessageSeriesEnd(i)
  \/ Rests

Spec == Init /\ [][Next]_vars

-----------------------------------------------------------------------------
TypeOK ==
  /\ \A i \in Channel :
       /\ m_q[i].bytes \in Seq(Byte)
       /\ m_q[i].lengths \in Seq(Nat) /\ m_q[i].lengths # <<>>
       /\ m_q[i].counts \in Seq(Nat) /\ m_q[i].counts # <<>>
       /\ sent[i] \in Seq(Byte \cup {End, SeriesEnd})
  /\ m_mismatchDetected \in BOOLEAN /\ m_throwIfNotEqual \in BOOLEAN
  /\ output \in Seq({"0", "1", "thrown"})

SameSoFar == IsPrefix(sent[0], sent[1]) \/ IsPrefix(sent[1], sent[0])

\* The items in a MessageQueue that has seen one series.
Items(q) ==
  LET start[k \in 0 .. Len(q.lengths)] == IF k = 0 THEN 0 ELSE start[k - 1] + q.lengths[k]
      message(k) == SubSeq(q.bytes, start[k - 1] + 1, start[k])
                    \o (IF k < Len(q.lengths) THEN <<End>> ELSE <<>>)
  IN  FlattenSeq([k \in DOMAIN q.lengths |-> message(k)])
      \o (IF NumberOfMessageSeries(q) > 0 THEN <<SeriesEnd>> ELSE <<>>)

\* As long as both channels agree, the queue of the one that is ahead holds what
\* it is ahead by, message ends included, and the other's is empty: the verdict
\* does not depend on who sends first or in which pieces (mqueue.cpp:84-162).
QueueIsTheLead ==
  SameSoFar /\ output = <<>> =>
    \A i \in Channel :
      Items(m_q[i]) = SubSeq(sent[i], Len(sent[1 - i]) + 1, Len(sent[i]))

\* No mismatch is told while both channels have brought the same data.  With
\* one series each this is part of the verdict; with more it fails, for a series
\* both have ended stays counted (mqueue.h:65, mqueue.cpp:37-38, 122-123).
MismatchIsReal == m_mismatchDetected => ~SameSoFar

\* A mismatch is told when the channels differ, and never otherwise; equality
\* when both have ended their series with the same messages.  A difference may
\* go unnoticed while a message is open (mqueue.h:71).
VerdictIsRight ==
  /\ MismatchIsReal
  /\ ~SameSoFar /\ (\A i \in Channel : AtMessageEnd(i)) => m_mismatchDetected
  /\ output # <<>> /\ ~m_mismatchDetected => sent[0] = sent[1]
  /\ sent[0] = sent[1] /\ sent[0] # <<>> /\ Last(sent[0]) = SeriesEnd => output # <<>>
=============================================================================
