------------------------- MODULE MCSequentialParts --------------------------
(***************************************************************************)
(* The parts that one thread uses by themselves, each with small constants *)
(* for TLC.  They share no state, so a behaviour is that of one part, and  *)
(* the parts' variables take turns in x1, x2, ...; a slot that the part    *)
(* does not need keeps the value Unused.                                   *)
(***************************************************************************)
EXTENDS Integers, UsbWorlds

CONSTANT Unwritten   \* memory never written

VARIABLES part, x1, x2, x3, x4, x5, x6, x7, x8, x9, x10, x11, x12, x13, x14, x15

vars == <<part, x1, x2, x3, x4, x5, x6, x7, x8, x9, x10, x11, x12, x13, x14, x15>>

From6 == <<x6, x7, x8, x9, x10, x11, x12, x13, x14, x15>>
From7 == <<x7, x8, x9, x10, x11, x12, x13, x14, x15>>
From8 == <<x8, x9, x10, x11, x12, x13, x14, x15>>
From9 == <<x9, x10, x11, x12, x13, x14, x15>>

\* From slot k on, none is needed.
Unused == "unused"
Free9 ==
  /\ x9 = Unused
  /\ x10 = Unused
  /\ x11 = Unused
  /\ x12 = Unused
  /\ x13 = Unused
  /\ x14 = Unused
  /\ x15 = Unused
Free8 == x8 = Unused /\ Free9
Free7 == x7 = Unused /\ Free8
Free6 == x6 = Unused /\ Free7

-----------------------------------------------------------------------------
Identification == INSTANCE GetUsbIdentification
  WITH world <- x1, at <- x2, nDevIndex <- x3, held <- x4, lpPID <- x5,
       result <- x6,
       Worlds <- FoundWorlds, NoPID <- "none"

Drives == INSTANCE getRemovableDevice
  WITH present <- x1, removable <- x2, i <- x3, deviceName <- x4,
       done <- x5,
       Drives <- 6

Sha == INSTANCE Sha2
  WITH m_tot_len <- x1, m_len <- x2, m_block <- x3, m_h <- x4,
       digest <- x5, stage <- x6, sent <- x7, class <- x8,
       SHA224_256_BLOCK_SIZE <- 64, LengthBytes <- 8, WordMod <- 4096, MaxMessage <- 330,
       Lens <- {0, 1, 2, 55, 63, 64, 65, 111, 127, 128, 129, 200}

Md == INSTANCE MD5
  WITH count <- x1, buffer <- x2, state <- x3, finalized <- x4,
       digest <- x5, sent <- x6,
       WordMod <- 1024, Lens <- {0, 1, 55, 64, 65, 130}, MaxBytes <- 200

Queue == INSTANCE ByteQueue
  WITH nodes <- x1, m_nodeSize <- x2, m_autoNodeSize <- x3,
       m_lazyString <- x4, walker <- x5, call <- x6, out <- x7,
       Byte <- {0, 1}, NodeSizes <- {0, 1}, AutoNodeSize <- 1, s_maxAutoNodeSize <- 2,
       MaxPut <- 2, MaxBytes <- 3

Equality == INSTANCE EqualityComparisonFilter
  WITH m_q <- x1, m_mismatchDetected <- x2, m_throwIfNotEqual <- x3,
       output <- x4, sent <- x5,
       Byte <- {"a", "b"}, MaxPiece <- 2, MaxItems <- 4, MaxSeries <- 1

Buffered == INSTANCE FilterWithBufferedInput
  WITH f <- x1, put <- x2, given <- x3, last <- x4, flushed <- x5,
       overread <- x6,
       Garbage <- Unwritten, FirstSizes <- {0, 2}, BlockSizes <- 1 .. 3, LastSizes <- 0 .. 4, MaxMessage <- 8

Transformation == INSTANCE StreamTransformationFilter
  WITH m_cipher <- x1, m_padding <- x2, encryptor <- x3,
       decryptor <- x4, message <- x5, out <- x6, status <- x7,
       Garbage <- Unwritten, Byte <- {0, 1, 128}, BlockSizes <- {2, 3}, MaxPiece <- 3, MaxMessage <- 5

Modes == INSTANCE BlockModes
  WITH mode <- x1, m_feedbackSize <- x2, m_register <- x3,
       m_leftOver <- x4, message <- x5, ciphertext <- x6,
       decrypted <- x7, ended <- x8,
       BlockSize <- 3, FeedbackSizes <- 1 .. 3, MaxMessage <- 9

Additive == INSTANCE AdditiveCipher
  WITH policy <- x1, m_register <- x2, m_counterArray <- x3,
       m_buffer <- x4, m_leftOver <- x5, start <- x6, position <- x7,
       used <- x8,
       Base <- 3, BlockSize <- 2, IterationsToBuffer <- 2, IVs <- {0, 5},
       MaxLength <- 9, Positions <- {1, 4, 11, 17, 30}

Authenticated == INSTANCE AuthenticatedSymmetricCipher
  WITH scheme <- x1, forward <- x2, m_state <- x3, m_buffer <- x4,
       total <- x5, promised <- x6, auth <- x7, m_tags <- x8,
       m_ctr <- x9, tag <- x10, iv <- x11, header <- x12,
       message <- x13, keystream <- x14, trouble <- x15,
       IVs <- {"v1", "v2"}, HeaderBlock <- 2, MaxHeader <- 2, MaxMessageLength <- 3

ASSUME PartsAssumption ==
  /\ Identification!GetUsbIdentificationAssumption
  /\ Drives!DrivesAssumption
  /\ Sha!Sha2Assumption
  /\ Md!MD5Assumption
  /\ Queue!ByteQueueAssumption
  /\ Equality!EqualityAssumption
  /\ Buffered!FilterAssumption
  /\ Transformation!ByteAssumption
  /\ Modes!BlockModesAssumption
  /\ Additive!AdditiveCipherAssumption
  /\ Authenticated!AuthenticatedSymmetricCipherAssumption

-----------------------------------------------------------------------------
Init ==
  \/ part = "GetUsbIdentification" /\ Identification!Init /\ Free7
  \/ part = "getRemovableDevice" /\ Drives!Init /\ Free6
  \/ part = "Sha2" /\ Sha!Sha2Init /\ Free9
  \/ part = "MD5" /\ Md!Init /\ Free7
  \/ part = "ByteQueue" /\ Queue!Init /\ Free8
  \/ part = "EqualityComparisonFilter" /\ Equality!Init /\ Free6
  \/ part = "FilterWithBufferedInput" /\ Buffered!Init /\ Free7
  \/ part = "StreamTransformationFilter" /\ Transformation!Init /\ Free8
  \/ part = "BlockModes" /\ Modes!Init /\ Free9
  \/ part = "AdditiveCipher" /\ Additive!Init /\ Free9
  \/ part = "AuthenticatedSymmetricCipher" /\ Authenticated!Init

Next ==
  \/ part = "GetUsbIdentification" /\ Identification!Next /\ UNCHANGED <<part, From7>>
  \/ part = "getRemovableDevice" /\ Drives!Next /\ UNCHANGED <<part, From6>>
  \/ part = "Sha2" /\ Sha!Sha2Next /\ UNCHANGED <<part, From9>>
  \/ part = "MD5" /\ Md!Next /\ UNCHANGED <<part, From7>>
  \/ part = "ByteQueue" /\ Queue!Next /\ UNCHANGED <<part, From8>>
  \/ part = "EqualityComparisonFilter" /\ Equality!Next /\ UNCHANGED <<part, From6>>
  \/ part = "FilterWithBufferedInput" /\ Buffered!Next /\ UNCHANGED <<part, From7>>
  \/ part = "StreamTransformationFilter" /\ Transformation!Next /\ UNCHANGED <<part, From8>>
  \/ part = "BlockModes" /\ Modes!Next /\ UNCHANGED <<part, From9>>
  \/ part = "AdditiveCipher" /\ Additive!Next /\ UNCHANGED <<part, From9>>
  \/ part = "AuthenticatedSymmetricCipher" /\ Authenticated!Next /\ UNCHANGED part

\* The thread that called GetUsbIdentification keeps running; no other part is
\* promised anything.  Each step of the call changes x2, which says where it is.
IdentificationGoesOn ==
  part = "GetUsbIdentification" /\ Identification!Step /\ UNCHANGED <<part, From7>>

Spec == Init /\ [][Next]_vars /\ WF_x2(IdentificationGoesOn)

-----------------------------------------------------------------------------
\* The types of the parts; in a byte queue, free space is at the end of the
\* list only (ByteQueue), for otherwise bytes would be queued before older ones.
WellFormed ==
  /\ part = "GetUsbIdentification" => Identification!TypeOK
  /\ part = "getRemovableDevice" => Drives!TypeOK
  /\ part = "Sha2" => Sha!TypeInvariant
  /\ part = "MD5" => Md!TypeOK
  /\ part = "ByteQueue" => Queue!TypeOK /\ Queue!RoomAtTheTailOnly
  /\ part = "EqualityComparisonFilter" => Equality!TypeOK

\* GetUsbIdentification gives back what it took on every path that returns.
NothingLeaks == part = "GetUsbIdentification" => Identification!NothingLeaks

\* GetUsbIdentification hands out the identification of the drive's own device.
OnlyTheDrivesDevice == part = "GetUsbIdentification" => Identification!OnlyTheDrivesDevice

\* GetUsbIdentification finds a stick with a serial number, wherever it is.
Identifies ==
  part = "GetUsbIdentification" /\ Identification!CanIdentify
    ~> part = "GetUsbIdentification" /\ Identification!Identified

\* GetUsbIdentification returns, unless a device's details cannot be read.
Returns ==
  part = "GetUsbIdentification" /\ Identification!DetailsReadable
    ~> part = "GetUsbIdentification" /\ Identification!HasEnded

\* UsbIo::getRemovableDevice lists exactly the removable drives among others.
ListedAmongOthers == part = "getRemovableDevice" => Drives!ListedAmongOthers

\* SHA256 and SHA512 return the standard's digest, however the message is cut.
StandardDigest == part = "Sha2" => Sha!StandardDigest

\* An MD5 object is a digest object: the digest is the RFC's, and stays it.
ImplementsDigest ==
  /\ part = "MD5" => Md!Object!Init
  /\ [][part = "MD5" => [Md!Object!Next]_(Md!Object!vars)]_vars

\* IsEmpty, Spy and Get of a ByteQueue may look at its first node only.
FrontShows == part = "ByteQueue" => Queue!FrontShows

\* A Walker reads the front of its ByteQueue, nothing lost and nothing twice.
WalkerReadsTheFront == part = "ByteQueue" => Queue!WalkerReadsTheFront

\* A ByteQueue is a FIFO of bytes, whichever calls move them.
ImplementsFifo ==
  /\ part = "ByteQueue" => Queue!Fifo!Init
  /\ [][part = "ByteQueue" => [Queue!Fifo!Next]_(Queue!Fifo!vars)]_vars

\* The queue of the channel that is ahead holds what it is ahead by.
QueueIsTheLead == part = "EqualityComparisonFilter" => Equality!QueueIsTheLead

\* EqualityComparisonFilter tells whether both channels brought the same.
VerdictIsRight == part = "EqualityComparisonFilter" => Equality!VerdictIsRight

\* The ring of FilterWithBufferedInput loses and repeats nothing that is put,
\* unless a hard flush has read past its end.
RingKeepsTheMessage == part = "FilterWithBufferedInput" => Buffered!RingKeepsTheMessage

\* FirstPut, NextPut and LastPut are given the lengths they were promised.
LengthsArePromised == part = "FilterWithBufferedInput" => Buffered!LengthsArePromised

\* What StreamTransformationFilter pads, its counterpart unpads.
PaddingIsUndone == part = "StreamTransformationFilter" => Transformation!PaddingIsUndone

\* CFB, CBC and CTS give the ciphertext of their definitions.
CiphertextIsDefined == part = "BlockModes" => Modes!CiphertextIsDefined

\* The decryption of CFB, CBC and CTS gives the message back.
DecryptionUndoes == part = "BlockModes" => Modes!DecryptionUndoes

\* CTR and OFB use for every byte of the stream its own byte of keystream.
KeystreamInPlace == part = "AdditiveCipher" => Additive!KeystreamInPlace

\* CCM, GCM and EAX give out the tags of their definitions.
TagIsDefined == part = "AuthenticatedSymmetricCipher" => Authenticated!TagIsDefined

\* CCM, GCM and EAX use no byte of keystream twice.
KeystreamUsedOnce == part = "AuthenticatedSymmetricCipher" => Authenticated!KeystreamUsedOnce
=============================================================================
