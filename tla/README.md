# A TLA+ model of uSecurity

uSecurity turns a USB stick into a *UKey*: a 512-byte key and a 32-byte
checksum, stored in two unused sectors of the stick, found through five bytes
at the end of sector 1. The library talks to the stick through a Windows
volume handle, identifies the stick through the registry and the USB device
list, and carries the hash functions MD5, SHA256 and SHA512. The repository
also holds the Crypto++ 5.6.2 library, whose queues, filters, modes of
operation and network filters have control of their own.

This directory holds the TLA+ modules that model it, the TLC configurations
that check them, and TLAPS proofs about them. `PROJECT.json`
lists the runs, the source lines every definition stands for, the hazards and
the findings.

## 1. The system

| component | state it keeps | operations | talks to |
|---|---|---|---|
| `UsbIo` sector transfers (UsbIo.cpp:49-316) | the volume handle; during a call a heap buffer and the volume lock | `OpenDevice`, two `readFileForUsb`, two `writeFileForUsb`, destructor | Windows: `CreateFile`, `FSCTL_(UN)LOCK_VOLUME`, `ReadFile`, `WriteFile` |
| `UsbIo::getRemovableDevice` (24-47) | `deviceName` | one loop over the drive mask | `GetLogicalDrives`, `GetDriveType` |
| `usbModel` | `sector_Key`, `sector_CheckSum` (a cache of the mark), a `UsbIo` | `createUKey`, `deleteUkey`, `is_UKey`, `getKey`, `getCheckSum`, `getUsbId`, private `findNullSector` | `UsbIo`, `GetUsbIdentification` |
| `GetUsbIdentification` | none between calls; in a call a registry key, a device list, four buffers | one function | registry, SetupDi API |
| `SHA256`, `SHA512` | `m_tot_len`, `m_len`, `m_block`, `m_h` | `init`, `update`, `final` | nobody |
| `MD5` | `count`, `buffer`, `state`, `finalized`, `digest` | `update`, `finalize`, `hexdigest` | nobody |
| Crypto++ `ByteQueue` (queue.cpp) | a list of arrays, a lazy string; a `Walker`'s place in it | put, get, transfer, unget, lazy puts, put space, spy, walk, copy | filters and message queues keep their bytes in it |
| Crypto++ `EqualityComparisonFilter` (mqueue.cpp) | two `MessageQueue`s, a verdict | put, message end and series end on two channels | `ByteQueue` |
| Crypto++ `FilterWithBufferedInput` (filters.cpp:236-434) | a ring of blocks, whether the first part is out | put, message end, flush | a derived filter's `FirstPut`, `NextPut`, `LastPut` |
| Crypto++ `StreamTransformationFilter` (filters.cpp:543-711) | the above, a cipher, a padding scheme | put, message end | a cipher; the next filter |
| Crypto++ modes (modes.cpp, strciphr.cpp) | register or counter, left-over keystream | process, process the last block, seek, resynchronize | a block cipher |
| Crypto++ CCM, GCM, EAX (authenc.cpp and three more) | a state, a partial block, lengths, the MAC | set key, resynchronize, restart, specify lengths, update, process, final | counter mode, a MAC |
| Crypto++ network filters (network.cpp, socketft.cpp, winpipes.cpp) | a receive buffer and its limits; a queue to send, the state of its end | pump, put, flush | sockets or pipes; each other |
| `Byte2HexTable`, `usbmodel_example`, `usbiodef.h`, the rest of `cryptopp562` | – | – | not modelled, see section 8 |

**How the parts interact.** A `usbModel` call is a sequence of `UsbIo` calls.
A read locks the volume, transfers whole sectors, copies, unlocks. A write
takes *no* lock: it reads whole sectors, lays the bytes over them, writes them
back and unlocks what it never locked. Two programs meet only at the volume:
its lock, and its sectors. The `usbModel` object and the stick share the two
sector numbers: the object caches what the mark says. In Crypto++ a filter calls
the next one directly; a call that does not block may be refused and must be
made again with the same parameters (cryptlib.h:756-763), and waiting is for
receivers and senders only.

**What is hard.**

* *Interleaving.* Each `usbModel` operation is several `UsbIo` calls, and each
  `UsbIo` write is a read and a write. Another program may act between any two
  of them, and the volume lock refuses transfers rather than delaying them.
* *Failures that nobody looks at.* The results of `ReadFile` and `WriteFile`
  are ignored; both transfer functions return the length of a copy loop.
* *Crashes and unplugging* between the writes of a create or a delete.
* *A cache* that outlives what it caches.
* *Loops* that end on one of several paths (scan, device list).
* *Boundaries.* One sector more than needed is transferred; sector numbers are
  stored in a byte; padding needs one block or two; counters overflow; rings
  wrap; keystream is left over.
* *Pieces.* A message may be cut anywhere, and every object that takes one in
  pieces keeps the remainder somewhere.
* *Timeouts and retries.* A relay's receive may be pending when its pump gives
  up, and a put that was refused has taken its bytes already.

**What makes each component correct.**

* `UsbIo`: a write changes only its own bytes; a read that succeeds gives what
  is on the stick; the lock is given back; the returned length is true.
* `usbModel`: the mark points to two sectors of its own; it appears after its
  contents; foreign data and the boot sector survive; a reported success is
  one; what a get returns is what is stored; every call returns.
* `GetUsbIdentification`: the search ends, finds the stick, never names another
  device, leaks nothing.
* Hashes: the digest is that of the whole message, however it was divided.
* Crypto++ queues and filters: bytes leave once and in order, in parts of the
  promised lengths, and what is padded is unpadded.
* Modes: the ciphertext is that of the mode's definition, decryption undoes it,
  no byte of keystream is used twice, the tag is that of header and message.
* Network filters: what arrives at one peer is what the other sent, with its
  end behind it, and it does arrive.

## 2. Modules

| module | models | notes |
|---|---|---|
| `Sector` | the 512 bytes of a sector, byte ranges of requests | six parts between the boundaries the code uses |
| `UsbIo` | the transfers, the volume, the lock, failures | actions without a next-state relation |
| `UsbIoCalls` | programs that use `UsbIo` directly | composes `UsbIo` |
| `usbModel` | every UKey operation | composes `UsbIo` |
| `UKeyStore` | abstract: a store holding nothing, or a key with its checksum | |
| `usbModelProperties` | the properties, the inductive invariant, the refinement mapping to `UKeyStore` | |
| `usbModel_proofs`, `UsbIoCalls_proofs`, `sha256_proofs`, `Network_proofs`, `AuthenticatedSymmetricCipher_proofs`, `ByteQueue_proofs`, `FilterWithBufferedInput_proofs` | theorems and proofs about the module they are named after; the second also about `GetUsbIdentification` and `getRemovableDevice`, the third about `MD5`, the sixth about `EqualityComparisonFilter`, which they instantiate | section 6 |
| `CommonLemmas` | division, least numbers, sequences of sequences | what those proofs share |
| `GetUsbIdentification` | one identification call | |
| `UsbWorlds` | what an identification call may find | data for TLC |
| `getRemovableDevice` | one scan of the drive mask | |
| `Octets` | bytes and padding as the hash modules see them | |
| `MessageDigest` | abstract: feed a message, get its digest | implemented by `MD5` |
| `sha256`, `sha512`, `MD5` | the hash objects | `sha512` instantiates `sha256`: the sources are copies |
| `Sha2` | an object of either SHA class | composes `sha256` and `sha512` |
| `ByteFifo` | abstract: a queue of bytes | implemented by `ByteQueue` |
| `ByteQueue` | the byte queue and its `Walker` | |
| `EqualityComparisonFilter` | the comparison, with the calls of `MessageQueue` it makes | |
| `BlockQueue` | the ring, and the cutting of a message | operators that two modules use |
| `FilterWithBufferedInput` | a filter that records what it is given | uses `BlockQueue` |
| `StreamTransformationFilter` | an encryptor attached to a decryptor | composes two filters over `BlockQueue` |
| `BlockModes` | CFB, CBC, CBC-CTS: an object that encrypts and one that decrypts | |
| `AdditiveCipher` | OFB and CTR | |
| `AuthenticatedSymmetricCipher` | CCM, GCM, EAX | |
| `Network` | source, sink, receiver, sender and the thread that calls | composes a `NetworkSource` and a `NetworkSink` |
| `MCSequentialParts` | one run of all the parts that one thread uses by themselves | instantiates them |
| other `MC*` | finite instances for TLC | |

### How state and actions correspond to the code

*Sectors.* `usbModel` touches a sector only at the offsets 0, 32, 507, 508,
509 and 510, so a block is a function from six parts to small values. `Seek`
and `At` are the two overloads: they turn their arguments into a first sector,
an offset and a length. `Seek` counts from the beginning of the volume and stays
below 2 GB, as all its uses in the repository do; `SeekFrom` in `UsbIoCalls` has
the move method and the two halves of the distance as well. A write moves twice:
`from` is where it reads (UsbIo.cpp:196, without method and high half), `sector`
where it writes (line 221). `Span` is the expression `number`, which is one sector
too many whenever the bytes end at a sector boundary; that sector is read and
written back as in the code.

*A `UsbIo` call* is two steps: up to the return of the first `ReadFile`
(`io[p] = "loaded"`, the heap buffer in `buf[p]`), and from there to the
return. Failing calls end in the first step. The file pointer is not kept: each
call moves it before it transfers, and where the move is refused it may
stand anywhere (`PreRead`). Locking and the `ReadFile` after
it are one step because no other handle reaches a locked volume. A failed
`ReadFile` leaves one of `UninitBlocks` in the buffer.

*A `usbModel` operation* is at one of its `UsbIo` calls; `pc[p]` names it
(`"create.sum"` is line 57). The step that ends a `UsbIo` call also runs the
code to the next one: it tests the bytes, assigns the cache, moves the scan or
returns. `is_UKey` appears under five labels, one per caller. `answer` is what
the step returned to a client, and nothing otherwise.

*Identification.* One step per call of the Windows API, up to the next.
`world` is what the call finds: whether the drive is removable, the registry
value, the device list. `held` is the set of resources taken and not given back.

*Hash objects.* The code copies message bytes and never branches on them, so
byte i of a message is the symbol i. The chaining value is the list of blocks
it has absorbed: equal lists stand for equal values, and nothing is assumed of
the compression function. `init` marks what it leaves in `m_block` as garbage,
so that a stale byte of an earlier message is never taken for one of the next.

*Byte queue.* `nodes` is the linked list: an array's size, the bytes taken from
its front, the bytes in it. One action per public call; `call` and `out` are
what the call was and what it handed over, which is all `ByteFifo` sees. A call
that changes the list leaves a `Walker` with dangling pointers, and ends it.

*Filters.* The operators of `BlockQueue` are `PutMaybeModifiable` from its top to
its bottom: a filter `f` with the ring `f.queue` goes to a new `f` and the
list of strings it has given to `FirstPut` and `NextPut`. The bytes of a
message are its positions, except where padding looks at values. `ForceNextPut`
takes the two arguments of filters.cpp:432 in either order, since C++ leaves it open.

*Modes.* A block cipher is any permutation of blocks: `E(b)` is a symbol and
`D(E(b)) = b`. Xor is the symmetric difference of sets of symbols, so that
masks cancel when they are the same and only then. `ciphertext` is compared with
the definition of the mode, `decrypted` with the message. With ciphertext
stealing the definition is CBC of the message filled up with zeros, the last two
blocks exchanged and the short one cut (`CtsDefined`); a message of one block or
less steals from the IV, and the stolen IV is compared too.

*Authenticated modes.* Subclass functions are operators with one case per scheme.
`auth` is the sequence of blocks the MAC has absorbed, as for the hashes.
`iv`, `header`, `message`, `keystream` record what the user did, and `trouble`
whether a call was refused or a message given up.

*Network.* `pc` is where the calling thread is; a step runs to the next place
where the code waits, loops or calls another object. `put` and `flush` are the
arguments of the sink's calls in progress with the place to go back to. The
peers are `stream`, of which `todo` is still to come, and `wire`. A receive or a
send may end at once or stay pending, and moves any part of what it could;
`m_resultPending` is what the receiver keeps of that, `m_waitingForResult` what
the source believes.

### External behaviour that is assumed

The volume is modelled from how the code uses it: `FSCTL_LOCK_VOLUME` fails
when any handle holds the lock; a transfer through another handle than the
lock's fails; unlocking without holding the lock fails without effect; closing
a handle gives up its lock; unplugging makes open handles invalid and
re-plugging needs a new `CreateFile`; a `WriteFile` is atomic per sector, and a
torn one transfers the first sector. `UndoReturns` in `usbModel` says what a
build may do with the null pointer of usbModel.cpp:86. Sockets and pipes
transfer some but not always all of what they are asked to, in order; errors,
which throw, are not modelled.

## 3. Runs

`tlc -workers 2 -config <run>.cfg <module>.tla`, about five minutes in all.

| run | question | distinct states |
|---|---|---|
| `solo_store` | one program: do the sectors implement `UKeyStore`; is the cache coherent; do gets give what is stored | 5 900 |
| `solo_faults` | one program, nearly every failure: types; does foreign data survive; does every operation return | 19 700 |
| `pair_faults` | two programs: mark, boot sector, reported success, lock; the inductive invariant | 728 000 |
| `io_calls` | two `UsbIo` objects: what reads return; what the writes of one that is alone change | 160 100 |
| `network` | a relay over three kinds of connection: order, loss, repetition, bounds, assertions, delivery | 126 900 |
| `sequential_parts` | eleven parts, each by itself: the questions of section 1 about identification, drives, hashes, queues, filters and modes | 133 500 |

The parts in `sequential_parts` share no state, so a behaviour of the run is a
behaviour of one part, which `part` names; the properties of the part apply to
it alone. The number of states is the sum over the parts, as in separate runs.

### What the passing runs show, and under which failures

A property is claimed for an environment in which the code keeps it; the
environment is the constant `Faults` of the configuration (for identification,
the `fails` of a world).

* `MarkSane`, `BootSectorKept`, `IInv`: two programs, with refused locks,
  transfers that fail or tear, and crashes. The proofs of section 6 extend them
  to every failure and any number of programs.
* `SuccessIsVerified`: the same. It says that the mark was on the stick at that
  moment, not that the key was (known limits below).
* `LockFreeBetweenCalls`: not with failing unlocks (UsbIo.cpp:98,167) or failing
  allocations (128-133), which do leave the volume locked.
* `ForeignDataKept`, `AloneWritesOnlyItsBytes`: one program and a working
  `ReadFile`. The second is about writes that read where they write, by sector
  number or from the beginning below 2 GB; the calls around them are of any kind
  (`io_calls` has a position counted from the end). A failed `ReadFile`, or a
  second program that holds the lock at that moment, does destroy neighbouring
  bytes (run `io_race`).
* `ReadsWhatIsThere`: two programs, every failure but those of `ReadFile` and
  of memory.
* `ImplementsStore`, `CacheCoherent`, `GetsWhatIsStored`: one program, with
  crashes, torn writes, unplugging, failed opens and failed unlocks. With a
  refused lock (`locked_check`) or a failed write the code breaks them.
* `CallsReturn`: failing locks, unlocks, writes, opens and allocations, torn
  writes, unplugging and crashes.
* `NothingLeaks`, `OnlyTheDrivesDevice`: every failure. (A throwing `new`
  leaves the call without releasing anything: line 58 is not a returning path.)
  `Identifies`: when nothing fails. `Returns`: unless the details of a device
  cannot be read.
* `ListedAmongOthers`: two drives or more.
* `StandardDigest`: messages shorter than 2^29 bytes.
* `ImplementsFifo`, `FrontShows`, `WalkerReadsTheFront`: every order of calls. A
  blocked target may refuse a transfer or a walk at any byte.
* `QueueIsTheLead`, `VerdictIsRight`: one message series, in every interleaving of
  the two channels (more than one: known limits).
* `RingKeepsTheMessage`, `LengthsArePromised`: every first, block and last size
  within the bounds, every division, with flushes between puts. The bytes are
  claimed until a hard flush reads past the end of the ring, which only one order
  of two arguments does (filters.cpp:432, known limits).
* `PaddingIsUndone`: messages the scheme can encrypt; for the others, that it is
  told. Zeros added by ZEROS padding stay, as documented.
* `CiphertextIsDefined`, `DecryptionUndoes`, `KeystreamInPlace`: every division of
  a message that the mode permits, seeks to positions around every boundary.
  `CiphertextIsDefined` compares every byte, the stolen ones included.
* `TagIsDefined`: no call has thrown and no message was given up before; with
  either, `RestartDiscards` fails in EAX and a refused `ProcessData` keeps its
  count (known limits). `KeystreamUsedOnce`: no message was given up, since EAX
  derives its counter from the MAC.
* `WireIsPrefix`, `AssertionsHold`, `EofIsLast`, `BufferBounded`: every timeout,
  partial transfer and repeated call, by a relay or by a client of the sink.
  `BufferBounded` counts the bytes of a refused put on top of the bound: the sink
  has queued them and skips them when the put is made again. `AssertionsHold`
  has the assertions of network.cpp and of receivers and senders: what is pending
  is never received or sent a second time.
  `Delivered`: streams that are not empty.

### Findings: what the code does against its own comments

Each is a run that TLC must find violated.

| run | what happens |
|---|---|
| `io_race` | **Two programs, no failure at all**: program A reads (and so has the lock), B's write has its `ReadFile` refused, A unlocks, B's `WriteFile` stores uninitialised heap memory around B's bytes |
| `stale_get` | after `deleteUkey`, `getKey` of the same object returns true with zeros |
| `locked_check` | a stick that could not be locked counts as "no UKey": after a first UKey in sectors 2 and 3, a `createUKey` whose check is refused the lock finds 4 and 5 free, writes a second UKey there and redirects the mark |
| `lost_create` | **Two programs, no failure at all**: while another program asks `is_UKey` and has the lock, the key and the checksum are not written; the mark is, and `createUKey` reports success on a stick with zeros |
| `eax_restart` | an EAX message that is given up stays in the MAC: counter IV and tag of the next message are wrong |
| `usb_unidentified` | a stick without a serial number: returns true, buffer untouched |

### Known limits

Seen while modelling; the models have them, and they are why the properties
above name their environments or carry a precondition.

* Both transfer functions return the length of their copy loop, also when
  `ReadFile` or `WriteFile` failed (UsbIo.cpp:103,174,234,292). Hence
  `createUKey` can report success without the key on the stick: it reads back
  the mark only (usbModel.cpp:56,67).
* A write by distance reads its sectors at the low half of the distance from the
  beginning, whatever the method and the high half (UsbIo.cpp:196). From the
  end, behind 4 GB, or behind 2 GB where the low half is negative, they are not the
  sectors it writes: a lone program then stores, around its bytes, what another
  place of the stick holds, without any failure. The models do the same;
  `AloneWritesOnlyItsBytes` and its theorem leave such writes out, and without
  the conjunct `ReadWhereWritten` TLC finds `io_calls` violated. Of `SetFilePointer`, the models leave out
  FILE_CURRENT, which UsbIo.h does not name, that it stores the new high half in
  `*DistanceToMoveHigh`, and a negative low half that is no multiple of 512. Ranges
  lie on the volume.
* The scan takes a sector whose byte 511 alone is in use for null
  (usbModel.cpp:133).
* A device whose details cannot be read keeps `GetUsbIdentification` in its
  loop: the index advances only when they can (GetUsbIdentification.cpp:159).
* A removable drive that is the only drive is not listed (UsbIo.cpp:33).
* SHA: the length in bits is an unsigned int, so messages of 2^29 bytes and
  more get a wrong length (sha256.cpp:106, sha512.cpp:130).
* MD5: `finalize` clears `buffer` and `count` but not the chaining value,
  whatever its comment says of zeroizing the context (MD5.cpp:296-297,322).
* MD5: `i + blocksize` in the loop of `update` is an unsigned int and wraps for a
  piece within a block of 2^32 bytes; the loop then never ends (MD5.cpp:274).
  `MD5Assumption` has shorter pieces only.
* `ByteQueue::IsolatedInitialize` stores a `NodeSize` of 0 as it is (queue.cpp:184),
  where `SetNodeSize` takes it for automatic sizes. If sizes were automatic
  before, the doubling in `Put2` never ends (228-232). `Clear` has sizes above 0.
* A hard flush of single bytes depends on the order in which a compiler evaluates two
  arguments (filters.cpp:432). `GetContigousBlocks(len)` lowers `len` to what lies in a
  row; with `len` evaluated before it, the call gets the length of the whole ring
  and, of a ring that has wrapped, bytes from behind it, and then the wrapped ones
  again. The model takes either order. After an over-read, `RingKeepsTheMessage` claims
  the bound of the ring only. That a derived class may write to the bytes behind
  the ring, which `NextPutModifiable` permits, is not modelled.
* A failed allocation in the read by distance is swallowed and the read goes on
  with an uninitialised pointer; in the read by sector it returns with the
  volume locked (UsbIo.cpp:62-70,118-133).
* `Walker::m_position` does not count the bytes read from the lazy string, so
  that `MaxRetrievable` of a Walker that is at the end is not 0 (queue.cpp:536-546).
* `EqualityComparisonFilter` reports a mismatch of equal inputs when a channel is
  a series ahead: taking messages never lowers the count of series of its
  queue (mqueue.cpp:32-43,150), and `MessageQueue::swap` forgets the message
  counts (59-63).
* A Windows socket never reports the end of a stream in which nothing was
  sent: `EofSent` asks for the result of the last send (socketft.cpp:439-452,
  network.cpp:534-542), and the wait of the flush ends with its time at best.
* `AuthenticatedSymmetricCipherBase::ProcessData` counts its bytes before it
  checks anything, so that a call that throws changes the length that is
  authenticated later (authenc.cpp:106).

## 4. Bounds, and why they are enough

* *Sticks*: six sectors, 2 to 4 scanned (`ScanEnd` = 5 for 256). Three scanned
  sectors allow: all free, first or second used, one free only. The
  initial sticks of `MC_Sticks` are those, a stick without a boot signature and
  a stick that is a UKey already. Two programs use five sectors and scan two.
  `locked_check` has a sector more, room for two UKeys, and a BYTE of six values.
* *Requests* of `io_calls`: the end of a sector, a checksum, and 32 bytes counted
  from the end of the volume, where a write reads other sectors than it writes.
* *Bytes*: five values: zero, the mark or signature, a second key, the key and
  checksum, foreign data. `UninitBlocks` holds one block that is none of these.
  `usbModelAssumption` excludes an uninitialised buffer that looks like a mark.
* *Failures*: `pair_faults` injects those that change what is written
  or who gets the lock (`lock`, `read`, `write`, `torn`, `crash`). With unplugging
  it takes minutes and shows nothing new; the proofs cover every failure.
* *Clients*: one or two. Two programs are enough for every pairwise
  interleaving at the lock and at sector 1; the proofs hold for any number.
* *Identification*: up to three devices in any order.
* *Drives*: six letters instead of 26.
* *Hashes*: block sizes are the real ones (64, 128, 64). Pieces have lengths at
  and around every boundary, and one-byte pieces reach every total length.
  Messages end at 330 bytes (SHA) and 200 bytes (MD5): three to six blocks. SHA
  words have 12 bits: the length in bits does not overflow (a precondition of
  `StandardDigest`). MD5 words have 1024 values, so that a carry into `count[1]`
  happens at 128 bytes; the proofs cover 2^32 and messages of any length.
* `SYMMETRY` is used for safety runs of two clients only: no constant or
  definition names a client.

* *Byte queue*: two byte values, strings of up to two bytes, three bytes queued,
  nodes of one byte and automatic sizes one and two: lists of several nodes,
  partly taken at the front, with and without free space and lazy string.
* *Equality filter*: up to four pieces, ends of messages and of series per
  channel, pieces of up to two bytes.
* *Buffered input*: first sizes 0 and 2, block sizes 1 to 3, last sizes 0 to 4,
  eight bytes: more than the ring holds, so that it wraps.
* *Padding*: blocks of two and three bytes, the byte values the schemes look
  for, messages of up to five bytes: none, one and two blocks, and in between.
* *Modes*: blocks of three bytes, each feedback size, nine bytes; for CTR and OFB
  blocks of two bytes, buffers of two blocks, and counter digits in base 3
  instead of 256, with an IV next to the carry.
* *Authenticated modes*: two IVs, authentication blocks of two bytes, two bytes
  of header and three of message, one more than the longest permitted: partial
  blocks on both sides of every boundary, three messages in a row.
* *Network*: a stream of three bytes and the empty one, a receive buffer of three,
  queue bounds 0 and 1, every kind of pump, put and flush. Three bytes
  are as many as the receive buffer holds and more than a queue may, so that each
  of them fills up and blocks.

Deadlock checking is on in every run: a program can always call again, and an
operation can always go on.

## 5. Fairness

`FairSpec` of `usbModel` assumes weak fairness of `Advance(p)`: a thread inside
an operation keeps running. Nothing is assumed of programs starting
operations, of failures, or of the lock becoming free: the code never waits
for the lock, a refused lock is a failed read. `FairSpec` of
`GetUsbIdentification` assumes the same of the calling thread; in
`sequential_parts` it is `WF_x2(IdentificationGoesOn)`, where `x2` is the place in
the call, which each of its steps changes.

`Network` assumes that the thread in a call goes on (weak fairness of `Runs`),
that the peers do (strong fairness of each receive and send, because timeouts
disable them again and again: a connection that works delivers in the end), and
that the client keeps pumping, puts what is left and repeats what was
refused (strong fairness of `Goes`). Without the last two nothing need ever
arrive: the code starts no thread of its own.

## 6. Proofs

`tlapm <module>.tla`, about a quarter of an hour in all. A theorem holds for every value
of the constants that satisfies the assumptions of its module, which TLC
evaluates in the runs; hypotheses beyond those are in the last column.

| module | theorem | statement | for |
|---|---|---|---|
| `usbModel_proofs` | `InvariantHolds` | `Spec => []IInv` | any number of programs, every failure |
| | `TypeCorrect` | `Spec => []TypeOK` | the same |
| | `MarkIsSane` | `Spec => []MarkSane` | the same |
| | `BootSectorSafe` | `Spec => BootSectorKept` | the same |
| | `TheHolderIsCurrent` | `Spec => []LockInv` | any number of programs, every failure |
| | `SuccessIsTrue` | `Spec => SuccessIsVerified` | the same |
| | `LocksAreGivenUp` | `Spec => []LockFreeBetweenCalls` | no failing unlocks and allocations |
| | `ForeignDataIsKept` | `Spec => ForeignDataKept` | one program, a working `ReadFile`, `NothingHidden` |
| | `TheCacheIsCoherent` | `Spec => []CacheCoherent` | one program, `ReadsWork` |
| | `GetsAreTrue` | `Spec => GetsWhatIsStored` | one program, `ReadsWork` |
| | `TheStoreIsImplemented` | `Spec => ImplementsStore` | one program, `ReadsWork`, no failing `WriteFile`, `UKeysAreKnown` |
| `UsbIoCalls_proofs` | `TypeCorrect` | `Spec => []TypeOK` | any number of clients, every failure |
| | `ReadsAreTrue` | `Spec => ReadsWhatIsThere` | a working `ReadFile` and memory |
| | `LoneWritesKeepToTheirBytes` | `Spec => AloneWritesOnlyItsBytes` | a working `ReadFile`; about writes that read where they write |
| | `SearchInvHolds` | `Id!Spec => []SearchInv` | every list of devices, every failure |
| | `NothingIsLeaked` | `Id!Spec => []Id!NothingLeaks` | the same |
| | `TheDeviceIsTheDrives` | `Id!Spec => []Id!OnlyTheDrivesDevice` | the same |
| | `TheDrivesAreListed` | `Dr!Spec => []Dr!ListedAmongOthers` | any number of drive letters |
| `Network_proofs` | `InvariantHolds` | `Spec => []IInv` | every stream, buffer, bound, kind of connection |
| | `TheWireIsAPrefix` | `Spec => []WireIsPrefix` | the same |
| | `NoAssertionFails` | `Spec => []AssertionsHold` | the same |
| | `TheEndIsLast` | `Spec => []EofIsLast` | the same |
| | `TheQueueIsBounded` | `Spec => []BufferBounded` | the same |
| `sha256_proofs` | `InvariantHolds` | `Spec => []IInv` | any block size, length field, word and pieces |
| | `TheStreamIsTheMessage` | `Spec => []StreamIsMessage` | the same |
| | `TheDigestIsStandard` | `Spec => []DigestIsStandard` | the same |
| | `MdInvariantHolds` | `Md!Spec => []MdIInv` | any word; pieces at which the loop's guard does not wrap |
| | `TheDigestIsImplemented` | `Md!Spec => Md!ImplementsDigest` | the same |
| `AuthenticatedSymmetricCipher_proofs` | `InvariantHolds` | `Spec => []Inv` | CCM, GCM and EAX, any block size, messages cut in any way, every refused call |
| | `NoKeystreamTwice` | `Spec => []KeystreamUsedOnce` | the same; the property is about messages none of which was given up half-way |
| | `TagsAreDefined` | `Spec => []TagIsDefined` | the same; about messages whose bytes were all taken |
| `ByteQueue_proofs` | `InvHolds` | `Spec => []Inv` | any sizes of nodes and strings, every sequence of calls |
| | `RoomIsAtTheTail` | `Spec => [](TypeOK /\ RoomAtTheTailOnly)` | the same |
| | `FrontShowsHolds` | `Spec => []FrontShows` | the same |
| | `WalkerReads` | `Spec => []WalkerReadsTheFront` | the same |
| | `QueueIsFifo` | `Spec => ImplementsFifo` | the same |
| | `VerdictInvHolds` | `Eq!Spec => []VerdictInv` | any bytes, pieces and messages, every interleaving of the two channels, `MaxSeries = 1` |
| | `TheVerdictIsRight` | `Eq!Spec => []Eq!VerdictIsRight` | the same |
| | `TheQueueIsTheLead` | `Eq!Spec => []Eq!QueueIsTheLead` | the same |
| `FilterWithBufferedInput_proofs` | `RingKeeps` | `Spec => []RingKeepsTheMessage` | any first, block and last size, messages of any length, every cut and flush; about the bytes unless a flush has over-read |
| | `LengthsHold` | `Spec => []LengthsArePromised` | any sizes, messages, cuts and flushes |

### Assumptions

* `UsbIoAssumption`, `UsbIoCallsAssumption` and `usbModelAssumption`. The last
  says that the sticks given at first are sane if marked, that the volume has a
  sector behind the last one scanned, and that uninitialised memory never looks
  like a mark.
* `NothingHidden`: no sector of the sticks at first, and no key, has byte 511
  alone in use (usbModel.cpp:133, known limits). `ReadsWork`: locks are
  granted, `ReadFile` works, memory suffices; crashes, unplugging, failing
  opens and unlocks and torn writes stay. `UKeysAreKnown`: the UKeys on the sticks
  at first were made by `createUKey`, perhaps deleted in part. The runs
  `locked_check`, `io_race` and `lost_create` show what happens without `ReadsWork`
  or with a second program, so that no hypothesis is there for the proof's sake.
* `NetworkAssumption`: streams of bytes, a receive buffer of one byte at least.
* `GetUsbIdentificationAssumption`: what a world is, and that no device is called
  as the absent one.
* `Sha256Assumption`: the block is longer than the length field, a word counts
  whole blocks, and a word has four bytes: the fifth byte and those above it are
  zero. The last is a fact about repeated division, which needs induction over
  data; TLC evaluates it. The theorems are about `sha256` with any constants,
  and so about `sha512` and `Sha2`, which instantiate it.
* `MD5Assumption`: a word counts whole blocks, and a piece is short of the number
  of values of a word by more than a block: `i + blocksize` does not wrap
  (MD5.cpp:274).
* `AuthenticatedSymmetricCipherAssumption`, `ByteQueueAssumption` and
  `FilterAssumption`: what sizes, byte values and names are; a block of a filter has
  a byte at least (filters.h:151). The capacity of the model of the queue is a bound of
  its runs; its value does not matter to the proof.
* `EqualityAssumption`: the ends of messages and series are no bytes. `MaxSeries = 1`:
  a channel ends its series once. With more, `VerdictIsRight` is false (known
  limits): an ended series stays counted (mqueue.h:65, mqueue.cpp:37-38, 122-123).

### The arguments

*Mark and boot sector.* `MarkSane` alone is not inductive: a client could be about to
write a bad mark. Sector 1 changes in three ways. A mark is written by
`createUKey`, from sector numbers that its own scan has set in increasing
order, from 2 on (`ScanIsAhead`, `WritersHaveSectors`) and below `ScanEnd`
(`PointersInRange`). Other bytes around the mark are put back as they were
loaded, which is sane by itself (`LoadedMarksSane`), or uninitialised, which
never looks like a mark. Writes to other sectors start at 2 or later because
whoever writes has found or recognised its sectors first
(`WritersHaveSectors`); hence sector 0 is never touched either. `IdleHasNoBuffer`
ties a buffer to its call. Lemmas say what a merged write may do to sectors 0
and 1, and then each action preserves the conjuncts, client by client.

*The lock.* `LockInv` adds that the holder has an open handle (`HolderIsOpen`),
that a reader keeps the lock from its load to its return while its handle is
good (`ReaderHolds`), and that the holder's buffer is what the volume holds
(`HolderIsCurrent`): nobody else's transfer gets through. Hence the mark that
`createUKey` verifies is the mark on the stick at that moment.

*One program.* `SoloInv` adds that a writer, too, has loaded what is there
(`WriterIsCurrent`), so that what it puts back is what was there. A write
therefore changes the bytes it was asked to change and no others, although it
transfers the sector behind them (`WithinOneSector`). For foreign data: what the
scan has found is still unused when it is written (`ScannedIsFree`). For the
cache: `createUKey` goes on only while the stick is unmarked (`CreatesOnUnmarked`),
and what is cached is what the mark points to (`Coherent`). For the refinement:
what each write of a create or a delete has achieved (`WrittenSoFar`), so that the
store changes in the step that writes the mark, or clears a part, and every other
step stutters.

*Direct calls.* The same two facts for any client: the reader under the lock is
current, and so is the writer as long as only one client has opened the
device (`LoneWriterIsCurrent`).

*Network.* Every byte of the stream is in exactly one place: on the wire, in the
sink's queue, in the source's buffer, or with the peer (`InOrder`). The places
overlap while a put is tried again, since a refused put has taken its
bytes: `Taken` says how many of the source's bytes the queue holds already, at
each place in the code, and `Done` and `Held` count with it. The other conjuncts
say what a call, a put, a flush or a pending receive that is suspended has
left over for the one that is made again. Writing the invariant down showed
that a receive buffer of two in the run let a stronger one hold by accident
(`m_dataBegin` = 0 whenever a result is fetched); hence three.

*Identification.* `Accounts` is the set of resources held at each place in the
call, for which every path is accounted.

*Drives.* `Looked`: the letters below the loop variable have been looked at, and
the removable ones of them are the list. The loop ends where its bit is not below
the mask. Two drives in the mask make it larger than either bit alone
(`MaskBounds`), so that no drive is left at or above the loop variable; and the
mask is below the bit behind its last, so that the variable stays in range.

*Hashes.* `Cut` says that the blocks absorbed are the first ones of the message, and
a lemma that absorbing n blocks goes on in it; the rest waits in the buffer. The
counter of MD5 is `Count`, both words with the carry, which `CountGoesOn`
shows update to keep. The padding is the next piece of the padded message, so
that `finalize` is two more updates (`AbsorbedIsPadded`).

*Authenticated modes.* What was absorbed and what waits in the buffer are, joined,
the stream the mode defines for the bytes given so far: `HeaderAbsorbed` for the
header, `MessageAbsorbed` for the message, which in EAX begins anew and in the
other modes goes on behind the padded header. The counter stands behind the
keystream used (`CounterInPlace`), which `KeystreamUsedOnce` alone does not
say. Two cases would be easy to forget. A `TruncatedFinal` that CCM refuses has
completed the header by then, and the next call finds another state than the
one before. EAX has three tags in `m_tags`, of which the first two are
fixed before the third is begun (`TagsOfHeader`).

*Byte queue.* `Listed` says the shape of the list between calls: free space is in
the last node only, bytes are taken from the first node only, and the first
node is not used up unless it is the only one. `Worn` is the same for a list that
bytes were taken off and `CleanupUsedNodes` has not yet seen. The contents are the
nodes' bytes one after the other (`Stored`), then the lazy string; lemmas say what
appending at the tail, taking at the front, dropping used nodes and putting a node or
string in front do to `Stored`. A Walker keeps what it has seen and the
pieces it has yet to show, which joined are the contents (`Reads`). Each action then
is one step of `ByteFifo`: a put, a get of what was at the front, or a stutter.

*Equality filter.* A queue is described by the messages in it, the bytes of
the open one and whether the series has ended (`IsQueue`), and each operation
of `MessageQueue` by what it does to these three. `VerdictInv` then has four
cases. One channel leads: what it brought is what the other brought and then
what its queue holds, and the other's queue is empty (`Agreeing`). A channel has
gone on with bytes of an open message where the other has ended its series
(`Overrun`): the filter has not noticed the difference, and will when the message
or the series ends. Or equality was told, of inputs that are equal
(`FoundEqual`), or a mismatch, of inputs that differ at a place both have
reached, and so differ for ever (`FoundUnequal`). The proof follows a put by the
channel that leads (`LeadPut`) and by the one that is behind, according to
whether the next message of the other is complete (`FollowFull`, `FollowOpen`). A put
that is longer than what the other has changes the lead from one to the other.
`Overrun` is the case easily forgotten, and why a difference is told at
the end of a message only. The last lemmas read the queue as the property does,
by sums of lengths (`ItemsOfQueue`).

*Buffered input.* `RingInv` says where every byte of the message is. Before
the first part is out (`Waiting`) all of them are in a ring of single bytes; then
(`Working`) those behind some number c are in the ring (`Holds`, which
says for each position, modulo the ring's size, which byte is there), and those
before c were handed on, the first part whole and then whole blocks (`HandedOver`).
How many are kept back (`KeptBack`) is what makes the lengths come out at the end:
all, or at least lastSize and less than a block more. A hard flush breaks that,
and, when it reads past the end of the ring, the bytes handed on: then only
the ring itself is described. The lemmas do one call after the other: what `Put` does to a
ring that wraps or not (`QueuePutIs`), taking one block and as many as lie in
a row (`GotBlocksIs`), the two branches of the put for blocks of one byte and larger ones
(`NextBytesIs`, `NextBlocksIs`), and the first put, which makes the ring
anew (`FirstPutIs`). That `begin` and the ring's size are multiples of the block is
part of it: otherwise a block could lie across the end, where `GetBlock` does
not look.

*Induction over data.* The library's induction theorems take an operator, which no
prover here can instantiate. Where a sequence is joined from pieces (`FlattenSeq`)
or sizes double (`Doubled`), the proofs go by least counterexample instead: a
set of numbers that holds 0 and the successor of each of its members is all of
`Nat` (lemmas `Least` and `AllNaturals`, from `WFMin`). From it follows that a
function may be defined by recursion when its step is itself a function
(`Recursion`), which the bits of the drive mask and their sum need.

### Only model-checked

* Liveness (`CallsReturn`, `Identifies`, `Returns`, `Delivered`): beyond this prover.
* `CiphertextIsDefined`, `DecryptionUndoes`, `KeystreamInPlace`: `BlockModes` and
  `AdditiveCipher` use RECURSIVE operators, which the prover does not take.
* `PaddingIsUndone`: within reach by the means of `FilterWithBufferedInput_proofs`, not
  attempted.

## 7. Plan

Done: the sector layer, the UKey operations, identification, drives, the hash
objects, the parts of Crypto++ that have control of their own; the proofs of
section 6. Next, proofs, in this order:

1. `PaddingIsUndone`, on `RingKeeps` and `LengthsHold`.
2. The modes, with recursive functions in the place of their RECURSIVE operators.

Modelling that is left: bandwidth limits and hashing filters of Crypto++;
sticks that the file system writes to between the scan and the use of a sector.

## 8. Not modelled

* The rounds of the compression functions: 32-bit bit operations over data; no
  property of interest tells them from any other function of the blocks.
* `Byte2HexTable`: prints. `usbmodel_example.cpp`: a demonstration.
  `usbiodef.h`: a copy of a DDK header.
* The rest of `cryptopp562`, which is the published library and included by none
  of the project's files: nine tenths of the repository's lines. Block ciphers,
  hashes, big integers, elliptic curves and public-key schemes are
  computations over data, and their tables, test vectors, validation programs
  and benchmarks are data: there is no control in them for a model checker to
  explore, and a model of them would be a transliteration.
* Of the modelled parts of Crypto++: bandwidth limits of the network filters
  (network.cpp:89-137,173-217), socket and pipe errors, second series and
  `CopyRangeTo2` of `MessageQueue`, GHASH and its tables, and the assembler
  versions of loops.
* Memory leaks of `pTempData` (no heap is modelled), the terminating `'\0'`
  that reads store behind the caller's bytes, console output.
* The file system on the stick: nobody but UKey programs writes to it.
