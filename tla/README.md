# Verification of UnikernelExperiments

TLA+ models of the Allwinner A64 unikernel and its network bootloader. The code
is C++ headers under `src/include`, one program `src/src64/Bootloader.cpp`, and
a build tool in Rust. Everything runs on one core without interrupts: the main
loop updates the clock, polls the EMAC driver, which hands received frames up
the stack, and polls the TCP connection. What is concurrent is outside the
program: the network, the uploading hosts, the clock and the DMA engine.

## Inventory

| Component | State | Operations | Hard part |
|---|---|---|---|
| TCP connection (`Net/Tcp.hpp`) | status, own and acknowledged numbers, remote's first number, retry timer and counter, `remoteFinished` | `listen`, `connect`, `close`, `poll`, `received`, `transmit`, `transmitReset` | loss, repetition, reordering, competing hosts, retries, no frame for an answer |
| Network boot (`Bootloader.cpp`) | the one connection, the receive buffer (start of DRAM) | main loop until `Finished`, then validate and jump | waits for `Finished` alone; must leave the image where the header is read |
| Image validation (`BootFileHeader::validate`, `build_tool`) | the image | checksum over the image with a seed in its own field | not idempotent, length taken from the image |
| EMAC driver (`Net/Net.hpp`, `AllwinnerEMAC.hpp`) | two rings of 128 descriptors, three cursors, link status | `poll`, `createFrame`, `transmit` | ring shared with the DMA engine, holes, fragments, suspended engine |
| IPv6 send path, neighbor cache (`Net/Ip.hpp`) | 8 cache entries with use counters | `findNeighbor`, `addNeighbor`, `transmitIpPacket`, `invalidateNeighborCache` | counters wrap, entries are evicted, link loss |
| ICMPv6, UDP echo (`Net/Icmp.hpp`, `Net/Udp.hpp`) | none | answer a request in a frame of its own | answer without a frame |
| Clock (`Clock.hpp`, `AllwinnerHSTimer.hpp`) | software cycles, last ticks | `update`, `getUptimeScaledBy` | 60 s counter that wraps |
| Cache maintenance, MMU (`Memory/*`) | CPU registers | set/way loops, one page table | loop bounds, memory attributes of the rings |
| Board set-up (`Hardware/*`, `Memory/*`, called by `main`) | device registers | fixed sequences of writes and busy waits | a device that fails, the order of the calls |

The components meet in three places. `AllwinnerEMACDriver::received` calls
`Ipv6::received`, which calls `Tcp::received` for every segment with a correct
checksum; `Connection::transmit` takes a frame from `createFrame`, which may
return `nullptr`, and gives it to `transmitIpPacket`; `Connection::poll` and
`transmit` read the uptime the clock last updated.

What makes the components correct:

- TCP connection: never acknowledges a byte that is not in the buffer; puts every
  byte in its place; takes nothing back; keeps to its remote; takes a FIN only
  in sequence and only once; retries at the pace of its timer; both ends agree.
- Network boot: is decided if its host goes on; succeeds only with the whole image.
- Driver: every frame handed over is sent once and in order, every received frame
  is delivered once, no descriptor is lost.
- Neighbor cache: an answer goes to the address the neighbor last announced.
- Validation: accepts exactly what the build tool writes.
- Clock: never runs backwards; loses no cycle if updated once per cycle.
- Set-up: builds each device on what is up; does not pass over a failure silently.

## Modules

| Module | Models |
|---|---|
| `TcpConnection` | one endpoint of `Tcp.hpp`: an action for each way through `received()` with the wrapper `Tcp::received()`, for `poll()`, `close()`, `listen()`, `connect()`, for `transmitReset()`, and for a tick of the clock. No environment. |
| `TcpDownload` | the bootloader: one listening `TcpConnection`, its main loop, the uploading hosts and the network |
| `StreamDelivery` | what a download promises, without segments or timers |
| `TcpPatience` | `TcpDownload` with a stopwatch, and with fairness of the board alone |
| `TcpDownloadLive` | `TcpDownload` with bounded loss and fairness |
| `TcpPair` | two `TcpConnection`s that talk to each other |
| `TcpPair_proofs` | theorems about the pair |
| `TcpDownload_proofs` | type correctness of `TcpDownload`, and theorems about what it stores |
| `TcpContract_proofs` | the FIN behind the stream, and the refinement of `StreamDelivery` |
| `TcpEndings_proofs` | theorems about why and when a download ends, and about what its hosts may rely on; extends `TcpPatience` |
| `FrameQueue` | what a descriptor ring promises: a queue |
| `TransmitRing`, `ReceiveRing` | the two rings of the EMAC driver, each with its half of the DMA engine; both implement `FrameQueue` |
| `Rings_proofs` | theorems about both rings, and their refinements of `FrameQueue` |
| `IpConversions` | addresses between MAC and IPv6 and the checksum, over bytes |
| `Ipv6Stack` | received packets, their handlers in ICMPv6 and UDP, the neighbor cache, the link |
| `SumTheorems` | lemmas about sums over an interval, however a fold takes its terms |
| `Ipv6Stack_proofs` | theorems about the checksum, the neighbor cache and the answers |
| `UptimeClock` | the hardware timer and the uptime made from it |
| `Bootloader` | `main()`: set-up with failing devices, main loop, verdict, return; extends `UptimeClock` |
| `Bootloader_proofs` | theorems about set-up, clock and the verdict on the image |
| `BootImage` | the image between `build_tool` and `validate()` |
| `MC*` | small instances for TLC |

### TcpConnection

`connection` is a record of the `Connection` members that control reads;
`receiveBuffer` maps the positions written so far to bytes (a byte is its sender
and its sequence number); `network` is a set of segments. Numbers of a segment
are taken modulo `SequenceSpace` (2^32 in the code), the connection's own number
is not, as in the code (`Natural64`). `retryCounter` wraps at 256.

`received()` is cut by its early returns: `ReceiveIgnored` (returns without an
assignment), `ReceiveReset`, `ReceiveSyn`, `ReceiveStaleFinish` (the return in
line 302, behind the acknowledgment's effects) and `ReceiveSegment` (to the end).
Each ends in `Conclude`: the answer, if there is one, then `close()` if the
remote has finished (lines 425-427). Each transmission gets a frame or does not
(`FrameResults`); without one nothing is sent and the timer is not armed.
`retryTimer` holds the ticks left until `now >= retryTimer`.

Left out: window and segment sizes, window scales and SACK (written, never read),
`localAddress` (copied from the last segment), checksums, byte order, IPv4 (its
handler does nothing). A frame that `transmitIpPacket` cannot address is a lost
segment. Options are left out but for the padding behind an End option, which
moves the copy (`trailing`).

### TcpDownload

The hosts are external: each connects, retransmits its SYN, sends any
unacknowledged range in any cut, with the FIN at the end, takes acknowledgments,
acknowledges the board's FIN, may abort with a RST and may send a SYN to another
port. The network is a set: a segment may never arrive, arrive late or out of
order, and with `Duplicating` again and again.

The layers meet at small interfaces, so they are modelled beside each other and
not multiplied: what the rings and `Ipv6Stack` do to a TCP segment (lost, late,
no frame for it) is a choice of the environment in `TcpDownload`; what `Bootloader` needs of
the download is that it may finish.

### TransmitRing and ReceiveRing

The program and the DMA engine share the descriptors and the buffers. On the
transmit side the program's steps are `CreateFrame` (139-168), `HandOver` (the
ownership bit, 179), `StartSender` (the look at the engine, 193-195), `DropFrame`
(a caller that returns without `transmit`), and `poll()` cut where the engine can
come in between: `StartReclaim`, one `Reclaim` for each frame taken back,
`EndReclaim`, `StopSuspended`. The engine reads its descriptor (`SenderFetch`) and shows that it has
found none (`SenderSuspend`) in two steps: between the two the program may hand over
the very frame it did not see. On the receive side `poll()` is `StartReceive`,
`Deliver` (the call of `received()`) and `GiveBack` for each frame, `EndReceive`
and `RestartReceiver`. A buffer holds the name of its frame and the number of the
part.

A frame that goes around the end of a ring is not contiguous, which the code does
not handle. The receive buffers lie right behind the transmit buffers (Net.hpp:15-17),
so the rings share memory in one direction: the tail of such a transmit frame is
written over the first receive buffers. Only one caller writes the payload of a frame
of several buffers, the echo of UDP (Udp.hpp:65), and it does so inside `received()`;
an echo reply writes its head only, and all other frames have one buffer. `Spill` in
`ReceiveRing` is that write: while a frame is being delivered, at most `MaxSpill`
buffers from the first on hold a foreign content, whether they wait for delivery or
are being stored just then. It is not tied to where the transmit ring stands: the echo
may spill in any turn, which includes every turn in which it does. The properties
about contents name these exceptions:

- `FramesSentAsWritten` says what such a frame looks like on the wire: the caller's
  buffers up to the end of the ring, then what earlier frames left in the buffers
  behind it, never anything of a later frame.
- `FramesReceivedAsStored` exempts what `received()` reads behind the last receive
  buffer, and, once there was a spill, the first `MaxSpill` buffers. Both happen
  in the run.

What the engine does is taken from how the driver uses it, with these
assumptions, each named where it is made in the modules:

- The program takes longer from one `transmit()` to the next `createFrame()` than
  the engine from reading a descriptor to showing the result (guard of
  `CreateFrame` in `TransmitNext`).
- A dropped frame does not meet one of several buffers (`Creatable`). If it did,
  the ring could block for good: `poll()` would wait for the engine to give back
  the second descriptor and the engine for the program to hand over the first.
- A suspended receive engine does not wake up by itself. If it did, at a
  descriptor given back after the budget of a poll was used up, it could store a
  frame where `poll()` does not look next.
- An engine that was restarted reads its descriptor before `poll()` is back at the
  ring; `poll()` begins with a transfer to the PHY.

### Ipv6Stack and IpConversions

One action for each thing that happens in a turn of the main loop: `LinkUp`,
`LinkLost`, `Receive` (a packet that passes its checksum, with the handler's whole
effect: learn, look up, count, answer), `Ignore` (a packet that fails its checksum)
and `Discard` (a frame with a receive error, of another protocol, or of IPv4, whose
handlers do nothing). Packets are real bytes, since
the properties are about the checksum and the addresses; only what the handlers
read of them is there. An echo reply is filled with what the transmit buffer held
(`Residue`). The stations, and a byte damaged on the way, are external. A station
adds up a packet by itself (`PeerAddsUp`), and discards a UDP datagram whose
checksum field is 0, as a host over IPv6 must (`PeerAccepts`). The board does send
that: a checksum that comes out as 0 is not turned into 65535 (Udp.hpp:33-34). In
the run the datagrams come from a port (`SourcePort`) for which one of the answers is
such a datagram, and `SentIsAccepted` names it as its exception.

### Bootloader, UptimeClock and BootImage

`SetUp` lists the calls of `main()` in their order. A call is abstracted to what
it needs to work, what works after it, whether its device can fail, whether it
then prints `[FAIL]`, and whether it may wait for ever. `Succeed`, `Fail` and
`Hang` are its outcomes; `PollAll`, `Judge` and `Return` are the rest of `main()`.
The timer ticks (`Pass`) between any two of them. `BootImage` builds an image as
the tool does, lets any one word change or any number of words be missing at the
end, and runs `validate()` on what is in the buffer, with leftovers of the DRAM
behind it for as far as any length reaches. `validate()` takes the length from the
image (Bootloader.cpp:13-19): an image in which only `payloadLength` differs adds up
other words, and the run has such images that are run nevertheless. `VerdictIsRight`
exempts that one word; every other single difference is refused.

## Runs

| Run | Shows | Bounds |
|---|---|---|
| `download` | storage, order, closing, the abstract contract | 1 host, 2 bytes in segments of 1 or 2, unlimited duplication, a RST at any time, 1 retry |
| `two_hosts` | competing hosts, missing frames, the end of the sequence space | 2 hosts, 1 byte each, duplication, 1 retry |
| `patience` | pace of the retries; a board that nothing reaches any more comes to rest, and where | 1 byte, period of 2 ticks, the 5 retries of the code, a host that falls silent anywhere and may merge its FIN with data, a segment for another port |
| `upload_live` | after a FIN of its own from a host that goes on, the connection finishes or closes | 1 byte, at most 2 lost segments, 1 retry |
| `pair` | both ends agree | all segments of handshake and close, duplication, failing frames, 5 retries |
| `pair_live` | connect and close complete | no loss, no early timer |
| `rings` | each ring is a queue; no frame is cut off or forgotten; contents stay, but at the ends of the rings; a receiver comes back | 3 transmit and 4 receive descriptors, 6 frames each of 1 or 2 buffers, 1 buffer written past the end |
| `ipv6_stack` | the cache is current, answers go to who asked, checksums are right but for a UDP one of 0, damage is ignored | 2 cache entries, counters modulo 4, 2 stations, 3 addresses, one of them moving |
| `boot` | failures are noted, the uptime is exact, the verdict is right | every subset of 6 failing devices; a cycle of 8 ticks, 18 ticks; images of 6 and 12 words modulo 16, any word changed, any number missing |
| `late_start`, `coalesced_fin`, `opener_closes` | the divergences below | as small as they show |

The sequence space of the runs is 16: large enough that no number is reused,
small enough that a host near its end crosses it. Two bytes are enough for every
relation of a segment to `localAcknowledgment`: below, overlapping, next, and
early behind a gap. One retry is enough for the storage properties, which never
depend on how many polls came before; the runs about time use the code's five.
Deadlock is checked in every run but `boot`: `main()` returns, or waits for ever
for a device. Elsewhere the clock, the polls or the link always go on.

Six frames take a ring of three descriptors round twice, so that a descriptor is
claimed, sent, taken back and claimed again while the engine is anywhere; four
receive descriptors make the budget of a poll two frames, less than the ring.
Two cache entries for three addresses evict; a counter modulo 4 wraps within a
few packets. Eighteen ticks take the timer round twice after the first update,
and the leftovers in the two variables are 0, within a cycle, and beyond one.
The words of the images are modulo 16, so that a wrong sum is hit by chance as
often as possible; the contents make padding of 0, 2 and 4 words.
`rings` and `boot` each explore two parts; a variable of the MC module says which,
so that they are not multiplied. They share no variable: what the transmit ring
does to the other is `Spill`, which may come at any delivery.

The hosts of `download` and `two_hosts` retransmit at will, so loss needs no
action there: a segment that is never received is lost. `Trailings` is {0} in
all runs: options that end in an End option with padding behind it would shift
the stored payload (Tcp.hpp:218-220 with 318), and `AckedPayloadStored` holds
only without it. `Fits` and `NoOverflow` name the other limit, which the code
states itself (Tcp.hpp:88).

### Fairness

`TcpDownloadLive` assumes weak fairness of the poll and of the clock (the main
loop is `while` without a condition that could block), of each host's
retransmission timer, and of the delivery of each segment that is not lost; loss
is bounded by `MaxLosses`. With it `ClosesAfterRemoteFinishes` says that after the FIN
the connection gets to Finished or Closed. It does not say that the bootloader goes on: `main()` leaves its loop in
Finished only (Bootloader.cpp:60), and in Closed runs for ever. Nor does the run speak
of hosts that merge the FIN with data (`FinWithData = FALSE`; `coalesced_fin` has them)
or fall silent.

`TcpPatience` assumes fairness of the poll and the clock alone, and its hosts may do
both. What then is true is `LeftAloneComesToRest`: the retry timer takes the board out
of SynReceived, FinSent and TimedClose, and it may wait for ever in Listen, in Closed,
and in Established, where `poll()` returns early (Tcp.hpp:334) and nothing watches the
host.

`TcpPair` assumes fairness of the opening, the polls and the clocks of both programs
and that segments keep arriving at both; and, for the two liveness properties, that segments arrive before a timer expires
(`Prompt`): without it a handshake that was established may still be repeated by
a late SYN, and retries that are never reset end connections that are not broken.

The rings assume weak fairness of the engine, of the polls, and of a caller with
a frame in hand; nobody has to create a frame and none has to arrive. A frame that
was handed over is sent only if another one follows it (`FollowedFrameIsSent`):
`transmit()` may look at the engine just before it shows `TransmitSuspended`, and
then nobody starts it again before the next frame. In the bootloader the retries
of TCP are that next frame.

## Divergences between the code and what it says

- `late_start`: the first segment that reaches SynReceived is taken for the first
  of the stream. If the handshake acknowledgment is lost or late, the image is
  stored in front of or behind the start of the buffer (Tcp.hpp:5, 288; comment at
  Tcp.hpp:420, reader at Bootloader.cpp:67).
- `coalesced_fin`: a retransmission that begins below `localAcknowledgment` and
  carries the FIN is dropped without an answer (Tcp.hpp:301; comment at 420).
- `opener_closes`: the endpoint that called `connect()` never sends its FIN
  (Tcp.hpp:284 skips 297; README.md:73).

More was met and is modelled as the code does it, without a run of its own, since
no text of the repository says otherwise or what it says is too general:

- `EchoReply::transmit` (Icmp.hpp:169-188) never writes the payload of the reply:
  the host gets what the buffer held, with a fitting checksum. README.md:65 lists
  Echo as done.
- `Udp::received` tests the frame it received instead of the one it asked for
  (Udp.hpp:59), and without link or room goes on with a frame at address 0. (This
  alone is not in the model: it takes such datagrams only with link and room.)
- A UDP checksum that comes out as 0 is sent as 0 (Udp.hpp:33-34): exception of
  `SentIsAccepted`.
- A transmit frame around the end of its ring is written into the receive buffers
  (Net.hpp:15-17, 139-168): exception of `FramesReceivedAsStored`.
- `validate()` believes a damaged length (Bootloader.cpp:13-19): exception of
  `VerdictIsRight`.
- For a connection in Closed, or in Established with a host that is gone, the main
  loop never ends: the places of rest in `LeftAloneComesToRest`.

## Proofs

TLAPS proves the theorems below for every value of the constants: every set of
hosts, initial sequence number, image length, segment size, number of retries and
retry period, network and `createFrame`; every number of descriptors, buffers per
frame and frames; every number of cache entries, stations, addresses and width of
the counters; every cycle length, frequency, scale and value at power-on.

| Module | Theorem | States | Assumes |
|---|---|---|---|
| `TcpDownload_proofs` | `TypeCorrect` | `TypeOK` | nothing |
| | `AcknowledgedIsStored` | `AckedPayloadStored` | `NoOverflow`, `NoTrailing` |
| | `StoredBytesInPlace` | `StoredInPlace` | the same |
| | `NothingTakenBack` | `NeverTakenBack` | the same |
| `TcpContract_proofs` | `FinBehindStream` | `ClosesAfterRemote` | the same |
| | `ImplementsDelivery` | `StreamContract`, the refinement of `StreamDelivery` | the same |
| `TcpEndings_proofs` | `FailsForCause` | `ClosedForCause` | nothing |
| | `FinishIsMutual` | `FinishedIsMutual` | `NoOverflow`, `NoTrailing` |
| | `DeliveredIsStored` | `DeliveredPayloadStored` | the same |
| | `GivingUpTakesTime` | `GivesUpLate` | nothing |
| | `RetriesAreTimed` | `RetriesTakeTime` | nothing |
| `TcpPair_proofs` | `BothCountTheSame` | `NumbersAgree` | `ClosesWhenOpen` |
| | `FinishIsReal` | `FinishedMeansClosed` | the same |
| | `AcknowledgedFinWasTaken` | `FinAcknowledgedMeansTaken` | the same |
| `Rings_proofs` | `TransmitTypeCorrect`, `ReceiveTypeCorrect` | `TransmitTypeOK`, `ReceiveTypeOK` | nothing |
| | `SentAsWritten`, `ReceivedAsStored` | `FramesSentAsWritten`, `FramesReceivedAsStored`, with their exceptions | nothing |
| | `EngineIsNeverCutOff` | `NeverCutOff` | nothing |
| | `TransmitIsQueue`, `ReceiveIsQueue` | `TransmitContract`, `ReceiveContract`, the refinements of `FrameQueue` | nothing |
| `Ipv6Stack_proofs` | `CompletedIsAccepted` | what `prepareTransmit()` completes adds up for the board and for its receiver | nothing |
| | `OneByteIsDetected` | no change of a single byte passes | nothing |
| | `ChangedByteIsDetected` | `DamageIsDetected` | nothing |
| | `StackTypeCorrect` | `StackTypeOK` | nothing |
| | `CacheStaysCurrent` | `CacheIsCurrent` | nothing |
| | `DamagedStaysIgnored` | `DamagedIsIgnored` | nothing |
| | `SentStaysAccepted` | `SentIsAccepted`, with its exception | nothing |
| | `AskerGetsAnswer` | `AskerIsAnswered` | nothing |
| | `AddressLeadsBack` | `ipv6ToMac(macToIpv6(mac)) = mac` | nothing |
| `Bootloader_proofs` | `BootTypeCorrect` | `BootTypeOK` | nothing |
| | `FailureIsReported` | `FailureReported` | nothing |
| | `UptimeIsExact` | `UptimeExact` | nothing |
| | `VerdictStaysRight` | `VerdictIsRight`, with its exception | nothing |

"Nothing" is nothing but the named assumptions about the constants in the modules:
no host is the board, initial numbers lie in the sequence space, an image is not
empty and shorter than that space, no probed port is `LocalPort`; a ring has two
descriptors at least, a sent frame fits into it and a received one is shorter than
it, and no more receive buffers are written over than there are; the sequence space
of a pair holds a SYN and a FIN; MAC and IPv6 addresses are sequences of 6 and 16
bytes, a port is two bytes, the board's MAC is not a multicast address, the cache has
an entry and the counters count to one; a block of the boot image holds more than the
header, and the padded length of a content fits its field there. TLC evaluates each of
them in the runs, for their constants. `CompletedIsAccepted` and `OneByteIsDetected`
are about every packet whose fields have the widths of its headers (`PacketOK`);
`ChangedByteIsDetected` shows that those of the model are such packets.

Three formulas are assumed where the table says so.

- `NoOverflow`: no upload crosses the end of the sequence space, which the code
  does not handle and says so (Tcp.hpp:88). The run `two_hosts` has a host that
  crosses it and shows what then still holds.
- `NoTrailing`: the options of a segment end with their End option. Otherwise what is
  stored is not the stream.
- `ClosesWhenOpen`: no application calls `close()` in SynReceived. The number that
  acknowledges the SYN would then pass for that of the FIN (Tcp.hpp:376).

### Download

The argument has four layers, the first two in one module.

- `TypeOK` is inductive as it stands. The part that needs an argument is that
  nothing the board sends comes back to it, so that `received()` sees only
  segments of hosts: `ToBoard` and `FromBoard` keep the two directions apart.
- `AckedPayloadStored` is not inductive. A step that copies a payload keeps it
  only if the segment carries the stream's own numbers (`WellFormedNetwork`: a
  SYN carries the initial number, data lies between it and the FIN, a FIN is
  behind the last byte), and only if the buffer was in order before. `Storage`
  adds that: nothing is stored before the connection is established, since the
  first segment then moves the origin of the buffer; every acknowledged payload
  number has a cell; every cell holds the byte with the cell's number.
  `StorageInv` is `TypeOK`, `WellFormedNetwork` and `Storage`, and lemma
  `StorageStep` shows besides that each step is `Preserving`, from which
  `NothingTakenBack` follows.
- For the end of a download `ContractInv` adds `Ending` (the download is never in
  WaitingForRemoteToFinish; in FinSent and behind it the remote has finished; and
  if it has, its whole stream is acknowledged) and `FinsAreAnswers` (a FIN of the
  board on the wire goes to the bound remote, which has finished). `StatusStep`
  says how a step may change the status next to the acknowledgment: in Closed,
  TimedClose and Finished nothing more is taken. With `StorageInv` the delivered
  bytes are a prefix of the image, as long as the acknowledged numbers
  (`DeliveredMeans`), and a step of the connection then is `Accept`, `Deliver`,
  `Complete`, `Fail` or a stutter (`ContractNext`).
- What one side believes of the other is true because a segment carried it.
  `EndingsInv` follows flags and small numbers from the side that sets them to the
  side that acts on them: the states the board goes through and its two own numbers
  (`Phased`: 0 for the SYN, 1 for the FIN); what its segments say (`BoardSaid`); what
  a host's segments say about the host, which stays true however late they arrive
  (`HostSaid`); how far a host has got (`HostCounts`); and so what the board may
  believe of its remote (`Justified`). None of it depends on payloads, so
  `FailsForCause` needs no assumption about uploads. `TakenInv` does the same for
  acknowledgments on their way to a host: none is ahead of the board, and what a host
  has taken, the board it is bound to has acknowledged; with `AckedPayloadStored`
  that is `DeliveredPayloadStored`. `PatienceInv` bounds the retries used, times the
  period, plus what has run of the current period, by the stopwatch.

### Pair

The definitions and most lemmas of `TcpPair_proofs` do not say which of the two
endpoints they are about; `SameSteps` and `SentByEither` carry them over to both
instances of `TcpConnection`. `PairInv` says for each endpoint which numbers go with
which state (`Numbered`; between two calls `Phased`), for each segment that what it says of its
sender is true and stays true (`True`), and that what an endpoint believes of the other
is true (`Justified`). `ReceivedProcessed` follows a segment through `received()`,
`ConcludesWell` what is sent and closed at its end; `Moves` sums up any step of an endpoint:
what it has learnt it learnt from a segment of the other, what it says is true. The
invariant holds whoever opens, so also for two endpoints that both call
`connect()`; these never disagree, though they may never get established.

### Rings

A ring is described by how many descriptors are in use, counted from the oldest
one: `Place(k)` and `Spot(k)` are the k-th places behind it, and the lemmas on the
remainder say that they are all different and that each descriptor is one of them.

- Receiving: `ReceiveRingOK(count)` says that exactly the first `count` descriptors
  were closed (`Occupied`), that they hold whole frames one behind the other with
  consecutive numbers, but for the last one, which may be incomplete (`InFrames`),
  where the engine then stands (`Engine`), and that the number of the oldest follows
  that of the last delivered (`Queues`). Each step of `poll()` and of the engine adds
  or removes at one end. That `GiveBack` finds the last buffer of its frame before the
  ring's end is what `InFrames` is for. `FramesReceivedAsStored` needs besides that only
  a spill makes a buffer foreign, and only the first ones (`SpillReaches`): a frame
  delivered before the first spill stays right, since the exception, once there, stays.
- Sending is harder, because a dropped frame leaves descriptors which the engine
  skips, and because a buffer behind the end of the ring holds another frame's
  content. So `TransmitRingOK(count, frameOf, partOf)` takes two functions that say
  which part of which frame each descriptor was claimed for, whatever its buffer holds;
  the invariant says that there are such functions. `Used` counts the claimed
  descriptors; `Framed` puts whole frames one behind the other; `Named` relates a
  descriptor's frame to its buffer; `Owning` says that the engine owns the rest of
  a frame behind each of its descriptors, and only what was handed over and not yet
  sent; `InHand` that it owns all of the frame being written but its first descriptor,
  and does not stand in it; `Sending` that it has in hand exactly the parts in front of
  where it stands; `InOrder` that it stands at the first descriptor it owns, as long as
  no frame was dropped. `Quiet` and the lemmas beside it collect what the steps
  which touch no descriptor leave alone.

For `NeverCutOff` the invariant is needed where `EndReclaim` has found the ring empty:
then the engine owns no descriptor, and by `Sending` an engine with parts in hand would
own the one in front of it. `StopSuspended` looks at the engine itself.

### Checksums

The checksum of a packet and that of the image are folds over a set of places, which
TLA+ takes in no known order. The library's induction theorems are out of reach here
(they take an operator as a parameter), so `SumTheorems` argues with the smallest
counterexample: a set of naturals that is not empty has a smallest member
(`SmallestOfSet`), hence a set that holds 0 and with each number the next one holds them all
(`InductionUpTo`). By it there are partial sums, the fold over a set of any cardinality
is the sum of its terms wherever it begins (`FoldIsTotal`), and a sum of which one term
changes is changed by the difference (`TotalsDiffer`).

- Packets: what `IpChecksumGenerator` folds into 16 bits is 65535 exactly if the sum
  of the words is a positive multiple of 65535. Folding keeps the remainder, and
  the complement that `prepareTransmit()` writes makes the sum such a multiple, also
  behind a payload of odd length (`ChecksumCompletes`). The board adds up words as
  little-endian ones, another host reads them in network order: that multiplies the
  sum by 256 modulo 65535 and leaves a multiple a multiple (`MultipleIsAccepted`). The
  board also swaps the 16 bits of the length before it widens them to the 32 of the
  pseudo header, so that they stand at the other end of the field; the sum does not tell
  (`LengthMayMove`). One byte changes the sum by less than 256, or by 256 times that,
  never by a multiple of 65535 (`OneByteShows`). Which packets have a checksum field of
  0 is no matter of sums: the theorem about what is sent keeps that case apart. So
  `OneByteIsDetected` holds of every byte, and `DamageIsDetected`, what the cache
  needs of the damage in the model, follows.
- Image: build tool and `validate()` add up the same words modulo `WordSpace`, with the
  seed in the checksum's own field. `BuildIsOK` says that the tool's image agrees with its
  own field, `ArrivalsLand` that whatever arrives goes on as far as any length reaches.
  If the length arrived as it was written, `validate()` adds up as many words as the
  tool did, and if not, it is among the words that differ; `WholeSumsUp` and
  `OneWordFails` then compare the two sums, in which one word makes a difference that is
  not 0 and less than `WordSpace`. `ImageInv` ties the verdict to what arrived, since
  `validate()` itself overwrites the field.

### Cache, clock and set-up

- `CacheIsCurrent` becomes inductive with the type of the entries (`CacheOK`): a live
  entry is for an address of a neighbor. It must hold through `findNeighbor`, which
  counts, and `addNeighbor`, which takes the entry that is already there or the first
  of those used least. That there is a first and a least one is lemma `SmallestOfSet`, from
  the order of the naturals. The answer to a solicitation is looked up right behind
  `addNeighbor`, in a cache in which the asker's entry is live unless its counter
  wrapped just then. `StackInv` adds that every frame sent adds up (`FramesOK`)
  and that no damaged packet was taken; a step with a damaged packet is `Ignore`, by
  `ChangedByteIsDetected`.
- A link-local or group address that was made from a MAC needs no entry: the conversion
  back gives that MAC (`AddressLeadsBack`, byte by byte).
- `UptimeExact` needs `ClockInv`: the loaded timer stands at the remainder of the time
  that has passed, the two variables at the remainder and the quotient of the time of
  the last update. Less than a cycle between two updates makes the one comparison in
  `update()` right (`UpdateKeeps`, and the lemmas on division).
- `FailureReported` is inductive together with `phase` and `step`: what is ready is
  what the calls so far give, or a failure was noted. The proof takes the
  calls of `SetUp` one by one; that each finds what it builds on follows from their order.

### Only model-checked

- Liveness, which is out of reach of this prover: `FollowedFrameIsSent`,
  `StoredIsDelivered`, `ReceiverRecovers`, `LeftAloneComesToRest`,
  `ClosesAfterRemoteFinishes`, `OpenCompletes`, `CloseCompletes`.
- The download of a host whose numbers cross the end of the sequence space. The
  divergences are counterexamples of TLC.

## Plan

1. Done: the modules above. Each component that keeps state is modelled.
2. Done: the theorems above. Every invariant, action property and refinement that a
   passing run checks is stated by one of them; liveness stays with TLC.
3. `TcpPair` may gain a run with the simultaneous open, and a connection that listens again.

## Not modelled

Register values and timing of the devices: `Bootloader` keeps of a device's
set-up that it may wait, fail and tell. The page table, cache lines and their
attributes (with less than 2 GiB the rings would lie in write-back memory; the
image is entered without cache maintenance): the hazards name them, and no state
of the program shows them. Console output but for the fact of a failure note. The
fixed fields and byte order of headers are data without control. Numbers of the
clock are unbounded: from a leftover near 2^64 in memory the product with the scale
overflows in the code, and `UptimeExact` does not cover that. Bytes within a buffer:
a receive descriptor offers the engine 1536 bytes two behind the start of its
buffer (Net.hpp:43-46), so the last one, filled, reaches over `transmitedDescriptor`.
IPv4, TCP data transmission and SACK are stubs in the code. `AllwinnerSMHC.hpp`, the timers other
than the high speed timer, GIC and CPUCFG are not used by the bootloader. Linking
in the build tool is outside of the program that boots.
