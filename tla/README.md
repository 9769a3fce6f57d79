# TLA+ models of the Classic Bluetooth HID backend

The crate drives a USB Bluetooth controller from user space and plays a Classic HID
device. These modules model its parts, TLC checks them on small instances, and TLAPS
proves safety properties of six of them for every instance. `PROJECT.json` maps each definition
to the lines it models, and lists runs, mutants, hazards and theorems.

## The system

| Part | Source | State | Operations |
| --- | --- | --- | --- |
| USB packet reader | `usb.rs` | partial bytes per endpoint, framed packets, channel, shutdown flag | worker loop, `poll_packet`, `frame_packets`, notify, `close` |
| Opening and identity | `session.rs`, `identity.rs`, `csr.rs` | step of `Session::open`, USB handle, adapter's address | open, version, read, vendor write, warm reset, reopen, read back, initialize |
| Session | `session.rs` | window, connection, rejected links, HID channels, queued events, terminal error | `start_pairing`, `start_reconnect`, `poll`, `drain_interrupt`, `disconnect`, `close`, packet handlers |
| Classic host | `classic_host.rs` | connection, pending peer, ACL flow, assembler | `handle_event`, `process_acl`, `flush_channels` |
| HCI packets | `hci.rs` | `AclAssembler`: a partial PDU per handle | encode, decode, `fragment_l2cap_pdu`, `feed` |
| L2CAP channels | `l2cap/classic.rs`, `l2cap/mod.rs` | channels by CID, outbound PDUs, identifier | connect, configure, send, disconnect and the handlers of every signalling frame |
| ERTM | `l2cap/ertm.rs` | windows, sequence numbers, busy flags, partial SDU | `send_sdu`, `receive_frame`, `tick`, `set_receiver_busy` |
| SDP | `sdp/*.rs` | records, the one `current_response`, client accumulator | search, attribute, search-attribute, continuation |
| HIDP and HID record | `hidp.rs`, `hid_service.rs` | peer MTUs | answer a message, translate it into events, build the record |

The reader thread hands packets over a channel to the thread that polls the session. The
session filters events and passes them to the host, whose output (commands, ACL packets,
session events) it drains before it returns. L2CAP PDUs go through the ACL flow control.

What makes it hard: two USB endpoints with no order between them; HCI events that arrive
after the session has moved on (`disconnect` forgets a link before the controller ends
it, a page outlives its window); commands that cannot be written; handles that are
reused; credit shared by links; PDUs cut anywhere and given up half-way; requests of two
sides that cross; lost frames and wrapping sequence numbers; an adapter that leaves the
bus in the middle of a rewrite.

## Modules

State machines:

- `AclFlow`: `struct AclFlow` with the host's operations on it and the controller's
  buffers. A count is the cardinality of the set of packets counted, so each packet can be
  traced to its link.
- `Session`: `BackendSession` on `ClassicHost`, an application that may make any call at
  any time, and a controller that answers in HCI's ways. A packet is handled in one step
  with the drain that follows it. `pipe` holds packets on their way; events and ACL data
  keep their own order but may overtake each other. With `Failing`, a call of the
  application may fail at any of its commands (`StartFails`, `DisconnectFails`). Three
  variables are history: `told` (the last link event queued), `overlapped` (a window was
  opened before everything about an older link was settled) and `undone` (what a failed
  call left undone).
- `UsbReader`: worker thread, session thread and device. Transfers cut the bytes anywhere.
- `Opening`: repeated calls of `Session::open` against an adapter that may fail.
- `Ertm` over `SduStream`: two engines over lossy links. `SduStream` is the abstract
  promise; `Stream == INSTANCE SduStream WITH delivered <- Delivered` is the mapping.
- `L2cap`: two channel managers joined by a reliable link. Side `b` may have habits of
  other stacks: a "pending" answer, a rejection, two commands in one PDU, a first
  configuration request that must be refused.
- `Sdp`: a server and a client that may abandon a query, and damaged requests.
- `HidPath`: the composition of `HciPackets`, `L2capManager` and `Hidp` that a HID message
  passes through, from ACL packets to the application's events and back.

Operators on octets, used by the state machines above:

- `Bytes`; `L2capFrames` (PDUs, signalling frames, options); `L2capManager` (the state of
  one `ChannelManager` as a record, its handlers as operators from state to state);
  `HciPackets` (packet codecs, fragmentation, `AclAssembler`); `Hidp` (messages, device
  runtime, bridge); `SdpElements`, `SdpPdus` (data elements and PDUs); `HidRecord`
  (`build_hid_service_record`). They are the code that cuts and joins octets, and are used
  as the program uses them: every PDU on a link of `L2cap`, `HidPath` and `Sdp` is encoded
  by one side and decoded by the other.

`MCErtm`, `MCL2cap`, `MCSdp`, `MCHidPath` hold the constants of instances.
`AclFlowProofs`, `SessionProofs`, `UsbReaderProofs`, `OpeningProofs`, `ErtmEngine`,
`ErtmProofs`, `L2capInvariant` and `L2capProofs` hold proofs. Operators that begin with
`Bug` are faulty variants used to show that a property can fail.

## Runs

Sizes are distinct states.

| Run | States | What it shows |
| --- | --- | --- |
| `acl_flow` | 62,092 | buffers never overrun, credit is exact, no underflow, no data crosses from one life of a handle to the next, no idle window, every queue drains |
| `session_links` | 1,787,464 | session and host agree on the link; windows are backed by scans; no lost `Disconnected`; what may cause a protocol violation |
| `session_channels` | 1,875,157 | with failing commands: only channels of the current link are used; the session opens channels only on a reconnect, interrupt after control; no scan outlives its window |
| `session_liveness` | 52,856 | with failing commands: `disconnect` takes effect; a reconnect window opened on a settled session is left again |
| `usb_reader` | 264,160 | whole packets in order, the end is last and reported, no lost wake-up, no starvation, `close` returns |
| `ertm` | 214,318 | the engines implement `SduStream`; no frame found invalid; every SDU arrives, with the exceptions below |
| `l2cap` | 215,704 | ends are paired and agree, responses answer open requests, every attempt ends, no PDU found invalid, with the exceptions below |
| `opening` | 533,858 | the opened adapter has the requested address; uncertainty after a write is always reported; handles are released; `open` returns |
| `sdp` | 33,704 | a client parses exactly the attributes of the records; every request is answered by one PDU that fits the MTU |
| `hid_path` | 325,534 | the peer hears all answers and reports in order, the application gets all output reports, only impossible packets end the session, packets fit the controller |

Two runs end in a counterexample, where code and documentation disagree:

- `session_disconnected`: a late failed ConnectionComplete is reported as `Disconnected`
  ("The Classic ACL connection ended.", `api.rs:459`) while the session is connected.
- `session_rejection`: a rejected link leaves `pending_peer` set in the host, and a later
  link of another peer ends the session (test
  `rejected_connection_completion_does_not_poison_the_session`, `session.rs:1778`).

Other disagreements were met and have no run:

- ACL data read before the ConnectionComplete of its link (the endpoints are polled in
  turn) ends the session as a `ProtocolViolation`, "violated the required protocol"
  (`api.rs:495`), although nobody violated it. `Session` has this as `StrayAcl`.
- `start_reconnect` returns `InvalidBondStore` for several bonds where `api.rs:614` says
  `NoBond`; a USB failure during initialization is `SourceTerminated` where
  `session.rs:1234` says `OpenFailed`.
- `validate_psm` (`classic.rs:955`) accepts a PSM of more than 16 bits only if its octets
  beyond the first are even, and `parse_psm` (`l2cap/mod.rs:230`) stops at the first even
  one: `connect` to PSM 0x20011 asks the peer for PSM 0x11. The crate itself uses short
  ones, and `SpecAssumption` has them below 65536.
- The SDP client's watchdog says "return what we have" (`sdp/service.rs:603`); an answer cut
  off there usually fails to parse instead.

Exceptions that the properties state themselves, because the code behaves so:

- `Progress` (ERTM) excludes an engine that gave up at its limit and one left believing
  that its peer is busy after a lost frame: the engine never polls.
- `NoInvalidPacket` (L2CAP) excludes data that meets a channel which its receiver is
  closing or refused, and the answer after a "pending" one, which the manager takes for a
  refusal (`classic.rs:567`).
- `EndsAgree` and `AttemptsEnd` (L2CAP) exclude a peer that rejects a command or puts two
  into one PDU: the manager reads only the first (`classic.rs:374`) and passes over
  rejections (`classic.rs:507`). `EndsAgree` also excludes a channel whose mode was refused:
  that end closes without a word (`classic.rs:692`).
- `ScanOnlyInWindow`, `ReconnectResolves` and `ViolationCauses` say nothing after
  `overlapped`: a window opened over the leftovers of an older attempt can go wrong.
- `WindowScans`, `ScanOnlyInWindow`, `LinkAgreement` and `DisconnectCompletes` name what a
  failed command leaves in `undone`. A failed `start_pairing` leaves the adapter
  connectable until the next window; a `disconnect` that could not write its command is
  never repeated.
- `AnswersAreComplete` (SDP) excludes answers cut off by the client's watchdog.

## Bounds

Bounds are named constants. Two handles and three links let a handle be reused while
another link is up; two buffers and six packets fill the window and leave a queue.
In `session_links` and in the two violation runs two peers compete for a window and for
two handles. `session_channels` and `session_liveness` use one peer and one handle, since
channels, failures and the liveness tableau multiply the states; what they show is about
one link at a time, and the proofs below cover the safety for any number of peers, with
and without failures. The event queue, the pipe and the CIDs are small enough to fill.

ERTM uses modulus 3 with window 2, the largest window the modulus allows, and sends more
frames than the modulus, so numbers wrap; two faults allow a loss and an early timeout
together. USB packets of 2 to 4 bytes with a limit of 3 give partial headers, several
packets in a transfer and an oversized one. `Opening` allows two calls and two faults, so
that the second call meets what the first left. L2CAP has two CIDs per side, so the third
request is refused.

SDP's MTUs include one at which nothing fits and one that needs three rounds; the HID record of `MCSdp`
has an answer longer than 255 octets, so that both encodings of a length occur. The
watchdog is 4 rounds instead of 64, and there are 2 transaction ids, so both are reached.
In `HidPath` a controller buffer of 7 octets cuts every answer with a payload, two buffers fill,
and two messages, cut at every place, of every kind, meet each other on one link or two.

What a bound leaves out: long runs of faults, more than two calls of `open`, more than two
channels of a side, and 16-bit counters at their limit.

## Fairness

- `AclFlow`: the session polls, and the controller transmits what it holds.
- `Session`: the application polls. The controller ends every page, every answered request
  and every link it was told to disconnect (HCI timeouts); strong fairness, because the
  bound on `pipe` disables it now and then. Nothing is assumed of pairing or of peers.
- `UsbReader`: both threads run, a transfer returns (`READ_TIMEOUT`), a notified
  application polls.
- `Ertm`: frames that are not lost arrive, the clock ticks, a busy receiver gets ready.
- `L2cap`: the link delivers. `Opening`: only the thread of `open` runs; the adapter owes
  nothing. `OpenReturns` rests on finitely many unrelated packets, since `COMMAND_TIMEOUT`
  starts over with each.

## Proofs

All theorems are of the form `Spec => []Inv`, except the refinement `StreamRefinement`,
and hold for every value of the constants that satisfies the `ASSUME`s of the module.

**ACL flow** (`AclFlowProofs`): `TypeCorrect`,
`BufferSafety`, `CreditAccounting`, `UnderflowFree`, `LinkSeparation` and
`WorkConservation` follow from one inductive invariant, `IInv == Bounded /\ Orderly`.
`Bounded` holds always: finitely many packets in flight, at most `TotalPackets`, those in
the controller among them. `Orderly` holds until the host fails and is about order.
`complete` removes the oldest packets of a handle by number alone, so its result matches
what the controller reported only if completions arrive in the order of the packets
(`Completions`). That needs packets numbered in queue order (`InOrder`). The end of a link
must be the last event of its handle (`EndsAreLast`). `WorkConserving` survives
`OnDisconnected`, which frees credit without a flush, because the current connection's
packets are the youngest (`CurrentIsYoungest`): when its credit is freed, everything of it
that waited is dropped too, and nothing older can be waiting behind it. The assumptions
about the controller are in `LinkUp`, `Transmit` and `LinkDown`: it completes packets in
order per link, reports no completion after the end of a link, and reuses a handle only
after the host has handled the events of its earlier life.

**Session** (`SessionProofs`): `LinkRecordsAgree`, `OpenWindowsScan`, `ScanningEnds`,
`DisconnectIsTold`, `ReconnectOnly`, `ChannelsAreCurrent` and `ControlComesFirst`, with
commands that may fail. `IInv == LinkInv /\ ChanInv`. The properties of links are
inductive together except for `ScanOnlyInWindow`: the end of a link closes whatever window
is open without a scan command. What saves it is `WindowAlone`: a window opened on a
settled session has no link beside it. The properties of channels need only that channels
are never renumbered and never return to their set-up; both are lost together with the link.

`ViolationsExplained` proves `ViolationCauses`. An event ends the
session when the host does not expect it, so the question is what the packets in `pipe`
say of a handle. `Orderly(pipe, h, Known, Live)` relates three things: what the session
knows of the handle `h` (the host's link, or one it rejected), what the controller has,
and the packets between them. They hold at most one beginning, before everything else, at
most one end, after everything else, and they lead from what is known to what is live.
The proof uses `WindowAlone` from above, since `disconnect` forgets a link that the
controller still has. TLC confirmed `EventInv` on the instance of `session_links` first.

**USB reader** (`UsbReaderProofs`): `WakeupsAreKept` (inductive by itself),
`StreamsAreIntact` and `EndComesLast`. For `StreamIntact`, `StreamInv` follows the bytes of
an endpoint through the device, the transfer and the partial buffer: they are one stretch
of its stream (`Stretch`), which begins with the packet after the last one framed
(`Stream`). What keeps it is the lemma `Framing`: `Frames` takes whole packets off a
stretch in order and leaves a stretch that is shorter than its first packet. It is proved
by induction on the length of the buffer. The library's induction theorems take an
operator and cannot be used, but its theorem that a non-empty set of naturals has a least
element can (`Least`, `Induct`). That the recursive definition of `Frames` has a solution
is proved in the same way (`FramesByTurns`). `EndInv`, for `EndIsLast`, says for each place
the worker may be at what the log of events sent so far (`received \o channel`) can end
with.

**ERTM** (`ErtmEngine`, `ErtmProofs`): `FramesAreValid` and `StreamRefinement`, for every
modulus, every window smaller than it, every script and any number of faults. The
invariant speaks of absolute positions in the stream of frames instead of sequence
numbers. For each direction there are numbers `acked <= taken <= acked + Window`: what the
sender knows to be acknowledged, and what the receiver has taken. `Carried` gives every
frame on the link a position and a position it acknowledges. Links lose frames but keep
their order, so acknowledgements on a link never go back and a frame is never further
from `taken` than the window. As the window is smaller than the modulus, only one position
is possible for a sequence number where it is read (`ModUnique`), so comparing sequence
numbers is comparing positions. The SDUs delivered are then those whose frames are below
`taken`, and each step of the engines delivers the next one or none, which is a step of
`SduStream` or a stutter. `ScriptAssumption` says that an SDU takes one frame or more, as
`send_sdu` does (`ertm.rs:265`).

**Opening** (`OpeningProofs`): `OpenedIdentity`, `RecoveryIsExact` and
`HandlesAreReleased`, from `IInv == Shape /\ Control /\ Identity /\ Recovery`, which TLC
also confirmed on the instance of `opening`. The crux is that an answer read may be old:
`Identity` says that all a living handle can deliver carries the address now active, since
an adapter changes its address only by a restart, which forgets every command. `Recovery`
says that between the write and the read-back the adapter has the requested address only
if it has restarted since the write, so that the address read is final, also when the
device disappears right after its answer.

**L2CAP** (`L2capInvariant`, `L2capProofs`): `ChannelsArePaired` proves `Paired`, for any
number of CIDs, all ports, servers, clients and habits, however the requests of the two
sides cross. `Paired` is about two records of channels, but what keeps it is on the link
between them, as octets. The proof reads a PDU as its receiver does, so it begins with the
codecs: a signalling frame is read as it was written, also when another one follows it in
the same PDU (`FrameRead`), and what `decode` takes out of a request and `Negotiate` puts
into the response are options again, so that the response is a frame too (`Decoded`,
`Negotiated`, `Encoded`). `encode` and `decode` are recursive functions on sequences;
`Recursion` shows once that such a function satisfies its equation, from the library's
theorem that a non-empty set of naturals has a least element.

`PairInv` says for each side that its known ends are matched (`Matched`), that no two of
its channels have the same other end (`Distinct`), that a connection request on its way
names a channel which waits for its answer and which no channel of the other side has yet
as its end (`Requested`), and that a successful answer on its way names two channels of
which one knows the other already (`Granted`). The last two say also that there is one
such PDU for a channel: a second one would join a channel twice. Handlers are reduced to
four kinds of change (`Keeps`, `Connected`, `Accepted`, `Learned`), and each kind is shown
once to keep `PairInv`. TLC confirmed `PairInv` on the instance of `l2cap` first. Besides
the ranges of constants the proof assumes that CIDs begin above the signalling CID
(`CidAssumption`; `classic.rs` has 0x40).

Only model-checked: all liveness, as the prover has neither fairness nor ENABLED, the
other invariants of `l2cap`, and the runs `sdp` and `hid_path`. `ResponsesMatch` is not
true of all constants: identifiers wrap after 255 requests. `NoInvalidPacket` and
`EndsAgree` follow the negotiation of every channel, and need beyond `PairInv` what each
configuration request on its way says of its sender's options. SDP's data elements are
nested and their codec uses `RECURSIVE` operators, which the prover cannot use. The
invariants of `hid_path` relate the octets of all packets sent so far to what was heard,
through folds over histories.

## Not modelled

- USB discovery and selection (`usb.rs`): the syntax of selectors and one pass over
  descriptors, without state of its own.
- The API's value types and checks (`api.rs`, `lib.rs`, most of `values.rs`) and the byte
  layout of CSR commands (`csr.rs`): pure conversions that no property here tells apart.
- Delegates of `DeviceRuntime` other than the crate's own, which supports no request, and
  the requests of `HostRuntime` (`hidp.rs`), which the session does not send.
- DisconnectionComplete events with a failure status, and a USB write that fails while a
  received packet is handled or a report is sent. The latter loses the credit of the
  packet until its link ends.
- ERTM frames on a channel of `L2capManager`: `Ertm` models the engine by itself.
  SelectiveReject, poll and final bits, which the engine never sends.
- Retransmission counters that overflow (`ertm.rs:552`, a `u16` without a limit when
  `max_retransmissions` is 0): reached only after 65535 retransmissions of one frame.
- Callbacks of the activity notifier, which run on the reader's thread: one that waits for
  a lock which the caller of `close` holds deadlocks, and the library cannot prevent it.
