------------------------------- MODULE HidPath -------------------------------
(***************************************************************************)
(* The way of a HID message through the stack, in octets: from ACL packets  *)
(* through AclAssembler, L2capPdu, ChannelManager and HidpBridge to the     *)
(* application's events, and back through fragment_l2cap_pdu and AclFlow to *)
(* the peer. ClassicHost::process_acl and BackendSession::handle_packet are *)
(* the operators that join the parts.                                       *)
(*                                                                         *)
(* The peer sends PDUs on a link whose HID channels are open (modules       *)
(* Session and L2cap open them). Its controller cuts them anywhere, may     *)
(* give one up half-way, and may lose the link and reuse its handle. The    *)
(* controller hands over one packet at a time; the order of events and data *)
(* is the subject of Session.                                               *)
(***************************************************************************)
EXTENDS HciPackets, L2capManager, Hidp, SequencesExt

CONSTANTS Handles,       \* connection handles
          PayloadSize,   \* acl_packet_length of the controller
          TotalPackets,  \* acl_packet_count of the controller
          PeerMtu,       \* the MTU the peer asked for on both channels
          Messages,      \* what the peer may send: see Sent
          Reports,       \* payloads the application may send
          Strays,        \* ACL packets that no PDU can have
          MaxSent,       \* bound: messages begun
          MaxReports,    \* bound: reports of the application
          MaxLinks       \* bound: links

ControlCid == FirstCid
InterruptCid == FirstCid + 1
PeerCid == [control |-> FirstCid + 16, interrupt |-> FirstCid + 17]

\* A message of the peer is a PDU, with what this device has to make of it: the
\* answers the peer is to hear, the output reports the application is to get,
\* and the channel it closes, if any.
ASSUME MessageAssumption ==
    \A m \in Messages : /\ m.cid \in {SignallingCid, ControlCid, InterruptCid}
                        /\ {"sdu", "answers", "outputs", "closes"} \subseteq DOMAIN m
ASSUME SizeAssumption ==
    /\ PayloadSize \in Nat \ {0} /\ TotalPackets \in Nat \ {0} /\ PeerMtu \in MinMtu..65535
    /\ Handles \subseteq 0..4095

VARIABLES host,    \* ClassicHost and the protocol state of the session
          peer,    \* what the peer is sending and has heard
          sent,    \* messages the peer has sent to the end, over all links
          due,     \* what the peer is to hear on this link
          begun,   \* messages begun, reports asked for and links so far
          strayed  \* a packet was delivered that no PDU has

vars == <<host, peer, sent, due, begun, strayed>>

NoHandle == 4096

\* The channel manager of a link whose HID channels the peer has opened.
Opened(psm, channel) ==
    [Channel(psm, Servers[psm], PeerCid[channel], "Open", TRUE) EXCEPT
        !.peer_mtu = PeerMtu,
        !.peer_configuration_received = TRUE,
        !.configuration_response_received = TRUE]
Linked == [New EXCEPT !.channels = ControlCid :> Opened(17, "control")
                                   @@ InterruptCid :> Opened(19, "interrupt")]

-----------------------------------------------------------------------------
(* ClassicHost and BackendSession *)

NewHost == [handle |-> NoHandle, pending |-> <<>>, manager |-> New, queued |-> <<>>,
            in_flight |-> 0, air |-> <<>>, events |-> <<>>, terminal |-> FALSE]

BugErrorIgnored(h) == h

\* map_host_error, handle_polled_packet: any error ends the session.
Terminal(h) == [h EXCEPT !.terminal = TRUE]

\* AclFlow::flush; the packets in the air are with the controller
flush(h) ==
    LET n == Least(Len(h.queued), TotalPackets - h.in_flight)
    IN  [h EXCEPT !.queued = From(@, n),
                  !.in_flight = @ + n,
                  !.air = @ \o [i \in 1..n |-> packet_to_bytes(h.queued[i])]]

flush_channels(h) ==
    LET Cut(pdu) == fragment_l2cap_pdu(h.handle, PayloadSize, pdu_to_bytes(pdu), FALSE)
        packets == FlattenSeq([i \in DOMAIN h.manager.outbound |-> Cut(h.manager.outbound[i])])
    IN  flush([h EXCEPT !.queued = @ \o packets, !.manager.outbound = <<>>])

\* ChannelManager::send refuses a channel that is not open and an SDU that is too long.
Sendable(h, cid, sdu) ==
    /\ h.handle # NoHandle
    /\ h.manager.channels[cid].state = "Open"
    /\ Len(sdu) <= h.manager.channels[cid].peer_mtu

send_channel_sdu(h, cid, sdu) ==
    IF Sendable(h, cid, sdu)
    THEN flush_channels([h EXCEPT !.manager = send(@, cid, sdu)])
    ELSE Terminal(h)

apply_hidp_event(h, event) ==
    CASE event.do = "respond" -> send_channel_sdu(h, ControlCid, event.bytes)
      [] event.do = "output" -> [h EXCEPT !.events = Append(@, event.bytes)]
      [] OTHER -> h

\* The SDUs of a channel, in order; only the control channel answers what it
\* cannot read. HidpBridge::new(0, 0) made the runtime.
apply_handled(h, channel, cid, handled) ==
    IF handled.error = "none"
    THEN FoldLeft(apply_hidp_event, h, handled.events)
    ELSE IF handled.error = "Malformed" /\ channel = "control"
    THEN send_channel_sdu(h, cid, invalid_parameter_response)
    ELSE h
handle_sdu(h, channel, cid, sdu) ==
    IF h.terminal THEN h ELSE apply_handled(h, channel, cid, bridge_handle(channel, sdu, 0, PeerMtu))

Drain(h, channel, cid) ==
    LET One(g, sdu) == handle_sdu(g, channel, cid, sdu)
    IN  FoldLeft(One, [h EXCEPT !.manager.channels[cid].received = <<>>],
                 h.manager.channels[cid].received)

process_protocol_input(h) ==
    Drain(Drain(h, "control", ControlCid), "interrupt", InterruptCid)

Managed(h, manager) ==
    IF manager.error # "none" THEN Terminal(h) ELSE flush_channels([h EXCEPT !.manager = manager])
Fed(h, fed) ==
    LET after == [h EXCEPT !.pending = fed.pending]
    IN  IF ~fed.ok
        THEN Terminal(after)
        ELSE IF fed.pdu = NoPdu
        THEN after
        ELSE Managed(after, process_pdu(h.manager, pdu_from_bytes(fed.pdu), Plain))
process_acl(h, packet) ==
    IF packet.connection_handle # h.handle THEN Terminal(h) ELSE Fed(h, feed(h.pending, packet))

\* handle_event, DisconnectionComplete
Disconnected(h) ==
    [h EXCEPT !.handle = NoHandle, !.manager = New, !.queued = <<>>, !.in_flight = 0,
              !.pending = clear_handle(@, h.handle)]

handle_event(h, event) ==
    CASE event.code = EVENT_CONNECTION_COMPLETE ->
            [h EXCEPT !.handle = event.handle, !.manager = Linked]
      [] event.code = EVENT_NUMBER_OF_COMPLETED_PACKETS ->
            IF event.detail[1] > h.in_flight
            THEN Terminal(h)
            ELSE flush([h EXCEPT !.in_flight = @ - event.detail[1]])
      [] event.code = EVENT_DISCONNECTION_COMPLETE ->
            IF event.handle = h.handle THEN Disconnected(h) ELSE Terminal(h)

\* handle_packet, of the octets that the USB reader framed
AfterAcl(h) == IF h.terminal THEN h ELSE process_protocol_input(h)
AfterEvents(h, decoded) == IF decoded.ok THEN FoldLeft(handle_event, h, decoded.events) ELSE Terminal(h)
on_packet(h, packet) ==
    IF packet = Invalid
    THEN Terminal(h)
    ELSE CASE packet.type = CommandType -> Terminal(h)
           [] packet.type = AclType -> AfterAcl(process_acl(h, packet))
           [] packet.type = EventType -> AfterEvents(h, decode_classic_event(packet))
handle_packet(h, bytes) == on_packet(h, packet_from_bytes(bytes))

-----------------------------------------------------------------------------
(* Steps *)

Nobody == [rest |-> <<>>, message |-> [cid |-> 0], pending |-> <<>>, heard |-> <<>>, closed |-> {}]

Init ==
    /\ \E handle \in Handles : host = [NewHost EXCEPT !.handle = handle, !.manager = Linked]
    /\ peer = Nobody
    /\ sent = <<>> /\ due = <<>>
    /\ begun = [messages |-> 0, reports |-> 0, links |-> 1]
    /\ strayed = FALSE

Running == ~host.terminal
Up == Running /\ host.handle # NoHandle

\* The controller hands over the next n octets of the message under way, in a
\* packet that begins a PDU or continues one.
Deliver(message, boundary, octets, n) ==
    LET packet == AclPacket(host.handle, boundary, SubSeq(octets, 1, n))
        last == n = Len(octets)
    IN  /\ host' = handle_packet(host, packet_to_bytes(packet))
        /\ peer' = [peer EXCEPT !.rest = From(octets, n),
                                !.message = message,
                                !.closed = IF last THEN @ \cup message.closes ELSE @]
        /\ sent' = IF last THEN Append(sent, message) ELSE sent
        /\ due' = IF last THEN due \o message.answers ELSE due
        /\ UNCHANGED strayed

Begin ==
    /\ Up /\ peer.rest = <<>> /\ begun.messages < MaxSent
    /\ \E message \in {m \in Messages : m.cid \notin peer.closed} :
        LET pdu == pdu_to_bytes(Pdu(message.cid, message.sdu))
        IN  \E n \in 4..Len(pdu) : Deliver(message, FirstFlushable, pdu, n)
    /\ begun' = [begun EXCEPT !.messages = @ + 1]

Continue ==
    /\ Up /\ peer.rest # <<>>
    /\ \E n \in 1..Len(peer.rest) : Deliver(peer.message, Continuation, peer.rest, n)
    /\ UNCHANGED begun

\* The peer's controller flushes the PDU under way.
GiveUp ==
    /\ Up /\ peer.rest # <<>>
    /\ peer' = [peer EXCEPT !.rest = <<>>]
    /\ UNCHANGED <<host, sent, due, begun, strayed>>

\* send_interrupt: rejected without effect when the report is too long for the
\* peer or its channel is closed.
SendInterrupt ==
    /\ Running /\ begun.reports < MaxReports
    /\ \E report \in Reports :
        LET encoded == encode_input(report)
            ok == host.handle # NoHandle /\ Len(encoded) <= PeerMtu /\ Sendable(host, InterruptCid, encoded)
        IN  /\ host' = IF ok THEN send_channel_sdu(host, InterruptCid, encoded) ELSE host
            /\ due' = IF ok THEN Append(due, [what |-> "interrupt", parameter |-> INPUT_REPORT, data |-> report])
                      ELSE due
    /\ begun' = [begun EXCEPT !.reports = @ + 1]
    /\ UNCHANGED <<peer, sent, strayed>>

\* What the peer makes of a PDU: frames on the signalling channel, HIDP on the others.
HearFrame(frame) == [what |-> "frame", parameter |-> frame.identifier, data |-> frame]
Hear(pdu) ==
    IF pdu.cid = SignallingCid
    THEN HearFrame(frame_from_bytes(pdu.payload))
    ELSE host_handle(IF pdu.cid = PeerCid.control THEN "control" ELSE "interrupt", pdu.payload)
Joined(fed) ==
    [peer EXCEPT !.pending = fed.pending,
                 !.heard = IF fed.pdu = NoPdu THEN @ ELSE Append(@, Hear(pdu_from_bytes(fed.pdu)))]

\* The controller sends a packet to the peer, which joins it to what it has, and
\* reports it as completed.
Transmit ==
    /\ Up /\ host.air # <<>>
    /\ peer' = Joined(feed(peer.pending, packet_from_bytes(Head(host.air))))
    /\ host' = handle_packet([host EXCEPT !.air = Tail(@)],
                             packet_to_bytes(EventPacket(EVENT_NUMBER_OF_COMPLETED_PACKETS,
                                                         <<1>> \o LE16(host.handle) \o LE16(1))))
    /\ UNCHANGED <<sent, due, begun, strayed>>

\* The link ends; what was in the air and what the peer was sending is lost.
LinkEnds ==
    /\ Up
    /\ host' = handle_packet([host EXCEPT !.air = <<>>],
                             packet_to_bytes(EventPacket(EVENT_DISCONNECTION_COMPLETE,
                                                         <<0>> \o LE16(host.handle) \o <<19>>)))
    /\ peer' = Nobody /\ due' = <<>>
    /\ UNCHANGED <<sent, begun, strayed>>

\* A later link, with its channels, and perhaps with the handle of an earlier one.
LinkBegins ==
    /\ Running /\ host.handle = NoHandle /\ begun.links < MaxLinks
    /\ \E handle \in Handles :
        host' = handle_packet(host, packet_to_bytes(EventPacket(EVENT_CONNECTION_COMPLETE,
                    <<0>> \o LE16(handle) \o <<1, 2, 3, 4, 5, 6>> \o <<1, 0>>)))
    /\ begun' = [begun EXCEPT !.links = @ + 1]
    /\ UNCHANGED <<peer, sent, due, strayed>>

\* The controller delivers a packet that no cut of a PDU has.
Stray ==
    /\ Up /\ ~strayed
    /\ \E stray \in Strays :
        host' = handle_packet(host, packet_to_bytes(AclPacket(host.handle, stray.boundary, stray.data)))
    /\ strayed' = TRUE
    /\ UNCHANGED <<peer, sent, due, begun>>

Next == Begin \/ Continue \/ GiveUp \/ SendInterrupt \/ Transmit \/ LinkEnds \/ LinkBegins \/ Stray

Spec == Init /\ [][Next]_vars

-----------------------------------------------------------------------------
(* Properties *)

\* The peer hears on every link exactly what its complete messages and the
\* application's reports call for, in the order they were made, however PDUs
\* are cut, given up and interleaved: answers have the right identifier and
\* content, none is lost, doubled or mixed with another, and once the
\* controller has sent all of them the peer has heard all of them.
HeardInOrder ==
    /\ IsPrefix(peer.heard, due)
    /\ (Up /\ host.air = <<>>) => peer.heard = due

\* The application gets the output reports of the messages that were sent to
\* the end, in order and whole: a PDU given up half-way, by the peer or with
\* its link, leaves nothing behind that a later one could be joined to.
OutputsReported == host.events = FlattenSeq([i \in DOMAIN sent |-> sent[i].outputs])

\* The session fails exactly when the controller delivers a packet that no PDU
\* can have: no legal cut, flush, message or change of links ends it.
FailsOnStrays == host.terminal = strayed

\* Every packet given to the controller is well formed and fits its buffers,
\* and there are never more of them than the controller has buffers.
PacketsFit ==
    /\ Len(host.air) <= TotalPackets
    /\ \A i \in DOMAIN host.air :
        LET packet == packet_from_bytes(host.air[i])
        IN  packet # Invalid /\ packet.connection_handle = host.handle /\ Len(packet.data) <= PayloadSize

=============================================================================
