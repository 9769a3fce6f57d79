----------------------------- MODULE HciPackets -----------------------------
(***************************************************************************)
(* The HCI packets of hci.rs and the parts of an L2CAP PDU in ACL packets:  *)
(* fragment_l2cap_pdu cuts it for the controller, AclAssembler joins what   *)
(* the controller delivers. decode_classic_event is the one of session.rs.  *)
(***************************************************************************)
EXTENDS Bytes

CommandType == 1
AclType == 2
EventType == 4

\* CommandPacket::new, EventPacket::new and AclPacket::new; what they refuse is
\* not representable in the fields of a packet.
CommandPacket(opcode, parameters) ==
    [type |-> CommandType, opcode |-> opcode, parameters |-> parameters]
EventPacket(event_code, parameters) ==
    [type |-> EventType, event_code |-> event_code, parameters |-> parameters]
AclPacket(handle, boundary, data) ==
    IF handle > 4095 \/ boundary > 3 \/ Len(data) > 65535
    THEN Invalid
    ELSE [type |-> AclType, connection_handle |-> handle, packet_boundary |-> boundary, data |-> data]

FirstNonFlushable == 0
Continuation == 1
FirstFlushable == 2

\* Packet::to_bytes. The broadcast flag is 0 in every packet of this crate.
packet_to_bytes(packet) ==
    CASE packet.type = CommandType ->
            <<CommandType>> \o LE16(packet.opcode) \o <<Len(packet.parameters)>> \o packet.parameters
      [] packet.type = EventType ->
            <<EventType, packet.event_code, Len(packet.parameters)>> \o packet.parameters
      [] packet.type = AclType ->
            <<AclType>> \o LE16(packet.connection_handle + 4096 * packet.packet_boundary)
            \o LE16(Len(packet.data)) \o packet.data

\* The octets a packet has by its header, and the octets of the header.
HeaderSize(type) == CASE type = CommandType -> 4 [] type = EventType -> 3 [] type = AclType -> 5
Length(bytes) ==
    CASE bytes[1] = CommandType -> bytes[4]
      [] bytes[1] = EventType -> bytes[3]
      [] bytes[1] = AclType -> le16(bytes, 3)

\* Packet::from_bytes: a packet is exactly as long as its header says.
packet_from_bytes(bytes) ==
    IF bytes = <<>>
    THEN Invalid
    ELSE IF bytes[1] \notin {CommandType, AclType, EventType}
    THEN Invalid
    ELSE IF Len(bytes) < HeaderSize(bytes[1])
    THEN Invalid
    ELSE LET header == HeaderSize(bytes[1])
             rest == From(bytes, header)
             word == le16(bytes, 1)
         IN  IF Len(rest) # Length(bytes)
             THEN Invalid
             ELSE CASE bytes[1] = CommandType -> CommandPacket(word, rest)
                    [] bytes[1] = EventType -> EventPacket(bytes[2], rest)
                    [] bytes[1] = AclType -> AclPacket(word % 4096, (word \div 4096) % 4, rest)

-----------------------------------------------------------------------------
(* L2CAP PDUs in ACL packets *)

\* Where the parts of n octets begin and end when each holds at most size.
Parts(n, size) == (n + size - 1) \div size
Part(pdu, size, i) == SubSeq(pdu, (i - 1) * size + 1, Least(i * size, Len(pdu)))

BugFragmentSize(handle, size, pdu, flushable) ==
    [i \in 1..Parts(Len(pdu), size + 1) |->
        AclPacket(handle, IF i = 1 THEN FirstNonFlushable ELSE Continuation, Part(pdu, size + 1, i))]

fragment_l2cap_pdu(handle, size, pdu, flushable) ==
    [i \in 1..Parts(Len(pdu), size) |->
        AclPacket(handle,
                  IF i > 1 THEN Continuation
                  ELSE IF flushable THEN FirstFlushable ELSE FirstNonFlushable,
                  Part(pdu, size, i))]

\* AclAssembler: the half-assembled PDUs by handle, what feed returned last, and
\* whether it was an error.
NoPdu == <<>>
Without(pending, handle) == [h \in DOMAIN pending \ {handle} |-> pending[h]]
Store(pending, handle, data) ==
    [h \in DOMAIN pending \cup {handle} |-> IF h = handle THEN data ELSE pending[h]]
Complete(pending, handle, data) == [pending |-> Without(pending, handle), pdu |-> data, ok |-> TRUE]
Incomplete(pending, handle, data) ==
    [pending |-> Store(pending, handle, data), pdu |-> NoPdu, ok |-> TRUE]
Failed(pending) == [pending |-> pending, pdu |-> NoPdu, ok |-> FALSE]

\* The length of the PDU that begins with data.
Expected(data) == le16(data, 0) + 4

feed_continuation(pending, packet) ==
    LET handle == packet.connection_handle
        data == pending[handle] \o packet.data
    IN  IF handle \notin DOMAIN pending
        THEN Failed(pending)
        ELSE IF Len(data) > Expected(data)
        THEN Failed(Without(pending, handle))
        ELSE IF Len(data) = Expected(data)
        THEN Complete(pending, handle, data)
        ELSE Incomplete(pending, handle, data)

BugStartKeepsPending(pending, packet) ==
    LET handle == packet.connection_handle
    IN  IF handle \in DOMAIN pending
        THEN feed_continuation(pending, packet)
        ELSE IF Len(packet.data) = Expected(packet.data)
        THEN Complete(pending, handle, packet.data)
        ELSE Incomplete(pending, handle, packet.data)

\* A start packet replaces what its handle has pending, unless it is refused.
feed_start(pending, packet) ==
    LET handle == packet.connection_handle
        data == packet.data
    IN  IF Len(data) < 4
        THEN Failed(pending)
        ELSE IF Len(data) > Expected(data)
        THEN Failed(pending)
        ELSE IF Len(data) = Expected(data)
        THEN Complete(pending, handle, data)
        ELSE Incomplete(pending, handle, data)

feed(pending, packet) ==
    IF packet.packet_boundary = Continuation
    THEN feed_continuation(pending, packet)
    ELSE feed_start(pending, packet)

clear_handle(pending, handle) == Without(pending, handle)

-----------------------------------------------------------------------------
(* Events *)

EVENT_CONNECTION_COMPLETE == 3
EVENT_CONNECTION_REQUEST == 4
EVENT_DISCONNECTION_COMPLETE == 5
EVENT_AUTHENTICATION_COMPLETE == 6
EVENT_ENCRYPTION_CHANGE == 8
EVENT_NUMBER_OF_COMPLETED_PACKETS == 19
EVENT_LINK_KEY_REQUEST == 23
EVENT_LINK_KEY_NOTIFICATION == 24
EVENT_IO_CAPABILITY_REQUEST == 49
EVENT_USER_CONFIRMATION_REQUEST == 51

\* Where an event has its status, its handle and its peer's address: the
\* offset, or Absent; and how long it is.
Absent == 255
Form(size, status, handle, peer) ==
    [size |-> size, status |-> status, handle |-> handle, peer |-> peer]
FormOf(code) ==
    CASE code = EVENT_CONNECTION_COMPLETE -> Form(11, 0, 1, 3)
      [] code = EVENT_CONNECTION_REQUEST -> Form(10, Absent, Absent, 0)
      [] code = EVENT_DISCONNECTION_COMPLETE -> Form(4, 0, 1, Absent)
      [] code = EVENT_AUTHENTICATION_COMPLETE -> Form(3, 0, 1, Absent)
      [] code = EVENT_ENCRYPTION_CHANGE -> Form(4, 0, 1, Absent)
      [] code \in {EVENT_LINK_KEY_REQUEST, EVENT_IO_CAPABILITY_REQUEST} -> Form(6, Absent, Absent, 0)
      [] code = EVENT_LINK_KEY_NOTIFICATION -> Form(23, Absent, Absent, 0)
      [] code = EVENT_USER_CONFIRMATION_REQUEST -> Form(10, Absent, Absent, 0)

Decoded == {EVENT_CONNECTION_COMPLETE, EVENT_CONNECTION_REQUEST, EVENT_DISCONNECTION_COMPLETE, EVENT_AUTHENTICATION_COMPLETE,
            EVENT_ENCRYPTION_CHANGE, EVENT_LINK_KEY_REQUEST, EVENT_IO_CAPABILITY_REQUEST, EVENT_LINK_KEY_NOTIFICATION,
            EVENT_USER_CONFIRMATION_REQUEST}

\* ClassicEvent; detail holds the octets after the fields named here
\* (the reason, the encryption state, the key) or the packets completed.
ClassicEvent(code, status, handle, peer, detail) ==
    [code |-> code, status |-> status, handle |-> handle, peer |-> peer, detail |-> detail]

NoEvents == [ok |-> TRUE, events |-> <<>>]
Malformed == [ok |-> FALSE, events |-> <<>>]

\* completed_packet_events: one event for each entry
completed_packet_events(parameters) ==
    LET Entry(i) == 1 + 4 * (i - 1)
    IN  IF parameters = <<>>
        THEN Malformed
        ELSE IF Len(parameters) # 1 + 4 * parameters[1]
        THEN Malformed
        ELSE [ok |-> TRUE,
              events |-> [i \in 1..parameters[1] |->
                            ClassicEvent(EVENT_NUMBER_OF_COMPLETED_PACKETS, 0, le16(parameters, Entry(i)), <<>>,
                                         <<le16(parameters, Entry(i) + 2)>>)]]

\* A DisconnectionComplete that reports a failure, and any other event, is
\* decoded to nothing.
decode_classic_event(event) ==
    LET code == event.event_code
        parameters == event.parameters
        form == FormOf(code)
        status == IF form.status = Absent THEN 0 ELSE parameters[form.status + 1]
        handle == IF form.handle = Absent THEN 0 ELSE le16(parameters, form.handle)
        peer == IF form.peer = Absent THEN <<>> ELSE SubSeq(parameters, form.peer + 1, form.peer + 6)
        detail == From(parameters, IF form.peer = Absent THEN 3 ELSE form.peer + 6)
    IN  IF code = EVENT_NUMBER_OF_COMPLETED_PACKETS
        THEN completed_packet_events(parameters)
        ELSE IF code \notin Decoded
        THEN NoEvents
        ELSE IF Len(parameters) # form.size
        THEN Malformed
        ELSE IF code = EVENT_DISCONNECTION_COMPLETE /\ status # 0
        THEN NoEvents
        ELSE [ok |-> TRUE, events |-> <<ClassicEvent(code, status, handle, peer, detail)>>]

=============================================================================
