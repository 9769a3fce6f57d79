--------------------------------- MODULE Hidp ---------------------------------
(***************************************************************************)
(* HIDP: the messages of hidp.rs as octets and back, what the device makes  *)
(* of them (DeviceRuntime), how hid_service.rs turns that into answers and  *)
(* reports (HidpBridge), and what the host at the other end hears           *)
(* (HostRuntime).                                                           *)
(***************************************************************************)
EXTENDS Bytes

HANDSHAKE == 0
CONTROL == 1
GET_REPORT == 4
SET_REPORT == 5
GET_PROTOCOL == 6
SET_PROTOCOL == 7
DATA == 10

OTHER_REPORT == 0
INPUT_REPORT == 1
OUTPUT_REPORT == 2

SUCCESSFUL == 0
ERR_INVALID_REPORT_ID == 2
ERR_UNSUPPORTED_REQUEST == 3
ERR_INVALID_PARAMETER == 4
ERR_UNKNOWN == 14

SUSPEND == 3
EXIT_SUSPEND == 4
VIRTUAL_CABLE_UNPLUG == 5

-----------------------------------------------------------------------------
(* Message *)

NoSize == 65536  \* buffer_size is None

\* The parameter of a message is its result, command, mode or report type.
\* Only GetReport has a report id and a buffer size outside its data.
Message(type, parameter, data) ==
    [message_type |-> type, parameter |-> parameter, data |-> data,
     report_id |-> 0, buffer_size |-> NoSize]
GetReport(report_type, report_id, buffer_size) ==
    [message_type |-> GET_REPORT, parameter |-> report_type, data |-> <<>>,
     report_id |-> report_id, buffer_size |-> buffer_size]
Handshake(result) == Message(HANDSHAKE, result, <<>>)

\* The parameter and the data on the wire: bit 3 tells that a size follows.
WireParameter(message) ==
    IF message.buffer_size # NoSize /\ message.parameter < 8
    THEN message.parameter + 8
    ELSE message.parameter
WireData(message) ==
    IF message.message_type # GET_REPORT
    THEN message.data
    ELSE <<message.report_id>>
         \o (IF message.buffer_size = NoSize THEN <<>> ELSE LE16(message.buffer_size))

message_to_bytes(message) ==
    <<16 * message.message_type + WireParameter(message)>> \o WireData(message)

\* Types whose messages have no data.
Bare == {HANDSHAKE, CONTROL, GET_PROTOCOL}

report_from_bytes(parameter, data) ==
    IF Len(data) # (IF parameter >= 8 THEN 3 ELSE 1)
    THEN Invalid
    ELSE GetReport(parameter % 4, data[1], IF parameter >= 8 THEN le16(data, 1) ELSE NoSize)

message_from_bytes(bytes) ==
    LET type == bytes[1] \div 16
        parameter == bytes[1] % 16
        data == Tail(bytes)
    IN  IF bytes = <<>>
        THEN Invalid
        ELSE IF type \in Bare \cup {SET_PROTOCOL} /\ data # <<>>
        THEN Invalid
        ELSE CASE type = GET_REPORT -> report_from_bytes(parameter, data)
               [] type = GET_PROTOCOL -> Message(type, 0, <<>>)
               [] type = SET_PROTOCOL -> Message(type, parameter % 2, <<>>)
               [] type \in {SET_REPORT, DATA} -> Message(type, parameter % 4, data)
               [] OTHER -> Message(type, parameter, data)

-----------------------------------------------------------------------------
(* DeviceRuntime *)

\* What the delegate answers to a request: GetSetStatus. UnsupportedDelegate,
\* the only delegate of the crate, supports nothing.
Statuses == {"SUCCESS", "REPORT_ID_NOT_FOUND", "ERR_INVALID_PARAMETER", "ERR_UNSUPPORTED_REQUEST",
             "ERR_UNKNOWN", "FAILURE"}
Unsupported(request) == [status |-> "ERR_UNSUPPORTED_REQUEST", data |-> <<>>]

\* A DeviceEvent: an answer to send, data, or a command or message to note.
Event(kind, message) == [kind |-> kind, message |-> message]
SendControl(message) == Event("SendControl", message)

GetReportResponse(request, result, mtu) ==
    LET data == <<request.report_id>> \o result.data
    IN  CASE result.status = "SUCCESS" ->
                IF Len(data) < mtu
                THEN Message(DATA, request.parameter, data)
                ELSE Handshake(ERR_INVALID_PARAMETER)
          [] result.status = "REPORT_ID_NOT_FOUND" -> Handshake(ERR_INVALID_REPORT_ID)
          [] result.status = "ERR_INVALID_PARAMETER" -> Handshake(ERR_INVALID_PARAMETER)
          [] result.status = "ERR_UNSUPPORTED_REQUEST" -> Handshake(ERR_UNSUPPORTED_REQUEST)
          [] OTHER -> Handshake(ERR_UNKNOWN)

SetReportResponse(result) ==
    Handshake(CASE result.status = "SUCCESS" -> SUCCESSFUL
                [] result.status = "ERR_INVALID_PARAMETER" -> ERR_INVALID_PARAMETER
                [] result.status = "REPORT_ID_NOT_FOUND" -> ERR_INVALID_REPORT_ID
                [] OTHER -> ERR_UNSUPPORTED_REQUEST)

ProtocolResponse(request, result) ==
    IF result.status # "SUCCESS"
    THEN Handshake(ERR_UNSUPPORTED_REQUEST)
    ELSE IF request.message_type = GET_PROTOCOL
    THEN Message(DATA, OTHER_REPORT, result.data)
    ELSE Handshake(SUCCESSFUL)

Commands == {SUSPEND, EXIT_SUSPEND, VIRTUAL_CABLE_UNPLUG}

BugSilentOnUnknown(message) == <<Event("Unsupported", message)>>

\* Everything that is not for a device, a handshake too, is answered.
OtherMessage(message) ==
    <<Event("Unsupported", message), SendControl(Handshake(ERR_UNSUPPORTED_REQUEST))>>

Handled(events) == [ok |-> TRUE, events |-> events]
Unreadable == [ok |-> FALSE, events |-> <<>>]

on_control(message, mtu) ==
    LET result == Unsupported(message)
        type == message.message_type
    IN  IF message = Invalid
        THEN Unreadable
        ELSE IF type = SET_REPORT /\ message.data = <<>>
        THEN Unreadable
        ELSE Handled(
               CASE type = GET_REPORT -> <<SendControl(GetReportResponse(message, result, mtu))>>
                 [] type = SET_REPORT -> <<SendControl(SetReportResponse(result))>>
                 [] type \in {GET_PROTOCOL, SET_PROTOCOL} ->
                        <<SendControl(ProtocolResponse(message, result))>>
                 [] type = DATA -> <<Event("Data", message)>>
                 [] type = CONTROL ->
                        <<Event(IF message.parameter \in Commands THEN "Command" ELSE "Unsupported",
                                message)>>
                 [] OTHER -> OtherMessage(message))

handle_control(bytes, mtu) == on_control(message_from_bytes(bytes), mtu)

on_interrupt(message) ==
    IF message = Invalid
    THEN Unreadable
    ELSE Handled(<<Event(IF message.message_type = DATA THEN "Data" ELSE "Unsupported", message)>>)

handle_interrupt(bytes) == on_interrupt(message_from_bytes(bytes))

-----------------------------------------------------------------------------
(* HidpBridge *)

\* What the session gets to do: send an answer, or report an output report.
\* Suspend, resume, unplug and what is unsupported lead to nothing.
Answer(bytes) == [do |-> "respond", bytes |-> bytes]
Output(payload) == [do |-> "output", bytes |-> payload]
Nothing == [do |-> "nothing", bytes |-> <<>>]

translate_event(event) ==
    CASE event.kind = "SendControl" -> Answer(message_to_bytes(event.message))
      [] event.kind = "Data" /\ event.message.parameter = OUTPUT_REPORT -> Output(event.message.data)
      [] OTHER -> Nothing

\* HidpBridge::handle: the events of an SDU on a channel. A response longer than the peer's
\* MTU fails the whole call. The runtime keeps the MTU it was made with.
Checked(events, mtu) ==
    IF \E i \in DOMAIN events : events[i].do = "respond" /\ Len(events[i].bytes) > mtu
    THEN [error |-> "PeerMtuExceeded", events |-> <<>>]
    ELSE [error |-> "none", events |-> events]
Bridged(handled, mtu) ==
    IF handled.ok
    THEN Checked([i \in DOMAIN handled.events |-> translate_event(handled.events[i])], mtu)
    ELSE [error |-> "Malformed", events |-> <<>>]
bridge_handle(channel, bytes, runtime_mtu, mtu) ==
    Bridged(IF channel = "control" THEN handle_control(bytes, runtime_mtu) ELSE handle_interrupt(bytes), mtu)

invalid_parameter_response == message_to_bytes(Handshake(ERR_INVALID_PARAMETER))

\* encode_input: the input report that send_interrupt sends
encode_input(payload) == message_to_bytes(Message(DATA, INPUT_REPORT, payload))

-----------------------------------------------------------------------------
(* HostRuntime *)

\* What a host hears on a channel: a handshake, data, an unplug, or something
\* that is not for a host.
Heard(what, message) == [what |-> what, parameter |-> message.parameter, data |-> message.data]

HeardOn(channel, message) ==
    LET type == message.message_type
    IN  IF message = Invalid
        THEN Heard("Invalid", Message(0, 0, <<>>))
        ELSE Heard(CASE type = DATA -> channel
                     [] type = HANDSHAKE /\ channel = "control" -> "Handshake"
                     [] type = CONTROL /\ channel = "control"
                            /\ message.parameter = VIRTUAL_CABLE_UNPLUG -> "Unplug"
                     [] OTHER -> "Unsupported",
                   message)
host_handle(channel, bytes) == HeardOn(channel, message_from_bytes(bytes))

=============================================================================
