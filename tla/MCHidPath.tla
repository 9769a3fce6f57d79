------------------------------ MODULE MCHidPath ------------------------------
(* An instance of HidPath: a peer that sends one message of each kind and    *)
(* expects what a HID device that supports no request answers.               *)
EXTENDS HidPath

\* The services this device listens on: SDP, HID control and HID interrupt.
HidServers == [psm \in {1, 17, 19} |-> [mtu |-> 48, mode |-> "basic"]]

Sends(cid, sdu, answers, outputs, closes) ==
    [cid |-> cid, sdu |-> sdu, answers |-> answers, outputs |-> outputs, closes |-> closes]

HearsHandshake(result) == [what |-> "Handshake", parameter |-> result, data |-> <<>>]
HearsFrame(frame) == [what |-> "frame", parameter |-> frame.identifier, data |-> frame]

\* Requests a device has to answer and this one does not support.
Requests == {
    GetReport(1, 5, NoSize), GetReport(3, 5, 300), Message(SET_REPORT, OUTPUT_REPORT, <<7>>),
    Message(GET_PROTOCOL, 0, <<>>), Message(SET_PROTOCOL, 1, <<>>), Message(9, 2, <<1>>),
    Handshake(SUCCESSFUL)}
\* Octets that are no message: nothing, a report without its id, a size cut
\* short, a protocol request with an octet too many, a report to set without data.
Garbled == {<<>>, <<65>>, <<73, 5, 1>>, <<96, 0>>, <<82>>}
\* Messages that are not answered and of no interest to the application.
Notes == {Message(CONTROL, SUSPEND, <<>>), Message(CONTROL, 1, <<>>), Message(DATA, 3, <<8>>)}

ControlMessages ==
    {Sends(ControlCid, message_to_bytes(m), <<HearsHandshake(ERR_UNSUPPORTED_REQUEST)>>, <<>>, {}) :
        m \in Requests}
    \cup {Sends(ControlCid, sdu, <<HearsHandshake(ERR_INVALID_PARAMETER)>>, <<>>, {}) : sdu \in Garbled}
    \cup {Sends(ControlCid, message_to_bytes(m), <<>>, <<>>, {}) : m \in Notes}
    \cup {Sends(ControlCid, message_to_bytes(Message(DATA, OUTPUT_REPORT, <<3, 4>>)), <<>>, <<<<3, 4>>>>, {})}

InterruptMessages == {
    Sends(InterruptCid, message_to_bytes(Message(DATA, OUTPUT_REPORT, <<1, 2>>)), <<>>, <<<<1, 2>>>>, {}),
    Sends(InterruptCid, message_to_bytes(Message(GET_PROTOCOL, 0, <<>>)), <<>>, <<>>, {}),
    Sends(InterruptCid, <<>>, <<>>, <<>>, {})}

\* On the signalling channel: requests with their answers, frames to pass over,
\* and the end of the interrupt channel.
Signals(frame, answers, closes) == Sends(SignallingCid, frame_to_bytes(frame), answers, <<>>, closes)
Ends == <<InterruptCid, PeerCid.interrupt>>
SignallingMessages == {
    Signals(Frame(EchoRequest, 9, 0, <<>>, <<5>>), <<HearsFrame(Frame(EchoResponse, 9, 0, <<>>, <<5>>))>>, {}),
    Signals(Frame(InformationRequest, 8, 0, <<1>>, <<>>),
            <<HearsFrame(Frame(InformationResponse, 8, 0, <<1, 0>>, <<0, 4>>))>>, {}),
    Signals(Frame(InformationRequest, 7, 0, <<4>>, <<>>),
            <<HearsFrame(Frame(InformationResponse, 7, 0, <<4, 1>>, <<>>))>>, {}),
    Signals(Frame(CommandReject, 1, 0, <<0>>, <<>>), <<>>, {}),
    Signals(Frame(DisconnectionRequest, 6, 0, Ends, <<>>),
            <<HearsFrame(Frame(DisconnectionResponse, 6, 0, Ends, <<>>))>>, {InterruptCid})}

AllMessages == ControlMessages \cup InterruptMessages \cup SignallingMessages

\* Reports below, at and above the limit of the peer's MTU.
Payloads == {<<6>>, <<6, 7>>, <<6, 7, 8>>}

\* A start too short for a header, one longer than its PDU, a continuation
\* longer than any PDU under way.
BadPackets == {
    [boundary |-> FirstFlushable, data |-> <<1, 0, 64>>],
    [boundary |-> FirstFlushable, data |-> <<1, 0, 64, 0, 161, 1>>],
    [boundary |-> Continuation, data |-> [i \in 1..20 |-> 0]]}

=============================================================================
