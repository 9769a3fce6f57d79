----------------------------- MODULE L2capManager -----------------------------
(***************************************************************************)
(* The ChannelManager of l2cap/classic.rs: its state as a record, and each  *)
(* of its methods as an operator from the manager before the call to the    *)
(* manager after it. A method that returns an error leaves it in error.     *)
(*                                                                         *)
(* Channels are never removed from the manager. The frames of an open ERTM  *)
(* channel are module Ertm. The habit that some handlers take is not of     *)
(* this code: with it the same handlers stand for the peer's stack.         *)
(***************************************************************************)
EXTENDS L2capFrames

CONSTANTS Servers,     \* the registered servers: a function from ports to ChannelSpecs
          MinMtu,      \* L2CAP_MIN_BR_EDR_MTU
          FirstCid,    \* L2CAP_ACL_U_DYNAMIC_CID_RANGE_START
          LastCid      \* L2CAP_ACL_U_DYNAMIC_CID_RANGE_END

Modes == {"basic", "ertm", "ertm with fcs"}
ChannelSpecs == [mtu : MinMtu..65535, mode : Modes]
CidRange == FirstCid..LastCid

States == {"Closed", "WaitConnectResponse", "Configuring", "Open", "WaitDisconnect"}

\* A stack with this code's ways: it answers a connection request at once and
\* in a frame of its own, and no configuration request precedes the one for the
\* channel's own spec.
Plain == [how |-> "answers", first |-> <<>>]
Hows == {"answers", "pending", "rejects", "bundles"}

\* asked holds the responses this manager is owed, with their identifiers, and
\* unusual the habits it has shown: bookkeeping of the model.
New == [channels |-> <<>>, accepted |-> <<>>, outbound |-> <<>>, error |-> "none",
        identifier |-> 0, information_responses |-> <<>>, asked |-> {}, unusual |-> {}]

None == 65536  \* no 16-bit result
Success == 0
Pending == 1
Refused == 2                \* CONNECTION_REFUSED_PSM_NOT_SUPPORTED
NoResources == 4            \* CONNECTION_REFUSED_NO_RESOURCES_AVAILABLE
Unacceptable == 1           \* CONFIGURATION_UNACCEPTABLE_PARAMETERS
UnknownOptions == 3         \* CONFIGURATION_UNKNOWN_OPTIONS
EnhancedRetransmission == 3 \* RETRANSMISSION_MODE_ENHANCED

\* ClassicChannel::outgoing and ::incoming
Channel(psm, spec, destination, state, incoming) ==
    [psm |-> psm, spec |-> spec, destination_cid |-> destination, state |-> state,
     incoming |-> incoming, peer_mtu |-> MinMtu, peer_configuration_received |-> FALSE,
     configuration_response_received |-> FALSE, connection_result |-> IF incoming THEN Success ELSE None,
     received |-> <<>>, tentative |-> FALSE]

-----------------------------------------------------------------------------
(* Methods of the manager *)

next_identifier(m) == IF m.identifier = 255 THEN 1 ELSE m.identifier + 1

queue_control(m, frame) ==
    [m EXCEPT !.outbound = Append(@, Pdu(SignallingCid, frame_to_bytes(frame)))]

\* A request takes the next identifier; its answer is the next code.
Request(m, code, psm, words, data) ==
    LET identifier == next_identifier(m)
    IN  queue_control([m EXCEPT !.identifier = identifier,
                                !.asked = @ \cup {<<identifier, code + 1>>}],
                      Frame(code, identifier, psm, words, data))

BugFreshIdentifier(m, request, words, data) ==
    queue_control(m, Frame(request.code + 1, next_identifier(m), 0, words, data))

\* A response has the identifier of its request.
Reply(m, request, words, data) ==
    queue_control(m, Frame(request.code + 1, request.identifier, 0, words, data))

Fail(m, error) == [m EXCEPT !.error = error]
Free(m) == CidRange \ DOMAIN m.channels # {}
allocate_cid(m) == CHOOSE cid \in FirstCid..(LastCid + 1) :
                     FirstCid..(cid - 1) \subseteq DOMAIN m.channels /\ cid \notin DOMAIN m.channels
Insert(m, cid, channel) ==
    [m EXCEPT !.channels = [c \in DOMAIN m.channels \cup {cid} |-> IF c = cid THEN channel ELSE m.channels[c]]]

connect(m, psm, spec) ==
    LET cid == allocate_cid(m)
    IN  Request(Insert(m, cid, Channel(psm, spec, 0, "WaitConnectResponse", FALSE)),
                ConnectionRequest, psm, <<cid>>, <<>>)

\* The options a spec asks for: its MTU, its mode unless basic, the FCS if any.
\* encode_ertm_option: mode, window, retransmissions, two timeouts and the MPS.
ErtmValue == <<EnhancedRetransmission, 63, 1>> \o LE16(2000) \o LE16(12000) \o LE16(1010)
OptionsOf(spec) ==
    <<Option(MtuOption, LE16(spec.mtu))>>
    \o (IF spec.mode = "basic" THEN <<>> ELSE <<Option(RetransmissionOption, ErtmValue)>>)
    \o (IF spec.mode = "ertm with fcs" THEN <<Option(FcsOption, <<1>>)>> ELSE <<>>)

\* first holds the options of a side's habit, if it has one.
queue_configure_request(m, cid, first) ==
    Request([m EXCEPT !.channels[cid].tentative = first # <<>>,
                      !.unusual = IF first = <<>> THEN @ ELSE @ \cup {"tentative"}],
            ConfigureRequest, 0, <<m.channels[cid].destination_cid, 0>>,
            encode_configuration_options(IF first = <<>> THEN OptionsOf(m.channels[cid].spec) ELSE first))

BugSwapped(m, request, cid, result) == Reply(m, request, <<request.words[1], cid, result, 0>>, <<>>)
Respond(m, request, cid, result) == Reply(m, request, <<cid, request.words[1], result, 0>>, <<>>)

\* The last two signalling frames of the peer in one PDU.
Bundled(m) ==
    LET n == Len(m.outbound)
        both == m.outbound[n - 1].payload \o m.outbound[n].payload
    IN  [m EXCEPT !.outbound = SubSeq(@, 1, n - 2) \o <<Pdu(SignallingCid, both)>>]

\* A server accepts while it has a CID left; it configures at once.
Accept(m, frame, cid, first) ==
    LET channel == Channel(frame.psm, Servers[frame.psm], frame.words[1], "Configuring", TRUE)
    IN  queue_configure_request(Respond(Insert(m, cid, channel), frame, cid, Success), cid, first)
Decide(m, frame, first) ==
    IF frame.psm \notin DOMAIN Servers
    THEN Respond(m, frame, 0, Refused)
    ELSE IF ~Free(m)
    THEN Respond(m, frame, 0, NoResources)
    ELSE Accept(m, frame, allocate_cid(m), first)
CanAccept(m, frame) == frame.psm \in DOMAIN Servers /\ Free(m)

on_connection_request(m, frame, habit) ==
    LET noted == [m EXCEPT !.unusual = IF habit.how = "answers" THEN @ ELSE @ \cup {habit.how}]
    IN  CASE habit.how = "answers" -> Decide(m, frame, habit.first)
          [] habit.how = "pending" -> Decide(Respond(noted, frame, 0, Pending), frame, habit.first)
          [] habit.how = "rejects" ->
                queue_control(noted, Frame(CommandReject, frame.identifier, 0, <<0>>, <<>>))
          [] habit.how = "bundles" ->
                IF CanAccept(m, frame) THEN Bundled(Decide(noted, frame, habit.first))
                ELSE Decide(noted, frame, habit.first)

\* Any result but success, "pending" included, closes the channel.
on_connection_response(m, frame, habit) ==
    LET cid == frame.words[2]
        answered == [m EXCEPT !.channels[cid].connection_result = frame.words[3]]
        configuring == [answered EXCEPT !.channels[cid].destination_cid = frame.words[1],
                                        !.channels[cid].state = "Configuring"]
    IN  IF m.channels[cid].state # "WaitConnectResponse"
        THEN Fail(m, "response in invalid state")
        ELSE IF frame.words[3] # Success
             THEN [answered EXCEPT !.channels[cid].state = "Closed"]
             ELSE queue_configure_request(configuring, cid, habit.first)

\* Both directions of a channel are configured.
Configured(channel) ==
    channel.peer_configuration_received /\ channel.configuration_response_received

\* maybe_open: an incoming channel is announced when it opens.
maybe_open(m, cid) ==
    LET channel == m.channels[cid]
    IN  IF Configured(channel) /\ channel.state = "Configuring"
        THEN [m EXCEPT !.channels[cid].state = "Open",
                       !.accepted = IF channel.incoming THEN Append(@, cid) ELSE @]
        ELSE m

\* What one pass over the options of a request finds; it stops at the first
\* option it refuses, of which it tells the peer in the response.
Start(channel) ==
    [result |-> Success, response |-> <<>>, mtu |-> channel.peer_mtu, ertm |-> FALSE, fcs |-> FALSE]
Take(found, option) == [found EXCEPT !.response = Append(@, option)]
Refuse(found, result, option) == [found EXCEPT !.result = result, !.response = <<option>>]

BugPeerMtu(channel, found, option) == [Take(found, option) EXCEPT !.mtu = channel.spec.mtu]

MtuOffer(channel, found, option) ==
    LET mtu == le16(option.value, 0)
    IN  IF Len(option.value) # 2
        THEN Refuse(found, Unacceptable, option)
        ELSE IF mtu < MinMtu
             THEN Refuse(found, Unacceptable, Option(MtuOption, LE16(MinMtu)))
             ELSE [Take(found, option) EXCEPT !.mtu = mtu]

\* decode_ertm_option: mode, window and MPS decide
ErtmOffer(channel, found, option) ==
    LET value == option.value
        expected == IF channel.spec.mode = "basic" THEN 0 ELSE EnhancedRetransmission
    IN  IF Len(value) # 9 \/ value[1] # expected
             \/ (expected # 0 /\ (value[2] \notin 1..63 \/ le16(value, 7) = 0))
        THEN Refuse(found, Unacceptable, option)
        ELSE [Take(found, option) EXCEPT !.ertm = TRUE]

FcsOffer(found, option) ==
    IF Len(option.value) # 1 \/ option.value[1] > 1
    THEN Refuse(found, Unacceptable, option)
    ELSE [Take(found, option) EXCEPT !.fcs = option.value[1] # 0]

UnknownOffer(found, option) == IF option.hint THEN found ELSE Refuse(found, UnknownOptions, option)

Consider(channel, found, option) ==
    IF found.result # Success
    THEN found
    ELSE CASE option.type = MtuOption -> MtuOffer(channel, found, option)
           [] option.type = RetransmissionOption -> ErtmOffer(channel, found, option)
           [] option.type = FcsOption -> FcsOffer(found, option)
           [] OTHER -> UnknownOffer(found, option)

Negotiate(channel, options) ==
    LET found[i \in 0..Len(options)] ==
            IF i = 0 THEN Start(channel) ELSE Consider(channel, found[i - 1], options[i])
    IN  found[Len(options)]

\* The mode and the FCS the peer asked for are those of the channel. A basic
\* channel refuses every retransmission option here, the one for basic mode too.
Acceptable(channel, found) ==
    /\ found.ertm = (channel.spec.mode # "basic")
    /\ found.fcs = (channel.spec.mode = "ertm with fcs")

\* What the response to a request with a wrong mode names instead.
Counter(channel, found) ==
    IF channel.spec.mode = "basic"
    THEN found.response
    ELSE IF found.ertm
         THEN <<Option(FcsOption, <<IF channel.spec.mode = "ertm with fcs" THEN 1 ELSE 0>>)>>
         ELSE <<Option(RetransmissionOption, ErtmValue)>>

\* on_configure_request: an option that is refused leaves the channel as it is
\* but for the MTU; a wrong mode closes it. More options follow when the last
\* bit of the flags is set. The state is not checked.
Configure(m, frame, cid, channel, found) ==
    LET last == found.result = Success /\ frame.words[2] % 2 = 0
        ok == Acceptable(channel, found)
        closed == last /\ ~ok
        configured == [channel EXCEPT
                         !.peer_mtu = found.mtu,
                         !.peer_configuration_received = @ \/ (last /\ ok),
                         !.state = IF closed THEN "Closed" ELSE @,
                         !.connection_result = IF closed THEN Unacceptable ELSE @]
    IN  maybe_open(Reply([m EXCEPT !.channels[cid] = configured], frame,
                         <<channel.destination_cid, 0, IF closed THEN Unacceptable ELSE found.result>>,
                         encode_configuration_options(
                             IF closed THEN Counter(channel, found) ELSE found.response)),
                   cid)

on_configure_request(m, frame) ==
    LET channel == m.channels[frame.words[1]]
        decoded == decode_configuration_options[frame.data]
    IN  IF ~decoded.ok
        THEN Fail(m, "configuration options")
        ELSE Configure(m, frame, frame.words[1], channel, Negotiate(channel, decoded.options))

BugResponseNotRecorded(m, frame) == maybe_open(m, frame.words[1])

\* A side whose first request was a tentative one sends its own when it is refused.
on_configure_response(m, frame) ==
    LET cid == frame.words[1]
        ok == frame.words[3] = Success
    IN  IF ~ok /\ m.channels[cid].tentative
        THEN queue_configure_request(m, cid, <<>>)
        ELSE maybe_open([m EXCEPT !.channels[cid].configuration_response_received = @ \/ ok,
                                  !.channels[cid].connection_result = IF ok THEN @ ELSE frame.words[3],
                                  !.channels[cid].state = IF ok THEN @ ELSE "Closed"],
                        cid)

\* disconnect, of an open channel
disconnect(m, cid) ==
    Request([m EXCEPT !.channels[cid].state = "WaitDisconnect"],
            DisconnectionRequest, 0, <<m.channels[cid].destination_cid, cid>>, <<>>)

on_disconnection_request(m, frame) ==
    LET cid == frame.words[1]
    IN  IF m.channels[cid].destination_cid # frame.words[2]
        THEN Fail(m, "disconnection CID mismatch")
        ELSE Reply([m EXCEPT !.channels[cid].state = "Closed"], frame, frame.words, <<>>)

BugResponseIgnored(m, frame) == m

on_disconnection_response(m, frame) ==
    LET cid == frame.words[2]
    IN  IF m.channels[cid].destination_cid # frame.words[1]
        THEN Fail(m, "disconnection CID mismatch")
        ELSE [m EXCEPT !.channels[cid].state = "Closed"]

\* send, of an SDU that the peer's MTU allows
send(m, cid, sdu) == [m EXCEPT !.outbound = Append(@, Pdu(m.channels[cid].destination_cid, sdu))]

\* Why a channel that is not open takes no data: the error is the same, the
\* label tells a channel this side is closing and one whose configuration it
\* refused from the others.
NotOpen(channel) ==
    IF channel.state = "WaitDisconnect"
    THEN "closing"
    ELSE IF channel.connection_result # Success THEN "refused" ELSE "not open"

\* process_pdu on a dynamic CID: only an open channel takes data, up to its MTU.
on_data(m, cid, sdu) ==
    IF m.channels[cid].state # "Open"
    THEN Fail(m, NotOpen(m.channels[cid]))
    ELSE IF Len(sdu) > m.channels[cid].spec.mtu
         THEN Fail(m, "SDU exceeds MTU")
         ELSE [m EXCEPT !.channels[cid].received = Append(@, sdu)]

\* The frames that are about a channel, and the CID of this side in them.
AboutChannel == {ConnectionResponse, ConfigureRequest, ConfigureResponse,
                 DisconnectionRequest, DisconnectionResponse}
OwnCid(frame) ==
    frame.words[IF frame.code \in {ConnectionResponse, DisconnectionResponse} THEN 2 ELSE 1]

\* InformationCapabilities::response, of the default capabilities: the
\* connectionless MTU, no extended features, the signalling channel.
information_response(info_type) ==
    CASE info_type = 1 -> [result |-> 0, data |-> LE16(1024)]
      [] info_type = 2 -> [result |-> 0, data |-> <<0, 0, 0, 0>>]
      [] info_type = 3 -> [result |-> 0, data |-> <<2, 0, 0, 0, 0, 0, 0, 0>>]
      [] OTHER -> [result |-> 1, data |-> <<>>]

on_information_request(m, frame) ==
    LET response == information_response(frame.words[1])
    IN  Reply(m, frame, <<frame.words[1], response.result>>, response.data)

\* A frame that is about no channel of this side: whatever has no case is ignored.
OtherFrame(m, frame) ==
    CASE frame.code = EchoRequest -> Reply(m, frame, <<>>, frame.data)
      [] frame.code = InformationRequest -> on_information_request(m, frame)
      [] frame.code = InformationResponse -> [m EXCEPT !.information_responses = Append(@, frame)]
      [] OTHER -> m

\* process_control. Only a final response settles what was asked.
process_control(m, frame, habit) ==
    LET final == frame.code = ConnectionResponse => frame.words[3] # Pending
        answered == [m EXCEPT !.asked = IF final THEN @ \ {<<frame.identifier, frame.code>>} ELSE @]
    IN  IF frame.code = ConnectionRequest
        THEN on_connection_request(m, frame, habit)
        ELSE IF frame.code \notin AboutChannel
        THEN OtherFrame(answered, frame)
        ELSE IF OwnCid(frame) \notin DOMAIN m.channels
        THEN Fail(m, "unknown CID")
        ELSE CASE frame.code = ConnectionResponse -> on_connection_response(answered, frame, habit)
               [] frame.code = ConfigureRequest -> on_configure_request(m, frame)
               [] frame.code = ConfigureResponse -> on_configure_response(answered, frame)
               [] frame.code = DisconnectionRequest -> on_disconnection_request(m, frame)
               [] frame.code = DisconnectionResponse -> on_disconnection_response(answered, frame)

on_frame(m, frame, habit) ==
    IF frame = Invalid THEN Fail(m, "invalid frame") ELSE process_control(m, frame, habit)

process_pdu(m, pdu, habit) ==
    IF pdu.cid = SignallingCid
    THEN on_frame(m, frame_from_bytes(pdu.payload), habit)
    ELSE IF pdu.cid \notin DOMAIN m.channels
    THEN Fail(m, "unknown CID")
    ELSE on_data(m, pdu.cid, pdu.payload)

==============================================================================
