----------------------------- MODULE L2capFrames -----------------------------
(***************************************************************************)
(* The wire formats of l2cap/mod.rs: the L2CAP PDU, the signalling frames   *)
(* and the configuration options, as operators from values to octets and    *)
(* back. A signalling frame is its code, its identifier, the PSM of a       *)
(* ConnectionRequest (0 in the others), its 16-bit fields in wire order and *)
(* the octets that follow them; Layout says how many of each a code has.    *)
(***************************************************************************)
EXTENDS Bytes

-----------------------------------------------------------------------------
(* L2capPdu *)

SignallingCid == 1

Pdu(cid, payload) == [cid |-> cid, payload |-> payload]

pdu_to_bytes(pdu) == LE16(Len(pdu.payload)) \o LE16(pdu.cid) \o pdu.payload

\* Octets after the length are dropped; a payload that is too short is kept.
pdu_from_bytes(data) ==
    IF Len(data) < 4
    THEN Invalid
    ELSE Pdu(le16(data, 2), SubSeq(data, 5, Least(4 + le16(data, 0), Len(data))))

-----------------------------------------------------------------------------
(* ControlFrame *)

\* The octets of a PSM above the sixteenth bit: as many as it needs.
HighOctets(n) == IF n = 0 THEN <<>> ELSE IF n < 256 THEN <<n>> ELSE LE16(n)

serialize_psm(psm) == LE16(psm % 65536) \o HighOctets(psm \div 65536)

\* Where a PSM at the head of data ends: at its first even octet from the second on.
PsmLength(data) ==
    LET ends == {n \in 2..Len(data) : data[n] % 2 = 0}
    IN  IF ends = {} THEN 0 ELSE CHOOSE n \in ends : \A other \in ends : n <= other

\* The value of a PSM of up to four octets: the u32 has no room for a fifth, which
\* nobody sends.
PsmValue(octets) ==
    LET At(i) == IF i <= Len(octets) THEN octets[i] ELSE 0
    IN  At(1) + 256 * (At(2) + 256 * (At(3) + 256 * At(4)))

validate_psm(psm) ==
    /\ psm # 0 /\ psm % 2 = 1
    /\ \A unit \in {256, 65536, 16777216} : (psm \div unit) % 2 = 0

CommandReject == 1
ConnectionRequest == 2
ConnectionResponse == 3
ConfigureRequest == 4
ConfigureResponse == 5
DisconnectionRequest == 6
DisconnectionResponse == 7
EchoRequest == 8
EchoResponse == 9
InformationRequest == 10
InformationResponse == 11

\* words 16-bit fields, then nothing that is kept, octets, or a list of CIDs
Fixed(words) == [words |-> words, tail |-> "none"]
Open(words) == [words |-> words, tail |-> "octets"]
Cids(words) == [words |-> words, tail |-> "cids"]

Layout(code) ==
    CASE code \in {ConnectionRequest, InformationRequest, 19, 26} -> Fixed(1)
      [] code \in {DisconnectionRequest, DisconnectionResponse, 22} -> Fixed(2)
      [] code \in {ConnectionResponse, 18} -> Fixed(4)
      [] code \in {20, 21} -> Fixed(5)   \* LE credit based connection
      [] code = CommandReject -> Open(1)
      [] code \in {ConfigureRequest, InformationResponse} -> Open(2)
      [] code = ConfigureResponse -> Open(3)
      [] code \in {23, 24} -> Cids(4)    \* credit based connection
      [] code = 25 -> Cids(2)            \* credit based reconfiguration
      [] OTHER -> Open(0)                \* Echo, and ControlFrame::Generic

Frame(code, identifier, psm, words, data) ==
    [code |-> code, identifier |-> identifier, psm |-> psm, words |-> words, data |-> data]

\* Each word in two octets, low octet first.
Words(words) == [i \in 1..(2 * Len(words)) |-> LE16(words[(i + 1) \div 2])[2 - (i % 2)]]

payload(frame) ==
    (IF frame.code = ConnectionRequest THEN serialize_psm(frame.psm) ELSE <<>>)
    \o Words(frame.words) \o frame.data

WithHeader(frame, octets) == <<frame.code, frame.identifier>> \o LE16(Len(octets)) \o octets
frame_to_bytes(frame) == WithHeader(frame, payload(frame))

\* The payload after the PSM of a ConnectionRequest, if there is one.
Fields(code, identifier, psm, data, layout) ==
    LET size == 2 * layout.words
        tail == From(data, size)
    IN  IF Len(data) < size \/ (layout.tail = "cids" /\ Len(tail) % 2 = 1)
        THEN Invalid
        ELSE Frame(code, identifier, psm, [i \in 1..layout.words |-> le16(data, 2 * (i - 1))],
                   IF layout.tail = "none" THEN <<>> ELSE tail)

\* A PSM of n octets is at the head of the payload of a ConnectionRequest.
RequestFields(identifier, data, n) ==
    IF n = 0
    THEN Invalid
    ELSE Fields(ConnectionRequest, identifier, PsmValue(SubSeq(data, 1, n)), From(data, n),
                Layout(ConnectionRequest))

\* Only the first frame of a signalling packet is read.
FirstPayload(pdu) == SubSeq(pdu, 5, Least(4 + le16(pdu, 2), Len(pdu)))
frame_from_bytes(pdu) ==
    IF Len(pdu) < 4
    THEN Invalid
    ELSE IF pdu[1] = ConnectionRequest
    THEN RequestFields(pdu[2], FirstPayload(pdu), PsmLength(FirstPayload(pdu)))
    ELSE Fields(pdu[1], pdu[2], 0, FirstPayload(pdu), Layout(pdu[1]))

-----------------------------------------------------------------------------
(* ConfigurationOption *)

MtuOption == 1
RetransmissionOption == 4
FcsOption == 5
HintBit == 128

ConfigurationOptions ==
    [type : 0..(HintBit - 1), hint : BOOLEAN, value : {value \in Octets : Len(value) <= 255}]
Option(type, value) == [type |-> type, hint |-> FALSE, value |-> value]
Hinted(type, value) == [type |-> type, hint |-> TRUE, value |-> value]

OptionOctets(option) ==
    <<option.type + (IF option.hint THEN HintBit ELSE 0), Len(option.value)>> \o option.value

encode_configuration_options(options) ==
    LET encoded[i \in 0..Len(options)] ==
            IF i = 0 THEN <<>> ELSE encoded[i - 1] \o OptionOctets(options[i])
    IN  encoded[Len(options)]

\* The options, and whether the last one is whole.
decode_configuration_options[data \in Octets] ==
    IF data = <<>>
    THEN [ok |-> TRUE, options |-> <<>>]
    ELSE IF Len(data) < 2 \/ Len(data) < 2 + data[2]
    THEN [ok |-> FALSE, options |-> <<>>]
    ELSE LET first == [type |-> data[1] % HintBit, hint |-> data[1] >= HintBit,
                       value |-> SubSeq(data, 3, 2 + data[2])]
             rest == decode_configuration_options[From(data, 2 + data[2])]
         IN  [rest EXCEPT !.options = <<first>> \o @]

=============================================================================
