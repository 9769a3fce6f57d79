------------------------------- MODULE SdpPdus --------------------------------
(***************************************************************************)
(* The seven PDUs of sdp/pdu.rs and their octets. A PDU is its id, its      *)
(* transaction id and its fields; Layout gives the fields of each id in     *)
(* wire order with the form each is written in.                             *)
(***************************************************************************)
EXTENDS SdpElements

SDP_ERROR_RESPONSE == 1
SDP_SERVICE_SEARCH_REQUEST == 2
SDP_SERVICE_SEARCH_RESPONSE == 3
SDP_SERVICE_ATTRIBUTE_REQUEST == 4
SDP_SERVICE_ATTRIBUTE_RESPONSE == 5
SDP_SERVICE_SEARCH_ATTRIBUTE_REQUEST == 6
SDP_SERVICE_SEARCH_ATTRIBUTE_RESPONSE == 7

INVALID_SERVICE_RECORD_HANDLE == 2
INVALID_REQUEST_SYNTAX == 3
INVALID_CONTINUATION_STATE == 5

Pdu(id, transaction_id, fields) ==
    [id |-> id, transaction_id |-> transaction_id, fields |-> fields]
ErrorResponse(transaction_id, code) ==
    Pdu(SDP_ERROR_RESPONSE, transaction_id, [error_code |-> code])

Field(name, form) == <<[name |-> name, form |-> form]>>
Pattern == Field("service_search_pattern", "element")
Maximum == Field("maximum", "u16")    \* ..._attribute_byte_count, ..._record_count
Ids == Field("attribute_id_list", "element")
Block == Field("attributes", "block") \* attribute_list, attribute_lists
Rest == Field("continuation_state", "rest")

Layout ==
    << Field("error_code", "le16"),
       Pattern \o Maximum \o Rest,
       Field("total_service_record_count", "u16") \o Field("handles", "handles") \o Rest,
       Field("service_record_handle", "u32") \o Maximum \o Ids \o Rest,
       Block \o Rest,
       Pattern \o Maximum \o Ids \o Rest,
       Block \o Rest >>

Written(form, value) ==
    CASE form = "le16" -> LE16(value)
      [] form = "u16" -> BE16(value)
      [] form = "u32" -> BE32(value)
      [] form = "element" -> element_to_bytes(value)
      [] form = "block" -> BE16(Len(value)) \o value
      [] form = "handles" -> BE16(Len(value)) \o FlattenSeq([i \in 1..Len(value) |-> BE32(value[i])])
      [] form = "rest" -> value

WriteFields(layout, fields) ==
    FlattenSeq([i \in 1..Len(layout) |-> Written(layout[i].form, fields[layout[i].name])])
parameters(pdu) == WriteFields(Layout[pdu.id], pdu.fields)

WithHeader(pdu, written) ==
    <<pdu.id>> \o BE16(pdu.transaction_id) \o BE16(Len(written) % 65536) \o written
pdu_to_bytes(pdu) == WithHeader(pdu, parameters(pdu))

-----------------------------------------------------------------------------
(* Cursor: what is read at a position, and the position behind it *)

Taken(next, value) == [ok |-> TRUE, next |-> next, value |-> value]
Truncated == [ok |-> FALSE, next |-> 0, value |-> 0]

Needed(form) == CASE form = "u32" -> 4 [] form = "rest" -> 0 [] form = "element" -> 1 [] OTHER -> 2

Taking(form, data, pos) ==
    IF pos + Needed(form) > Len(data) THEN Truncated ELSE
    CASE form = "le16" -> Taken(pos + 2, le16(data, pos))
      [] form = "u16" -> Taken(pos + 2, be16(data, pos))
      [] form = "u32" -> Taken(pos + 4, be32(data, pos))
      [] form = "rest" -> Taken(Len(data), From(data, pos))
      [] form = "element" ->
            LET parsed == parse_at(data, pos, 0)
            IN  IF parsed.ok THEN Taken(parsed.next, parsed.element) ELSE Truncated
      [] form = "block" ->
            LET end == pos + 2 + be16(data, pos)
            IN  IF end > Len(data) THEN Truncated ELSE Taken(end, SubSeq(data, pos + 3, end))
      [] form = "handles" ->
            LET n == be16(data, pos)
            IN  IF pos + 2 + 4 * n > Len(data) THEN Truncated
                ELSE Taken(pos + 2 + 4 * n, [i \in 1..n |-> be32(data, pos + 2 + 4 * (i - 1))])

\* The fields of a layout in turn; the first that is missing or malformed refuses
\* the PDU.
RECURSIVE TakeFields(_, _, _, _)
TakeFields(layout, i, data, pos) ==
    IF i > Len(layout) THEN Taken(pos, <<>>) ELSE
    LET first == Taking(layout[i].form, data, pos)
        rest == TakeFields(layout, i + 1, data, first.next)
    IN  IF ~first.ok \/ ~rest.ok THEN Truncated ELSE Taken(rest.next, <<first.value>> \o rest.value)

Named(layout, values) ==
    [name \in {layout[i].name : i \in 1..Len(layout)} |->
        values[CHOOSE i \in 1..Len(layout) : layout[i].name = name]]

ReadFields(data, layout, taken) ==
    IF taken.ok THEN Pdu(data[1], be16(data, 1), Named(layout, taken.value)) ELSE Invalid
ReadParameters(data, layout) ==
    ReadFields(data, layout, TakeFields(layout, 1, SubSeq(data, 6, 5 + be16(data, 3)), 0))

pdu_from_bytes(data) ==
    IF Len(data) < 5 THEN Invalid
    ELSE IF 5 + be16(data, 3) > Len(data) \/ data[1] \notin 1..7 THEN Invalid
    ELSE ReadParameters(data, Layout[data[1]])

=============================================================================
