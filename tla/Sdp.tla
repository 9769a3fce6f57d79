-------------------------------- MODULE Sdp ---------------------------------
(***************************************************************************)
(* The service discovery runtime of sdp/service.rs behind the SDP channel   *)
(* of hid_service.rs: an SdpServer with its records and its one             *)
(* current_response, and an SdpClient that reassembles an answer over       *)
(* continuation states. Requests and responses travel as octets.            *)
(*                                                                         *)
(* A client may give a query up half-way (its transport failed) and ask     *)
(* something else, and may send requests that arrive damaged. It continues  *)
(* only its own query.                                                      *)
(***************************************************************************)
EXTENDS SdpPdus

CONSTANTS Records,        \* sequence of [handle, attributes], in insertion order
          Queries,        \* what the client asks: [kind, uuids, handle, ids]
          Mtus,           \* MTUs of the peer
          Counts,         \* maximum byte or record counts a request may carry
          Watchdog,       \* CONTINUATION_WATCHDOG
          TransactionIds  \* how many transaction ids there are, 2^16 in the code

ASSUME BoundAssumption ==
    Mtus \subseteq Nat /\ Counts \subseteq Nat /\ {Watchdog, TransactionIds} \subseteq Nat \ {0}

VARIABLES server,        \* [mtu, current_response]
          query, count,  \* the query of the client and the maximum of its requests
          client,        \* [next_transaction_id, accumulator, continuation_state, rounds]
          status,        \* idle, asking, done or error
          request,       \* the last SDU sent to the server
          answer         \* what it answered; <<>> is nothing

vars == <<server, query, count, client, status, request, answer>>

NoResponse == [kind |-> "none", total |-> 0, left |-> <<>>]
Response(kind, total, left) == [kind |-> kind, total |-> total, left |-> left]
AtMost(n, s) == SubSeq(s, 1, Least(n, Len(s)))
Saturating(n) == IF n < 0 THEN 0 ELSE n
More == <<1, 0>>      \* SERVER_CONTINUATION_STATE
NoMore == <<0>>

-----------------------------------------------------------------------------
(* SdpServer *)

\* sequence_elements
ElementsOf(element) == IF element.type = SEQUENCE THEN element.elements ELSE <<>>

\* match_services: the records in which any UUID of the pattern appears.
match_services(pattern) ==
    LET uuids == {e \in ToSet(ElementsOf(pattern)) : e.type = UUID}
        Matches(record) == \E e \in uuids, a \in ToSet(record.attributes) :
                               is_uuid_in_value(e.octets, a.value)
    IN  SelectSeq(Records, Matches)

\* get_service_attributes: every selector in turn, then a stable sort by id. A
\* selector of four octets is an inclusive range, any other a single id.
get_service_attributes(attributes, ids) ==
    LET First(e) == IF e.size = 4 THEN e.value \div 65536 ELSE e.value % 65536
        Selected(e) == LET Within(a) == First(e) <= a.id /\ a.id <= e.value % 65536
                       IN  IF e.type = UNSIGNED_INTEGER THEN SelectSeq(attributes, Within) ELSE <<>>
    IN  list_to_data_element(
            SortSeq(FlattenSeq([i \in 1..Len(ids) |-> Selected(ids[i])]),
                    LAMBDA a, b : a.id < b.id))

\* to_bytes().unwrap_or_default()
Serialized(element) == IF Encodable(element) THEN element_to_bytes(element) ELSE <<>>

\* What a fresh on_service_search_attribute, on_service_attribute or
\* on_service_search computes; the first leaves empty lists out, the second
\* takes the first record with the handle and refuses an unknown one.
AttributeLists(fields) ==
    LET matching == match_services(fields.service_search_pattern)
        lists == [i \in 1..Len(matching) |->
                    get_service_attributes(matching[i].attributes, ElementsOf(fields.attribute_id_list))]
        NonEmpty(list) == list.elements # <<>>
    IN  Response("bytes", 0, Serialized(sequence(SelectSeq(lists, NonEmpty))))
AttributeList(fields) ==
    LET Has(record) == record.handle = fields.service_record_handle
        found == SelectSeq(Records, Has)
    IN  IF found = <<>> THEN NoResponse
        ELSE Response("bytes", 0, Serialized(
                get_service_attributes(found[1].attributes, ElementsOf(fields.attribute_id_list))))
Handles(fields) ==
    LET matching == match_services(fields.service_search_pattern)
    IN  Response("handles", Len(matching),
                 AtMost(fields.maximum, [i \in 1..Len(matching) |-> matching[i].handle]))

Fresh(pdu) ==
    CASE pdu.id = SDP_SERVICE_SEARCH_ATTRIBUTE_REQUEST -> AttributeLists(pdu.fields)
      [] pdu.id = SDP_SERVICE_ATTRIBUTE_REQUEST -> AttributeList(pdu.fields)
      [] pdu.id = SDP_SERVICE_SEARCH_REQUEST -> Handles(pdu.fields)

Continues(pdu) == Len(pdu.fields.continuation_state) > 1

BugSource(s, pdu) ==
    IF s.current_response.left # <<>> THEN s.current_response ELSE Fresh(pdu)

\* The response this request takes its chunk from: a fresh request forgets what
\* an earlier one left.
Source(s, pdu) == IF Continues(pdu) THEN s.current_response ELSE Fresh(pdu)

BugCap(s, requested) == Least(Saturating(s.mtu - 8), requested)

\* attribute_byte_cap
attribute_byte_cap(s, requested) == Least(Saturating(s.mtu - 9), requested)

\* The most this response may hold: octets, or handles of four octets each.
Room(s, pdu) ==
    IF pdu.id = SDP_SERVICE_SEARCH_REQUEST THEN Saturating(s.mtu - 11) \div 4
    ELSE attribute_byte_cap(s, pdu.fields.maximum)

Chunk(pdu, response, n) ==
    LET state == [continuation_state |-> IF Len(response.left) > n THEN More ELSE NoMore]
    IN  Pdu(pdu.id + 1, pdu.transaction_id,
            IF pdu.id = SDP_SERVICE_SEARCH_REQUEST
            THEN state @@ [total_service_record_count |-> response.total]
                       @@ [handles |-> AtMost(n, response.left)]
            ELSE state @@ [attributes |-> AtMost(n, response.left)])

\* What next_byte_payload and on_service_search keep: the bytes until the last
\* chunk is taken, the handles even when none is left.
Remainder(response, n) ==
    IF response.kind = "bytes" /\ Len(response.left) <= n
    THEN NoResponse
    ELSE [response EXCEPT !.left = From(@, Least(n, Len(@)))]

Answered(s, response) == [server |-> s, response |-> response]

\* A continuation that meets a response of the other kind leaves it alone: a
\* search is refused, an attribute request gets an empty last chunk.
KindOf(pdu) == IF pdu.id = SDP_SERVICE_SEARCH_REQUEST THEN "handles" ELSE "bytes"
OtherKind(pdu) ==
    IF KindOf(pdu) = "handles" THEN ErrorResponse(pdu.transaction_id, INVALID_CONTINUATION_STATE)
    ELSE Chunk(pdu, Response("bytes", 0, <<>>), 0)

AnswerFrom(s, pdu, response, n) ==
    CASE response = NoResponse ->
            Answered([s EXCEPT !.current_response = NoResponse],
                     ErrorResponse(pdu.transaction_id, INVALID_SERVICE_RECORD_HANDLE))
      [] response # NoResponse /\ response.kind # KindOf(pdu) -> Answered(s, OtherKind(pdu))
      [] response.kind = KindOf(pdu) ->
            Answered([s EXCEPT !.current_response = Remainder(response, n)], Chunk(pdu, response, n))

\* handle_request, with check_continuation first: a continuation needs a response
\* to continue and the state the server gave out. A fresh request has dropped the
\* leftover even when it is refused; a refused continuation changes nothing.
handle_request(s, pdu) ==
    IF pdu.id \notin {2, 4, 6}
    THEN Answered(s, ErrorResponse(pdu.transaction_id, INVALID_REQUEST_SYNTAX))
    ELSE IF Continues(pdu) /\ (s.current_response = NoResponse \/ pdu.fields.continuation_state # More)
    THEN Answered(s, ErrorResponse(pdu.transaction_id, INVALID_CONTINUATION_STATE))
    ELSE AnswerFrom(s, pdu, Source(s, pdu), Room(s, pdu))

-----------------------------------------------------------------------------
(* HidSdpChannel *)

\* parse_complete_pdu: the SDU is exactly one PDU.
parse_complete_pdu(sdu) ==
    IF Len(sdu) < 5 THEN Invalid
    ELSE IF Len(sdu) # 5 + be16(sdu, 3) THEN Invalid
    ELSE pdu_from_bytes(sdu)

\* handle_sdu: no answer to an SDU without a transaction id, an error to any
\* other that is not a PDU.
AnswerPdu(s, pdu, transaction_id) ==
    IF pdu = Invalid THEN Answered(s, ErrorResponse(transaction_id, INVALID_REQUEST_SYNTAX))
    ELSE handle_request(s, pdu)
Serialize(handled) == [server |-> handled.server, sdu |-> pdu_to_bytes(handled.response)]
handle_sdu(s, sdu) ==
    IF Len(sdu) < 3 THEN [server |-> s, sdu |-> <<>>]
    ELSE Serialize(AnswerPdu(s, parse_complete_pdu(sdu), be16(sdu, 1)))

-----------------------------------------------------------------------------
(* SdpClient *)

RequestId(q) ==
    CASE q.kind = "search" -> SDP_SERVICE_SEARCH_REQUEST
      [] q.kind = "attribute" -> SDP_SERVICE_ATTRIBUTE_REQUEST
      [] q.kind = "search attribute" -> SDP_SERVICE_SEARCH_ATTRIBUTE_REQUEST

search_pattern(uuids) == sequence([i \in 1..Len(uuids) |-> uuid(uuids[i])])

\* AttributeId: <<id>> or the range <<first, last>>
AttributeId(id) ==
    IF Len(id) = 1 THEN unsigned_integer(id[1], 2) ELSE unsigned_integer(65536 * id[1] + id[2], 4)
attribute_id_list(ids) == sequence([i \in 1..Len(ids) |-> AttributeId(ids[i])])

\* The request of the next round; a PDU is written with the fields of its layout.
Request(id, continuation_state) ==
    Pdu(id, client.next_transaction_id,
        [service_search_pattern |-> search_pattern(query.uuids),
         service_record_handle |-> query.handle,
         maximum |-> count,
         attribute_id_list |-> attribute_id_list(query.ids),
         continuation_state |-> continuation_state])
NextRequest == pdu_to_bytes(Request(RequestId(query), client.continuation_state))

\* parse_attribute_list and parse_attribute_lists
Lists(elements) ==
    LET IsList(e) == e.type = SEQUENCE
        lists == SelectSeq(elements, IsList)
    IN  [i \in 1..Len(lists) |-> list_from_data_elements(lists[i].elements)]
Result(accumulator) ==
    IF query.kind = "search" \/ accumulator = <<>> THEN [ok |-> TRUE, value |-> accumulator]
    ELSE LET parsed == element_from_bytes(accumulator)
         IN  [ok |-> parsed.ok,
              value |-> IF query.kind = "attribute" THEN list_from_data_elements(parsed.element.elements)
                        ELSE Lists(parsed.element.elements)]

is_terminal(continuation_state) == continuation_state = NoMore

NewClient(id) == [next_transaction_id |-> id, accumulator |-> <<>>,
                  continuation_state |-> NoMore, rounds |-> 0]

Init ==
    /\ server \in [mtu : Mtus, current_response : {NoResponse}]
    /\ query \in Queries /\ count \in Counts
    /\ client = NewClient(0) /\ status = "idle"
    /\ request = <<>> /\ answer = <<>>

\* A query starts over, whatever became of the one before.
Begin ==
    /\ query' \in Queries /\ count' \in Counts
    /\ client' = NewClient(client.next_transaction_id) /\ status' = "asking"
    /\ request' = <<>> /\ answer' = <<>>
    /\ UNCHANGED server

\* The next state of the client when it has read a response: an error ends the
\* query, a last chunk is parsed, and so is what there is when the watchdog ends
\* the loop.
Reads(pdu) ==
    LET chunk == IF query.kind = "search" THEN pdu.fields.handles ELSE pdu.fields.attributes
        accumulator == client.accumulator \o chunk
        last == is_terminal(pdu.fields.continuation_state) \/ client.rounds + 1 = Watchdog
    IN  IF pdu.id # RequestId(query) + 1
        THEN /\ status' = "error"
             /\ client' = [client EXCEPT !.next_transaction_id = (@ + 1) % TransactionIds, !.rounds = @ + 1]
        ELSE /\ status' = IF ~last THEN "asking" ELSE IF Result(accumulator).ok THEN "done" ELSE "error"
             /\ client' = [next_transaction_id |-> (client.next_transaction_id + 1) % TransactionIds,
                           accumulator |-> accumulator,
                           continuation_state |-> pdu.fields.continuation_state,
                           rounds |-> client.rounds + 1]

\* One request and its response.
Exchange(sdu) ==
    \E handled \in {handle_sdu(server, sdu)} :
        request' = sdu /\ answer' = handled.sdu /\ server' = handled.server

Round ==
    /\ status = "asking"
    /\ Exchange(NextRequest)
    /\ Reads(pdu_from_bytes(answer'))
    /\ UNCHANGED <<query, count>>

\* SDUs that are no requests, or none the server may answer: the beginnings of
\* one, one with a foreign continuation state, a continuation of another kind,
\* and the server's own answer.
OtherKinds == {id \in {2, 4} : KindOf([id |-> id]) # server.current_response.kind}
Garbled(sdu) == {SubSeq(sdu, 1, n) : n \in {2, 3, 7, Len(sdu) - 1}} \cup {sdu \o <<0>>, answer}
Foreign == {Request(RequestId(query), <<1, 1>>)} \cup {Request(id, More) : id \in OtherKinds}
Damaged == Garbled(NextRequest) \cup {pdu_to_bytes(pdu) : pdu \in Foreign}

SendDamaged ==
    /\ status = "asking"
    /\ \E sdu \in Damaged : Exchange(sdu)
    /\ UNCHANGED <<query, count, client, status>>

Next == Begin \/ Round \/ SendDamaged

Spec == Init /\ [][Next]_vars

-----------------------------------------------------------------------------
(* Properties *)

\* What a query asks for, from the records themselves: of those that carry one of
\* the UUIDs, or have the handle, the attributes in one of the ranges, by
\* ascending id.
RECURSIVE UuidsIn(_)
UuidsIn(element) ==
    CASE element.type = UUID -> {expanded_le_bytes(element.octets)}
      [] element.type = SEQUENCE ->
            UNION {UuidsIn(element.elements[i]) : i \in 1..Len(element.elements)}
      [] OTHER -> {}
HasUuid(record) ==
    \E a \in ToSet(record.attributes), id \in ToSet(query.uuids) :
        expanded_le_bytes(id) \in UuidsIn(a.value)
Wanted(record) ==
    LET Asked(a) == \E i \in 1..Len(query.ids) : a.id \in query.ids[i][1]..query.ids[i][Len(query.ids[i])]
    IN  SortSeq(SelectSeq(record.attributes, Asked), LAMBDA a, b : a.id < b.id)

Expected ==
    CASE query.kind = "search attribute" ->
            LET found == SelectSeq(Records, HasUuid)
                NonEmpty(list) == list # <<>>
            IN  SelectSeq([i \in 1..Len(found) |-> Wanted(found[i])], NonEmpty)
      [] query.kind = "attribute" ->
            FlattenSeq([i \in 1..Len(Records) |->
                IF Records[i].handle = query.handle THEN Wanted(Records[i]) ELSE <<>>])
      [] query.kind = "search" ->
            LET found == SelectSeq(Records, HasUuid)
            IN  AtMost(count, [i \in 1..Len(found) |-> found[i].handle])
KnownHandle == \E record \in ToSet(Records) : record.handle = query.handle

\* However an answer is cut by the MTU and the client's limit, whatever query was
\* abandoned before it and whatever damaged requests reach the server in between,
\* the attributes the client parses are those of the records, value for value
\* (service_search_attribute, get_attributes, search_services). Only the watchdog
\* makes it return less or fail to parse, and only an unknown handle is refused.
AnswersAreComplete ==
    /\ status = "done" => LET result == Result(client.accumulator).value
                          IN  /\ IsPrefix(result, Expected)
                              /\ client.rounds < Watchdog => result = Expected
    /\ status = "error" => \/ query.kind = "attribute" /\ ~KnownHandle
                           \/ query.kind # "search" /\ client.rounds = Watchdog

\* Whatever SDU reaches the channel, from its third octet on it is answered by one
\* complete PDU with its transaction id: the response to its request or an error.
\* No answer exceeds the peer's MTU, which L2CAP would refuse to send (handle_sdu,
\* attribute_byte_cap, on_service_search).
AnswersFit ==
    LET pdu == pdu_from_bytes(answer)
    IN  /\ Len(request) >= 3 => answer # <<>>
        /\ answer # <<>> =>
              /\ pdu # Invalid /\ Len(answer) = 5 + be16(answer, 3)
              /\ be16(answer, 1) = be16(request, 1)
              /\ pdu.id \in {SDP_ERROR_RESPONSE, request[1] + 1}
              /\ server.mtu >= 11 => Len(answer) <= server.mtu

=============================================================================
