----------------------------- MODULE SdpElements ------------------------------
(***************************************************************************)
(* The data elements of sdp/mod.rs, the UUIDs of values.rs they carry, and  *)
(* the attribute lists built from them, with the octets they travel as.     *)
(* An integer is below 2^31, whatever its size; a URL is ASCII.             *)
(***************************************************************************)
EXTENDS Bytes, SequencesExt

CONSTANT MaxNesting   \* MAX_NESTING

ASSUME NestingAssumption == MaxNesting \in Nat

-----------------------------------------------------------------------------
(* BluetoothUuid: its octets in little-endian order, 2, 4 or 16 of them *)

BaseUuid == <<251, 52, 155, 95, 128, 0, 0, 128, 0, 16, 0, 0>>
expanded_le_bytes(uuid) ==
    CASE Len(uuid) = 2 -> BaseUuid \o uuid \o <<0, 0>>
      [] Len(uuid) = 4 -> BaseUuid \o uuid
      [] Len(uuid) = 16 -> uuid
SameUuid(a, b) == expanded_le_bytes(a) = expanded_le_bytes(b)
UuidWidths == {2, 4, 16}

-----------------------------------------------------------------------------
(* DataElement *)

NIL == 0
UNSIGNED_INTEGER == 1
SIGNED_INTEGER == 2
UUID == 3
TEXT_STRING == 4
BOOLEAN_VALUE == 5
SEQUENCE == 6
ALTERNATIVE == 7
URL == 8
Integer == {UNSIGNED_INTEGER, SIGNED_INTEGER}
Containers == {SEQUENCE, ALTERNATIVE}

Nil == [type |-> NIL, size |-> 0, value |-> 0, octets |-> <<>>, elements |-> <<>>]
Number(type, n, size) == [Nil EXCEPT !.type = type, !.value = n, !.size = size]
Raw(type, octets) == [Nil EXCEPT !.type = type, !.octets = octets]
Container(type, elements) == [Nil EXCEPT !.type = type, !.elements = elements]

unsigned_integer(n, size) == Number(UNSIGNED_INTEGER, n, size)
signed_integer(n, size) == Number(SIGNED_INTEGER, n, size)
boolean(b) == Number(BOOLEAN_VALUE, IF b THEN 1 ELSE 0, 1)
uuid(octets) == Raw(UUID, octets)
text_string(octets) == Raw(TEXT_STRING, octets)
sequence(elements) == Container(SEQUENCE, elements)

\* The integers that fit their size; below 4 octets the size is what limits them.
Fits(element) ==
    LET span == 256 ^ element.size
    IN  /\ element.size \in {1, 2, 4, 8, 16}
        /\ element.size < 4 =>
             element.value \in IF element.type = SIGNED_INTEGER
                               THEN -(span \div 2)..(span \div 2 - 1) ELSE 0..(span - 1)

\* What to_bytes refuses: an integer of another size or too large for its own.
RECURSIVE Encodable(_)
Encodable(element) ==
    /\ element.type \in Integer => Fits(element)
    /\ \A i \in 1..Len(element.elements) : Encodable(element.elements[i])

\* The big-endian octets of an integer, in two's complement.
ToBe(n, size) ==
    [i \in 1..size |-> IF size - i > 3 THEN (IF n < 0 THEN 255 ELSE 0)
                       ELSE (n \div 256 ^ (size - i)) % 256]

\* fixed_size_index, and the index variable_size_header chooses
FixedSize == [n \in {0, 1, 2, 4, 8, 16} |-> IF n = 0 THEN 0 ELSE CHOOSE i \in 0..4 : n = 2 ^ i]
SizeIndex(type, size) ==
    CASE type \in {NIL, BOOLEAN_VALUE} -> 0
      [] type \in Integer \cup {UUID} -> FixedSize[size]
      [] OTHER -> IF size <= 255 THEN 5 ELSE IF size <= 65535 THEN 6 ELSE 7

SizeOctets(index, size) ==
    CASE index = 5 -> <<size>> [] index = 6 -> BE16(size) [] index = 7 -> BE32(size)
      [] index < 5 -> <<>>

RECURSIVE element_to_bytes(_)
element_to_bytes(element) ==
    LET data == CASE element.type \in Integer \cup {BOOLEAN_VALUE} ->
                        ToBe(element.value, element.size)
                  [] element.type = UUID -> Reverse(element.octets)
                  [] element.type \in Containers ->
                        FlattenSeq([i \in 1..Len(element.elements) |->
                                      element_to_bytes(element.elements[i])])
                  [] OTHER -> element.octets
        index == SizeIndex(element.type, Len(data))
    IN  <<8 * element.type + index>> \o SizeOctets(index, Len(data)) \o data

-----------------------------------------------------------------------------
(* Parser *)

Parsed(next, element) == [ok |-> TRUE, next |-> next, element |-> element]
Unparsed == [ok |-> FALSE, next |-> 0, element |-> Nil]

\* be_to_u128 and be_to_i128
FromBe(octets, start) == FoldLeft(LAMBDA n, octet : 256 * n + octet, start, octets)
Sign(octets) == IF octets # <<>> /\ octets[1] >= 128 THEN -1 ELSE 0

\* The octets that give the size, and the end of the element at an offset, past
\* the data when its size is.
HeaderOctets(index) == CASE index = 5 -> 1 [] index = 6 -> 2 [] index = 7 -> 4 [] index < 5 -> 0
ValueSize(type, index, data, offset) ==
    CASE index = 0 -> IF type = NIL THEN 0 ELSE 1
      [] index \in 1..4 -> 2 ^ index
      [] index = 5 -> data[offset + 1]
      [] index = 6 -> be16(data, offset)
      [] index = 7 -> be32(data, offset)
EndOf(data, offset) ==
    IF offset >= Len(data) THEN Len(data) + 1 ELSE
    LET type == data[offset + 1] \div 8
        index == data[offset + 1] % 8
        start == offset + 1 + HeaderOctets(index)
    IN  IF start > Len(data) THEN Len(data) + 1
        ELSE start + ValueSize(type, index, data, offset + 1)

Scalar(type, octets) ==
    CASE type = NIL -> Nil
      [] type = UNSIGNED_INTEGER -> unsigned_integer(FromBe(octets, 0), Len(octets))
      [] type = SIGNED_INTEGER -> signed_integer(FromBe(octets, Sign(octets)), Len(octets))
      [] type = BOOLEAN_VALUE -> boolean(octets # <<>> /\ octets[1] = 1)
      [] type = UUID -> uuid(Reverse(octets))
      [] OTHER -> Raw(type, octets)

Acceptable(type, octets) ==
    /\ type <= URL
    /\ type = UUID => Len(octets) \in UuidWidths
    /\ type = URL => \A i \in 1..Len(octets) : octets[i] < 128

\* parse_at reads the element at an offset; Siblings reads those from an offset
\* to the end of their container, which the last one may not overrun.
RECURSIVE parse_at(_, _, _), Siblings(_, _, _, _)
parse_at(data, offset, depth) ==
    LET end == EndOf(data, offset)
        type == data[offset + 1] \div 8
        start == offset + 1 + HeaderOctets(data[offset + 1] % 8)
        octets == SubSeq(data, start + 1, end)
        children == Siblings(data, start, end, depth + 1)
    IN  IF end > Len(data) THEN Unparsed
        ELSE IF type \notin Containers
        THEN IF Acceptable(type, octets) THEN Parsed(end, Scalar(type, octets)) ELSE Unparsed
        ELSE IF /\ depth < MaxNesting
                /\ \A i \in 1..Len(children) : children[i].ok
                /\ children # <<>> => Last(children).next = end
        THEN Parsed(end, Container(type, [i \in 1..Len(children) |-> children[i].element]))
        ELSE Unparsed
Siblings(data, offset, end, depth) ==
    IF offset >= end THEN <<>>
    ELSE <<parse_at(data, offset, depth)>> \o Siblings(data, EndOf(data, offset), end, depth)

element_from_bytes(data) == parse_at(data, 0, 0)

-----------------------------------------------------------------------------
(* ServiceAttribute *)

attribute(id, value) == [id |-> id, value |-> value]

\* list_to_data_element: ids and values in turn
list_to_data_element(attributes) ==
    sequence(FlattenSeq([i \in 1..Len(attributes) |->
        <<unsigned_integer(attributes[i].id, 2), attributes[i].value>>]))

\* list_from_data_elements: whole pairs whose id is an unsigned integer
list_from_data_elements(elements) ==
    LET pairs == [i \in 1..(Len(elements) \div 2) |->
                    [key |-> elements[2 * i - 1], value |-> elements[2 * i]]]
        Keyed(pair) == pair.key.type = UNSIGNED_INTEGER
        keyed == SelectSeq(pairs, Keyed)
    IN  [i \in 1..Len(keyed) |-> attribute(keyed[i].key.value % 65536, keyed[i].value)]

\* Sequences are searched, alternatives are not.
RECURSIVE is_uuid_in_value(_, _)
is_uuid_in_value(id, element) ==
    CASE element.type = UUID -> SameUuid(element.octets, id)
      [] element.type = SEQUENCE ->
            \E i \in 1..Len(element.elements) : is_uuid_in_value(id, element.elements[i])
      [] OTHER -> FALSE

=============================================================================
