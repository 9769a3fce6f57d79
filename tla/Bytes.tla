-------------------------------- MODULE Bytes --------------------------------
(***************************************************************************)
(* Octets and the integers laid out in them, as every codec of the crate    *)
(* reads and writes them.                                                   *)
(***************************************************************************)
EXTENDS Integers, Sequences

Octet == 0..255
Octets == Seq(Octet)

\* What every parser answers when it refuses its input.
Invalid == [invalid |-> TRUE]

\* u16::to_le_bytes, and u16::from_le_bytes of the two octets at an offset
LE16(n) == <<n % 256, n \div 256>>
le16(data, offset) == data[offset + 1] + 256 * data[offset + 2]

\* u16::to_be_bytes, u32::to_be_bytes and their inverses
BE16(n) == <<n \div 256, n % 256>>
be16(data, offset) == 256 * data[offset + 1] + data[offset + 2]
BE32(n) == BE16(n \div 65536) \o BE16(n % 65536)
be32(data, offset) == 65536 * be16(data, offset) + be16(data, offset + 2)

From(data, offset) == SubSeq(data, offset + 1, Len(data))
Least(m, n) == IF m < n THEN m ELSE n

=============================================================================
