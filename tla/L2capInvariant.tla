----------------------------- MODULE L2capInvariant -----------------------------
(***************************************************************************)
(* The ends of L2CAP channels are joined in pairs, for every number of CIDs,  *)
(* all ports and servers, all habits of the peer and any order in which the   *)
(* requests of the two sides cross. The proof reads the PDUs on the link as   *)
(* the receiver does, so it begins with what the codecs of l2cap/mod.rs       *)
(* return: a signalling frame is read as it was written, and configuration    *)
(* options are octets again after any negotiation.                            *)
(***************************************************************************)
EXTENDS L2cap, SequenceTheorems, WellFoundedInduction, TLAPS

-----------------------------------------------------------------------------
(* The invariant *)

Ports16 == {psm \in Nat : psm < 65536}

\* The signalling frames that the two managers exchange.
Frames ==
    {frame \in [code : 1..7, identifier : Nat, psm : Ports16, words : Seq(Nat), data : Octets] :
        /\ Len(frame.words) = Layout(frame.code).words
        /\ Layout(frame.code).tail = "none" => frame.data = <<>>
        /\ IF frame.code = ConnectionRequest THEN (frame.psm \div 256) % 2 = 0 ELSE frame.psm = 0}

\* A PDU on the link; a signalling PDU begins with such a frame.
Pdus == [cid : Nat, payload : Seq(Nat)]
Signals(pdu) == pdu.cid = SignallingCid
Read(pdu) == frame_from_bytes(pdu.payload)
Readable(pdu) == pdu \in Pdus /\ (Signals(pdu) => Read(pdu) \in Frames)

\* The PDU asks for a connection of cid to psm; it grants one from near to cid.
Asks(pdu, psm, cid) ==
    Signals(pdu) /\ Read(pdu).code = ConnectionRequest /\ Read(pdu).psm = psm /\ Read(pdu).words[1] = cid
Grants(pdu, near, cid) ==
    /\ Signals(pdu) /\ Read(pdu).code = ConnectionResponse
    /\ Read(pdu).words[1] = near /\ Read(pdu).words[2] = cid /\ Read(pdu).words[3] = Success

\* One manager: its channels and what it has sent.
ChannelFields == {"psm", "spec", "destination_cid", "state", "incoming", "peer_mtu",
                  "peer_configuration_received", "configuration_response_received",
                  "connection_result", "received", "tentative"}
ManagerFields == {"channels", "accepted", "outbound", "error", "identifier", "information_responses",
                  "asked", "unusual"}
ChannelOk(channel) ==
    /\ DOMAIN channel = ChannelFields /\ channel.psm \in Psms /\ channel.spec \in ChannelSpecs
    /\ channel.destination_cid \in Nat /\ channel.peer_mtu \in Nat
Good(m) ==
    /\ DOMAIN m = ManagerFields /\ m.identifier \in Nat
    /\ DOMAIN m.channels \subseteq CidRange /\ \A c \in DOMAIN m.channels : ChannelOk(m.channels[c])
    /\ m.outbound \in Seq(Pdus) /\ \A i \in 1..Len(m.outbound) : Readable(m.outbound[i])

Far(m, cid) == m.channels[cid].destination_cid
Port(m, cid) == m.channels[cid].psm

\* The ends of channels of m, against the manager o of the other side.
Matched(m, o) ==
    \A c \in DOMAIN m.channels : Far(m, c) # 0 =>
        /\ Far(m, c) \in DOMAIN o.channels /\ Port(o, Far(m, c)) = Port(m, c)
        /\ Far(o, Far(m, c)) \in {0, c}
Distinct(m) == \A c, d \in DOMAIN m.channels : Far(m, c) # 0 /\ Far(m, c) = Far(m, d) => c = d

\* A request on its way is the only one for its channel, and nobody has taken it yet.
Requested(m, o) ==
    \A i \in 1..Len(m.outbound) : \A psm, cid \in Nat : Asks(m.outbound[i], psm, cid) =>
        /\ cid \in DOMAIN m.channels /\ Far(m, cid) = 0 /\ Port(m, cid) = psm
        /\ \A d \in DOMAIN o.channels : Far(o, d) # cid
        /\ \A j \in 1..Len(m.outbound), p \in Nat : Asks(m.outbound[j], p, cid) => i = j

\* A grant on its way names a channel that has the other end, which does not know it yet.
Granted(m, o) ==
    \A i \in 1..Len(m.outbound) : \A near, cid \in Nat : Grants(m.outbound[i], near, cid) =>
        /\ near \in DOMAIN m.channels /\ Far(m, near) = cid
        /\ cid \in DOMAIN o.channels /\ Far(o, cid) = 0
        /\ \A j \in 1..Len(m.outbound), n \in Nat : Grants(m.outbound[j], n, cid) => i = j

Half(m, o) == Good(m) /\ Matched(m, o) /\ Distinct(m) /\ Requested(m, o) /\ Granted(m, o)
PairInv == \A e \in Sides : Half(manager[e], manager[Other(e)])

-----------------------------------------------------------------------------
(* Induction *)

\* A non-empty set of naturals has a least element.
LEMMA Smallest ==
  ASSUME NEW T, T \subseteq Nat, T # {}
  PROVE  \E x \in T : \A y \in T : x <= y
<1> DEFINE R == {ss \in Nat \X Nat : ss[1] < ss[2]}
<1>1. IsWellFoundedOn(R, Nat)
  BY NatLessThanWellFounded DEF OpToRel
<1>2. \E x \in T : \A y \in T : ~(<<y, x>> \in R)
  <2> HIDE DEF R
  <2> QED BY <1>1, WFMin, Zenon
<1>3. PICK x \in T : \A y \in T : ~(<<y, x>> \in R)
  BY <1>2
<1>4. \A y \in T : ~(y < x)
  BY <1>3, Zenon
<1> QED BY <1>4

\* Induction over the natural numbers, for a set of them.
LEMMA Induct ==
  ASSUME NEW S, 0 \in S, \A n \in Nat : n \in S => n + 1 \in S
  PROVE  Nat \subseteq S
<1> SUFFICES ASSUME Nat \ S # {} PROVE FALSE
  OBVIOUS
<1>1. PICK x \in Nat \ S : \A y \in Nat \ S : x <= y
  BY Smallest, Zenon
<1> QED BY <1>1

-----------------------------------------------------------------------------
(* Octets *)

LEMMA Halves ==
  ASSUME NEW n \in Nat
  PROVE  /\ LE16(n) \in Seq(Nat) /\ Len(LE16(n)) = 2
         /\ LE16(n)[1] \in Nat /\ LE16(n)[2] \in Nat
<1>1. n % 256 \in Nat /\ n \div 256 \in Nat
  BY SMT
<1> QED BY <1>1, SMT DEF LE16

LEMMA Whole ==
  ASSUME NEW n \in Nat
  PROVE  LE16(n)[1] + 256 * LE16(n)[2] = n
<1>1. (n % 256) + 256 * (n \div 256) = n
  BY SMT
<1> QED BY <1>1, SMT DEF LE16

LEMMA OctetIs == \A n : n \in Octet <=> n \in Nat /\ n < 256
  BY SMTT(30) DEF Octet

LEMMA WordOctets ==
  ASSUME NEW n \in Nat, n < 65536
  PROVE  LE16(n) \in Octets /\ Len(LE16(n)) = 2
<1>1. n % 256 \in Nat /\ n % 256 < 256 /\ n \div 256 \in Nat /\ n \div 256 < 256
  BY SMT
<1>2. n % 256 \in Octet /\ n \div 256 \in Octet
  BY <1>1, OctetIs, SMT
<1> QED BY <1>2, SMT DEF LE16, Octets

LEMMA WordsAre ==
  ASSUME NEW words \in Seq(Nat)
  PROVE  /\ Words(words) \in Seq(Nat) /\ Len(Words(words)) = 2 * Len(words)
         /\ \A i \in 1..Len(words) :
              Words(words)[2 * i - 1] = LE16(words[i])[1] /\ Words(words)[2 * i] = LE16(words[i])[2]
<1> DEFINE w == Words(words)
<1>1. Len(words) \in Nat /\ 2 * Len(words) \in Nat
  OBVIOUS
<1>2. ASSUME NEW i \in 1..(2 * Len(words)) PROVE w[i] \in Nat
  <2>1. (i + 1) \div 2 \in 1..Len(words) /\ 2 - (i % 2) \in {1, 2}
    BY <1>1
  <2>2. words[(i + 1) \div 2] \in Nat
    BY <2>1
  <2>3. LE16(words[(i + 1) \div 2])[1] \in Nat /\ LE16(words[(i + 1) \div 2])[2] \in Nat
    BY <2>2, Halves, Zenon
  <2> QED BY <2>1, <2>3 DEF Words
<1>3. w \in [1..(2 * Len(words)) -> Nat]
  BY <1>2 DEF Words
<1>4. w \in Seq(Nat) /\ Len(w) = 2 * Len(words)
  <2> HIDE DEF w
  <2> QED BY <1>1, <1>3
<1>5. ASSUME NEW i \in 1..Len(words)
      PROVE  w[2 * i - 1] = LE16(words[i])[1] /\ w[2 * i] = LE16(words[i])[2]
  <2>1. /\ 2 * i - 1 \in 1..(2 * Len(words)) /\ 2 * i \in 1..(2 * Len(words))
        /\ (2 * i - 1 + 1) \div 2 = i /\ (2 * i + 1) \div 2 = i
        /\ 2 - ((2 * i - 1) % 2) = 1 /\ 2 - ((2 * i) % 2) = 2
    BY <1>1
  <2>2. w[2 * i - 1] = LE16(words[i])[1] /\ w[2 * i] = LE16(words[i])[2]
    BY <2>1 DEF Words
  <2>3. words[i] \in Nat
    OBVIOUS
  <2> QED BY <2>2, <2>3, Halves, Zenon
<1> QED BY <1>4, <1>5

-----------------------------------------------------------------------------
(* A frame is read as it was written *)

\* A concatenation, by its elements.
LEMMA Concat ==
  ASSUME NEW x \in Seq(Nat), NEW y \in Seq(Nat)
  PROVE  /\ x \o y \in Seq(Nat) /\ Len(x \o y) = Len(x) + Len(y)
         /\ \A i \in 1..Len(x) : (x \o y)[i] = x[i]
         /\ \A i \in 1..Len(y) : (x \o y)[Len(x) + i] = y[i]
  BY SMT

\* What is left after the first n elements.
LEMMA Rest ==
  ASSUME NEW x \in Seq(Nat), NEW n \in 0..Len(x)
  PROVE  /\ From(x, n) \in Seq(Nat) /\ Len(From(x, n)) = Len(x) - n
         /\ \A i \in 1..(Len(x) - n) : From(x, n)[i] = x[n + i]
<1>1. n \in Nat /\ Len(x) \in Nat /\ n + 1 \in Int /\ \A i \in (n + 1)..Len(x) : x[i] \in Nat
  BY SMT
<1>2. /\ SubSeq(x, n + 1, Len(x)) \in Seq(Nat)
      /\ Len(SubSeq(x, n + 1, Len(x))) = IF n + 1 <= Len(x) THEN Len(x) - (n + 1) + 1 ELSE 0
      /\ \A i \in 1 .. Len(x) - (n + 1) + 1 : SubSeq(x, n + 1, Len(x))[i] = x[n + 1 + i - 1]
  BY <1>1, SubSeqProperties, SMT
<1> QED BY <1>1, <1>2, SMT DEF From

\* Equal sequences.
LEMMA Same ==
  ASSUME NEW x \in Seq(Nat), NEW y \in Seq(Nat), Len(x) = Len(y), \A i \in 1..Len(x) : x[i] = y[i]
  PROVE  x = y
  BY SeqEqual, Zenon

LEMMA OctetsAreNat == Octets \subseteq Seq(Nat)
<1>1. Octet \subseteq Nat
  BY OctetIs, SMT
<1>2. ASSUME NEW x \in Seq(Octet) PROVE x \in Seq(Nat)
  <2>1. Len(x) \in Nat /\ x = [i \in 1..Len(x) |-> x[i]] /\ \A i \in 1..Len(x) : x[i] \in Octet
    BY SMT
  <2>2. \A i \in 1..Len(x) : x[i] \in Nat
    BY <1>1, <2>1, Zenon
  <2> QED BY <2>1, <2>2, SMT
<1> QED BY <1>2, Zenon DEF Octets

\* Fields finds the words and the octets that were written.
Finds(code, identifier, psm, words, data, layout) ==
    Fields(code, identifier, psm, Words(words) \o data, layout)
      = Frame(code, identifier, psm, words, data)

LEMMA FieldsRead ==
  ASSUME NEW code, NEW identifier, NEW psm, NEW words \in Seq(Nat), NEW data \in Seq(Nat), NEW layout,
         layout.words = Len(words), layout.tail # "cids", layout.tail = "none" => data = <<>>
  PROVE  Finds(code, identifier, psm, words, data, layout)
<1> DEFINE n == Len(words)
           w == Words(words)
           d == w \o data
<1>1. n \in Nat /\ 2 * n \in Nat /\ Len(data) \in Nat
  BY SMT
<1>2. /\ w \in Seq(Nat) /\ Len(w) = 2 * n
      /\ \A i \in 1..n : w[2 * i - 1] = LE16(words[i])[1] /\ w[2 * i] = LE16(words[i])[2]
  BY WordsAre
<1> HIDE DEF w
<1>3. /\ Len(d) = 2 * n + Len(data)
      /\ \A i \in 1..(2 * n) : d[i] = w[i]
      /\ \A i \in 1..Len(data) : d[2 * n + i] = data[i]
  <2>1. /\ Len(w \o data) = Len(w) + Len(data)
        /\ \A i \in 1..Len(w) : (w \o data)[i] = w[i]
        /\ \A i \in 1..Len(data) : (w \o data)[Len(w) + i] = data[i]
    BY <1>2, Concat, Zenon
  <2> QED BY <1>2, <2>1, Zenon
<1>4. d \in Seq(Nat)
  BY <1>2, Concat, Zenon
<1> HIDE DEF d
<1>5. 2 * n \in 0..Len(d)
  BY <1>1, <1>3, SMT
<1>6. /\ From(d, 2 * n) \in Seq(Nat) /\ Len(From(d, 2 * n)) = Len(data)
      /\ \A i \in 1..Len(data) : From(d, 2 * n)[i] = data[i]
  <2>1. /\ From(d, 2 * n) \in Seq(Nat) /\ Len(From(d, 2 * n)) = Len(d) - 2 * n
        /\ \A i \in 1..(Len(d) - 2 * n) : From(d, 2 * n)[i] = d[2 * n + i]
    BY <1>5, <1>4, Rest, Zenon
  <2>2. Len(d) - 2 * n = Len(data)
    BY <1>1, <1>3, SMT
  <2> QED BY <1>3, <2>1, <2>2, Zenon
<1>7. From(d, 2 * n) = data
  BY <1>6, Same, Zenon
<1>8. [i \in 1..n |-> le16(d, 2 * (i - 1))] = words
  <2>1. ASSUME NEW i \in 1..n PROVE le16(d, 2 * (i - 1)) = words[i]
    <3>1. /\ 2 * (i - 1) + 1 = 2 * i - 1 /\ 2 * (i - 1) + 2 = 2 * i
          /\ 2 * i - 1 \in 1..(2 * n) /\ 2 * i \in 1..(2 * n) /\ words[i] \in Nat
      BY <1>1, SMT
    <3>2. d[2 * i - 1] = LE16(words[i])[1] /\ d[2 * i] = LE16(words[i])[2]
      BY <1>2, <1>3, <3>1, Zenon
    <3>3. LE16(words[i])[1] + 256 * LE16(words[i])[2] = words[i]
      BY <3>1, Whole, Zenon
    <3>4. le16(d, 2 * (i - 1)) = d[2 * i - 1] + 256 * d[2 * i]
      BY <3>1, Zenon DEF le16
    <3> QED BY <3>2, <3>3, <3>4, Zenon
  <2>2. words = [i \in 1..n |-> words[i]]
    BY SMT
  <2> QED BY <2>1, <2>2, SMT
<1>9. ~(Len(d) < 2 * n)
  BY <1>1, <1>3, SMT
<1> HIDE DEF n
<1>10. Fields(code, identifier, psm, d, layout) =
        IF Len(d) < 2 * n \/ (layout.tail = "cids" /\ Len(From(d, 2 * n)) % 2 = 1)
        THEN Invalid
        ELSE Frame(code, identifier, psm, [i \in 1..n |-> le16(d, 2 * (i - 1))],
                   IF layout.tail = "none" THEN <<>> ELSE From(d, 2 * n))
  BY Zenon DEF Fields, n
<1> QED BY <1>7, <1>8, <1>9, <1>10, Zenon DEF Finds, d, w

LEMMA PortsAreNat == Ports16 \subseteq Nat
  BY SMT DEF Ports16

LEMMA Layouts ==
    /\ Layout(1) = Open(1) /\ Layout(2) = Fixed(1) /\ Layout(3) = Fixed(4) /\ Layout(4) = Open(2)
    /\ Layout(5) = Open(3) /\ Layout(6) = Fixed(2) /\ Layout(7) = Fixed(2)
  BY SMT DEF Layout, CommandReject, ConnectionRequest, ConnectionResponse, ConfigureRequest, ConfigureResponse,
             DisconnectionRequest, DisconnectionResponse, InformationRequest, InformationResponse

LEMMA SerializedPsm ==
  ASSUME NEW psm \in Ports16
  PROVE  serialize_psm(psm) = LE16(psm)
<1> DEFINE low == psm % 65536
           high == psm \div 65536
<1>1. low = psm /\ high = 0
  BY SMT DEF Ports16
<1>2. serialize_psm(psm) = LE16(low) \o HighOctets(high)
  BY SMT DEF serialize_psm
<1> HIDE DEF low, high
<1>3. HighOctets(high) = <<>>
  BY <1>1, SMT DEF HighOctets
<1>4. LE16(psm) \in Seq(Nat)
  BY PortsAreNat, Halves, Zenon
<1>5. LE16(psm) \o <<>> = LE16(psm)
  BY <1>4, ConcatEmptySeq, Zenon
<1> QED BY <1>1, <1>2, <1>3, <1>5, Zenon

LEMMA FrameFields ==
  ASSUME NEW frame \in Frames
  PROVE  /\ frame.code \in 1..7 /\ frame.identifier \in Nat /\ frame.psm \in Ports16
         /\ frame.words \in Seq(Nat) /\ frame.data \in Octets /\ frame.data \in Seq(Nat)
         /\ frame = Frame(frame.code, frame.identifier, frame.psm, frame.words, frame.data)
<1>1. frame \in [code : 1..7, identifier : Nat, psm : Ports16, words : Seq(Nat), data : Octets]
  BY Zenon DEF Frames
<1>2. frame.data \in Octets
  BY <1>1, SMT
<1>3. frame.data \in Seq(Nat)
  BY <1>2, OctetsAreNat, Zenon
<1>4. frame = Frame(frame.code, frame.identifier, frame.psm, frame.words, frame.data)
  BY <1>1, SMT DEF Frame
<1> QED BY <1>1, <1>2, <1>3, <1>4, SMT

LEMMA Payload ==
  ASSUME NEW frame \in Frames
  PROVE  /\ payload(frame) \in Seq(Nat)
         /\ frame.code # ConnectionRequest => payload(frame) = Words(frame.words) \o frame.data
         /\ frame.code = ConnectionRequest => payload(frame) = LE16(frame.psm) \o Words(frame.words)
<1> DEFINE w == Words(frame.words)
<1>1. frame.psm \in Ports16 /\ frame.words \in Seq(Nat) /\ frame.data \in Seq(Nat)
  BY FrameFields, Zenon
<1>2. w \in Seq(Nat)
  BY <1>1, WordsAre, Zenon
<1> HIDE DEF w
<1>3. CASE frame.code # ConnectionRequest
  <2>1. payload(frame) = (<<>> \o w) \o frame.data
    BY <1>3, Zenon DEF payload, w
  <2>2. <<>> \o w = w
    BY <1>2, ConcatEmptySeq, Zenon
  <2>3. w \o frame.data \in Seq(Nat)
    BY <1>1, <1>2, Concat, Zenon
  <2> QED BY <1>3, <2>1, <2>2, <2>3, Zenon DEF w
<1>4. CASE frame.code = ConnectionRequest
  <2>1. Layout(frame.code).tail = "none"
    BY <1>4, Layouts, SMT DEF Fixed, ConnectionRequest
  <2>2. frame.data = <<>>
    BY <2>1, Zenon DEF Frames
  <2>3. payload(frame) = (LE16(frame.psm) \o w) \o <<>>
    BY <1>1, <1>4, <2>2, SerializedPsm, Zenon DEF payload, w
  <2>4. LE16(frame.psm) \in Seq(Nat)
    BY <1>1, Halves, PortsAreNat, Zenon
  <2>5. LE16(frame.psm) \o w \in Seq(Nat)
    BY <1>2, <2>4, Concat, Zenon
  <2>6. (LE16(frame.psm) \o w) \o <<>> = LE16(frame.psm) \o w
    BY <2>5, ConcatEmptySeq, Zenon
  <2> QED BY <1>4, <2>3, <2>5, <2>6, Zenon DEF w
<1> QED BY <1>3, <1>4, Zenon

\* The octets b begin with those of frame.
Begins(b, frame) ==
    /\ b \in Seq(Nat) /\ 4 + Len(payload(frame)) <= Len(b)
    /\ b[1] = frame.code /\ b[2] = frame.identifier
    /\ b[3] = LE16(Len(payload(frame)))[1] /\ b[4] = LE16(Len(payload(frame)))[2]
    /\ \A i \in 1..Len(payload(frame)) : b[4 + i] = payload(frame)[i]

LEMMA FirstIsPayload ==
  ASSUME NEW frame \in Frames, NEW b, Begins(b, frame)
  PROVE  FirstPayload(b) = payload(frame)
<1> DEFINE p == payload(frame)
<1>1. p \in Seq(Nat)
  BY Payload, Zenon
<1>2. /\ b \in Seq(Nat) /\ 4 + Len(p) <= Len(b)
      /\ b[3] = LE16(Len(p))[1] /\ b[4] = LE16(Len(p))[2]
      /\ \A i \in 1..Len(p) : b[4 + i] = p[i]
  BY Zenon DEF Begins
<1> HIDE DEF p
<1>3. Len(p) \in Nat /\ Len(b) \in Nat
  BY <1>1, <1>2, SMT
<1>4. le16(b, 2) = Len(p)
  <2>1. b[3] + 256 * b[4] = Len(p)
    BY <1>2, <1>3, Whole, Zenon
  <2> QED BY <2>1, SMT DEF le16
<1>5. Least(4 + le16(b, 2), Len(b)) = 4 + Len(p)
  BY <1>2, <1>3, <1>4, SMTT(30) DEF Least
<1>6. FirstPayload(b) = SubSeq(b, 5, 4 + Len(p))
  BY <1>5, Zenon DEF FirstPayload
<1>7. \A i \in 5..(4 + Len(p)) : b[i] \in Nat
  <2>1. b \in Seq(Nat) /\ 4 + Len(p) <= Len(b)
    BY <1>2, Zenon
  <2>2. \A i \in 1..Len(b) : b[i] \in Nat
    BY <2>1, SMT
  <2>3. \A i \in 5..(4 + Len(p)) : i \in 1..Len(b)
    BY <1>3, <2>1, SMT
  <2> QED BY <2>2, <2>3, Zenon
<1> DEFINE s == SubSeq(b, 5, 4 + Len(p))
<1>8. /\ s \in Seq(Nat) /\ Len(s) = Len(p)
      /\ \A i \in 1..Len(p) : s[i] = b[5 + i - 1]
  BY <1>3, <1>7, SubSeqProperties, SMT
<1> HIDE DEF s
<1>9. ASSUME NEW i \in 1..Len(s) PROVE s[i] = p[i]
  <2>1. i \in 1..Len(p) /\ 5 + i - 1 = 4 + i
    BY <1>3, <1>8, SMT
  <2> QED BY <1>2, <1>8, <2>1, Zenon
<1>10. s = p
  BY <1>1, <1>8, <1>9, Same, Zenon
<1> QED BY <1>6, <1>10, Zenon DEF p, s

\* The PSM at the head of a ConnectionRequest.
LEMMA PsmRead ==
  ASSUME NEW psm \in Ports16, (psm \div 256) % 2 = 0, NEW w \in Seq(Nat), NEW d, d = LE16(psm) \o w
  PROVE  PsmLength(d) = 2 /\ PsmValue(SubSeq(d, 1, 2)) = psm /\ From(d, 2) = w
<1>1. psm \in Nat /\ LE16(psm) = <<psm % 256, psm \div 256>>
  BY SMT DEF Ports16, LE16
<1>2. psm % 256 \in Nat /\ psm \div 256 \in Nat
  BY <1>1, SMT
<1>3. /\ d \in Seq(Nat) /\ Len(d) = 2 + Len(w) /\ d[1] = psm % 256 /\ d[2] = psm \div 256
      /\ \A i \in 1..Len(w) : d[2 + i] = w[i]
  BY <1>1, <1>2, SMT
<1>4. PsmLength(d) = 2
  <2> DEFINE ends == {n \in 2..Len(d) : d[n] % 2 = 0}
  <2>1. 2 \in ends /\ \A other \in ends : 2 <= other
    BY <1>3, SMT
  <2>2. \A n \in ends : (\A other \in ends : n <= other) => n = 2
    BY <2>1, SMT
  <2> HIDE DEF ends
  <2>3. (CHOOSE n \in ends : \A other \in ends : n <= other) = 2
    BY <2>1, <2>2, Zenon
  <2>4. PsmLength(d) = IF ends = {} THEN 0 ELSE CHOOSE n \in ends : \A other \in ends : n <= other
    BY Zenon DEF PsmLength, ends
  <2> QED BY <2>1, <2>3, <2>4, Zenon
<1>5. PsmValue(SubSeq(d, 1, 2)) = psm
  <2> DEFINE s == SubSeq(d, 1, 2)
  <2>1. Len(d) \in Nat /\ \A i \in 1..2 : d[i] \in Nat
    BY <1>2, <1>3, SMT
  <2>2. Len(s) = 2 /\ s[1] = d[1] /\ s[2] = d[2]
    BY <1>3, <2>1, SMT
  <2>3. s[1] = psm % 256 /\ s[2] = psm \div 256
    BY <1>3, <2>2, SMT
  <2> HIDE DEF s
  <2>4. PsmValue(s) = s[1] + 256 * (s[2] + 256 * (0 + 256 * 0))
    BY <2>2, SMT DEF PsmValue
  <2>5. PsmValue(s) = psm
    BY <1>1, <1>2, <2>3, <2>4, SMT
  <2> QED BY <2>5, Zenon DEF s
<1>6. From(d, 2) = w
  <2>1. 2 \in 0..Len(d) /\ Len(d) - 2 = Len(w)
    BY <1>3, SMT
  <2>2. /\ From(d, 2) \in Seq(Nat) /\ Len(From(d, 2)) = Len(d) - 2
        /\ \A i \in 1..(Len(d) - 2) : From(d, 2)[i] = d[2 + i]
    BY <1>3, <2>1, Rest, Zenon
  <2>3. Len(From(d, 2)) = Len(w) /\ \A i \in 1..Len(From(d, 2)) : From(d, 2)[i] = w[i]
    BY <1>3, <2>1, <2>2, ZenonT(40)
  <2> QED BY <2>2, <2>3, Same, Zenon
<1> QED BY <1>4, <1>5, <1>6, Zenon

\* A frame is read as it was written, whatever follows it in the PDU.
LEMMA FrameRead ==
  ASSUME NEW frame \in Frames, NEW b, Begins(b, frame)
  PROVE  frame_from_bytes(b) = frame
<1> DEFINE p == payload(frame)
           w == Words(frame.words)
<1>1. /\ frame.code \in 1..7 /\ frame.psm \in Ports16 /\ frame.words \in Seq(Nat) /\ frame.data \in Seq(Nat)
      /\ frame = Frame(frame.code, frame.identifier, frame.psm, frame.words, frame.data)
  BY FrameFields, Zenon
<1>2. FirstPayload(b) = p /\ p \in Seq(Nat) /\ w \in Seq(Nat)
  BY <1>1, FirstIsPayload, Payload, WordsAre, Zenon
<1>3. b[1] = frame.code /\ b[2] = frame.identifier /\ ~(Len(b) < 4)
  BY <1>2, SMT DEF Begins
<1>4. /\ Layout(frame.code).words = Len(frame.words)
      /\ Layout(frame.code).tail = "none" => frame.data = <<>>
      /\ Layout(frame.code).tail # "cids"
  <2>1. Layout(frame.code).tail # "cids"
    BY <1>1, Layouts, SMT DEF Fixed, Open
  <2> QED BY <2>1, Zenon DEF Frames
<1> HIDE DEF p
<1> DEFINE layout == Layout(frame.code)
<1> HIDE DEF layout
<1>5. layout.words = Len(frame.words) /\ layout.tail # "cids"
  BY <1>4, Zenon DEF layout
<1>6. layout.tail = "none" => frame.data = <<>>
  BY <1>4, Zenon DEF layout
<1>7. frame.words \in Seq(Nat) /\ frame.data \in Seq(Nat)
  BY <1>1, Zenon
<1>8. CASE frame.code # ConnectionRequest
  <2>1. frame_from_bytes(b) = Fields(frame.code, frame.identifier, 0, p, Layout(frame.code))
    BY <1>2, <1>3, <1>8, Zenon DEF frame_from_bytes
  <2>2. p = w \o frame.data
    BY <1>8, Payload, Zenon DEF p
  <2>3. frame.psm = 0
    BY <1>8, SMT DEF Frames
  <2>4. Finds(frame.code, frame.identifier, 0, frame.words, frame.data, layout)
    BY <1>7, <1>5, <1>6, FieldsRead, Zenon
  <2> QED BY <1>1, <2>1, <2>2, <2>3, <2>4, Zenon DEF layout, Finds
<1>9. CASE frame.code = ConnectionRequest
  <2>1. p = LE16(frame.psm) \o w
    BY <1>9, Payload, Zenon DEF p
  <2>2. (frame.psm \div 256) % 2 = 0
    BY <1>9, SMT DEF Frames
  <2>3. PsmLength(p) = 2 /\ PsmValue(SubSeq(p, 1, 2)) = frame.psm /\ From(p, 2) = w
    BY <1>1, <1>2, <2>1, <2>2, PsmRead, Zenon
  <2>4. frame.data = <<>>
    BY <1>4, <1>9, Layouts, SMT DEF Fixed, ConnectionRequest
  <2>5. w = w \o frame.data
    BY <1>2, <2>4, ConcatEmptySeq, Zenon
  <2>6. frame_from_bytes(b) = RequestFields(frame.identifier, p, 2)
    BY <1>2, <1>3, <1>9, <2>3, Zenon DEF frame_from_bytes
  <2>7. RequestFields(frame.identifier, p, 2)
          = Fields(frame.code, frame.identifier, frame.psm, w, Layout(frame.code))
    BY <1>9, <2>3, SMT DEF RequestFields
  <2>8. Finds(frame.code, frame.identifier, frame.psm, frame.words, frame.data, layout)
    BY <1>7, <1>5, <1>6, FieldsRead, Zenon
  <2> QED BY <1>1, <2>5, <2>6, <2>7, <2>8, Zenon DEF layout, Finds
<1> QED BY <1>8, <1>9, Zenon

\* The octets of a frame begin with it, also when others follow.
LEMMA FrameOctets ==
  ASSUME NEW frame \in Frames
  PROVE  Begins(frame_to_bytes(frame), frame)
<1> DEFINE p == payload(frame)
           l == LE16(Len(p))
           h == <<frame.code, frame.identifier>>
           b == (h \o l) \o p
<1>1. p \in Seq(Nat) /\ frame.code \in 1..7 /\ frame.identifier \in Nat
  BY FrameFields, Payload, Zenon
<1>2. frame_to_bytes(frame) = b
  BY Zenon DEF frame_to_bytes, WithHeader
<1> HIDE DEF p
<1>3. l \in Seq(Nat) /\ Len(l) = 2
  <2>1. Len(p) \in Nat
    BY <1>1, SMT
  <2> QED BY <2>1, Halves, Zenon
<1> HIDE DEF l
<1>4. /\ h \o l \in Seq(Nat) /\ Len(h \o l) = 4
      /\ (h \o l)[1] = frame.code /\ (h \o l)[2] = frame.identifier
      /\ (h \o l)[3] = l[1] /\ (h \o l)[4] = l[2]
  <2>1. h \in Seq(Nat) /\ Len(h) = 2 /\ h[1] = frame.code /\ h[2] = frame.identifier
    BY <1>1, SMT
  <2> HIDE DEF h
  <2>2. /\ h \o l \in Seq(Nat) /\ Len(h \o l) = Len(h) + Len(l)
        /\ \A i \in 1..Len(h) : (h \o l)[i] = h[i]
        /\ \A i \in 1..Len(l) : (h \o l)[Len(h) + i] = l[i]
    BY <1>3, <2>1, Concat, Zenon
  <2>3. /\ Len(h) + Len(l) = 4 /\ 1 \in 1..Len(h) /\ 2 \in 1..Len(h) /\ 1 \in 1..Len(l) /\ 2 \in 1..Len(l)
        /\ Len(h) + 1 = 3 /\ Len(h) + 2 = 4
    BY <1>3, <2>1, SMT
  <2>4. (h \o l)[Len(h) + 1] = l[1] /\ (h \o l)[Len(h) + 2] = l[2]
    BY <2>2, <2>3, Zenon
  <2>5. (h \o l)[1] = h[1] /\ (h \o l)[2] = h[2]
    BY <2>2, <2>3, Zenon
  <2> QED BY <2>1, <2>2, <2>3, <2>4, <2>5, SMT
<1> HIDE DEF h
<1>5. 1 \in 1..4 /\ 2 \in 1..4 /\ 3 \in 1..4 /\ 4 \in 1..4
  BY SMT
<1>6. /\ b \in Seq(Nat) /\ Len(b) = 4 + Len(p)
      /\ b[1] = frame.code /\ b[2] = frame.identifier /\ b[3] = l[1] /\ b[4] = l[2]
      /\ \A i \in 1..Len(p) : b[4 + i] = p[i]
  <2>1. /\ b \in Seq(Nat) /\ Len(b) = Len(h \o l) + Len(p)
        /\ \A i \in 1..Len(h \o l) : b[i] = (h \o l)[i]
        /\ \A i \in 1..Len(p) : b[Len(h \o l) + i] = p[i]
    BY <1>1, <1>4, Concat, Zenon
  <2> QED BY <1>4, <1>5, <2>1, Zenon
<1> HIDE DEF b
<1>7. 4 + Len(p) <= Len(b)
  BY <1>1, <1>6, SMT
<1> QED BY <1>2, <1>6, <1>7, Zenon DEF Begins, p, l

LEMMA MoreOctets ==
  ASSUME NEW frame \in Frames, NEW b, Begins(b, frame), NEW more \in Seq(Nat)
  PROVE  Begins(b \o more, frame)
<1> DEFINE p == payload(frame)
           a == b \o more
<1>1. p \in Seq(Nat)
  BY Payload, Zenon
<1>2. /\ b \in Seq(Nat) /\ 4 + Len(p) <= Len(b)
      /\ b[1] = frame.code /\ b[2] = frame.identifier
      /\ b[3] = LE16(Len(p))[1] /\ b[4] = LE16(Len(p))[2]
      /\ \A i \in 1..Len(p) : b[4 + i] = p[i]
  BY Zenon DEF Begins
<1> HIDE DEF p
<1>3. a \in Seq(Nat) /\ Len(a) = Len(b) + Len(more) /\ \A i \in 1..Len(b) : a[i] = b[i]
  BY <1>2, Concat, Zenon
<1> HIDE DEF a
<1>4. Len(p) \in Nat /\ Len(b) \in Nat /\ Len(more) \in Nat
  BY <1>1, <1>2, SMTT(30)
<1>5. /\ 4 + Len(p) <= Len(a) /\ 1 \in 1..Len(b) /\ 2 \in 1..Len(b) /\ 3 \in 1..Len(b) /\ 4 \in 1..Len(b)
      /\ \A i \in 1..Len(p) : 4 + i \in 1..Len(b)
  <2>1. 4 + Len(p) <= Len(b) /\ Len(a) = Len(b) + Len(more)
    BY <1>2, <1>3, Zenon
  <2> QED BY <1>4, <2>1, SMT
<1> QED BY <1>2, <1>3, <1>5, Zenon DEF Begins, p, a

\* A PDU whose payload begins with a frame is read as that frame.
LEMMA Signal ==
  ASSUME NEW frame \in Frames, NEW b, Begins(b, frame)
  PROVE  /\ Readable(Pdu(SignallingCid, b)) /\ Signals(Pdu(SignallingCid, b))
         /\ Read(Pdu(SignallingCid, b)) = frame
<1> DEFINE pdu == Pdu(SignallingCid, b)
<1>1. b \in Seq(Nat)
  BY Zenon DEF Begins
<1>2. pdu \in Pdus /\ pdu.cid = SignallingCid /\ pdu.payload = b
  BY <1>1, SMT DEF Pdu, Pdus, SignallingCid
<1> HIDE DEF pdu
<1>3. Read(pdu) = frame
  BY <1>2, FrameRead, Zenon DEF Read
<1> QED BY <1>2, <1>3, Zenon DEF Readable, Signals, pdu

-----------------------------------------------------------------------------
(* Recursive definitions *)

\* What holds of an element whenever it holds of all the smaller ones holds of all.
Inductive(S, D, size) == \A d \in D : (\A c \in D : size[c] < size[d] => c \in S) => d \in S

LEMMA Descent ==
  ASSUME NEW D, NEW size \in [D -> Nat], NEW S, Inductive(S, D, size)
  PROVE  D \subseteq S
<1> SUFFICES ASSUME NEW d \in D, d \notin S PROVE FALSE
  OBVIOUS
<1> DEFINE T == {size[c] : c \in D \ S}
<1>1. T \subseteq Nat /\ T # {}
  BY SMT
<1>2. PICK x \in T : \A y \in T : x <= y
  <2> HIDE DEF T
  <2> QED BY <1>1, Smallest, Zenon
<1>3. PICK e \in D \ S : x = size[e]
  BY <1>2, Zenon
<1>4. \A c \in D : size[c] < size[e] => c \in S
  <2>1. ASSUME NEW c \in D, size[c] < size[e], c \notin S PROVE FALSE
    <3>1. size[c] \in T
      BY <2>1
    <3>2. x <= size[c]
      BY <1>2, <3>1, Zenon
    <3>3. size[c] \in Nat /\ size[e] \in Nat
      BY SMT
    <3> QED BY <1>3, <2>1, <3>2, <3>3, SMT
  <2> QED BY <2>1, Zenon
<1> QED BY <1>3, <1>4, Zenon DEF Inductive

\* A function that is given outright on the elements of Stop and by its value at a smaller
\* element on the others.
Turn(f, D, Stop, next, base, wrap) ==
    [d \in D |-> IF d \in Stop THEN base[d] ELSE wrap[<<d, f[next[d]]>>]]
Solves(f, n, D, size, Stop, next, base, wrap) ==
    \A d \in D : size[d] < n => f[d] = Turn(f, D, Stop, next, base, wrap)[d]

Falls(D, size, Stop, next) == \A d \in D \ Stop : size[next[d]] < size[d]
Recurs(f, D, Stop, next, base, wrap) ==
    \A d \in D : f[d] = IF d \in Stop THEN base[d] ELSE wrap[<<d, f[next[d]]>>]

LEMMA Recursion ==
  ASSUME NEW D, NEW size \in [D -> Nat], NEW Stop, NEW next \in [D -> D], Falls(D, size, Stop, next),
         NEW X, NEW base \in [D -> X], NEW wrap \in [D \X X -> X]
  PROVE  \E f \in [D -> X] : Recurs(f, D, Stop, next, base, wrap)
<1> DEFINE T(f) == Turn(f, D, Stop, next, base, wrap)
           Agree(f, g, d) == f[d] = g[d]
           Sol(n, f) == f \in [D -> X] /\ Solves(f, n, D, size, Stop, next, base, wrap)
<1>1. ASSUME NEW f \in [D -> X] PROVE T(f) \in [D -> X]
  <2>1. ASSUME NEW d \in D PROVE (IF d \in Stop THEN base[d] ELSE wrap[<<d, f[next[d]]>>]) \in X
    OBVIOUS
  <2> QED BY <2>1, Zenon DEF Turn
<1>2. ASSUME NEW f, NEW d \in D
      PROVE  T(f)[d] = IF d \in Stop THEN base[d] ELSE wrap[<<d, f[next[d]]>>]
  BY Zenon DEF Turn
<1> HIDE DEF T
<1>3. ASSUME NEW n \in Nat, NEW f, Sol(n, f) PROVE Sol(n + 1, T(f))
  <2>1. f \in [D -> X] /\ \A d \in D : size[d] < n => f[d] = T(f)[d]
    BY <1>3, Zenon DEF Solves, T
  <2>2. ASSUME NEW d \in D, size[d] < n + 1 PROVE T(f)[d] = T(T(f))[d]
    <3>1. CASE d \in Stop
      BY <1>2, <3>1, Zenon
    <3>2. CASE d \notin Stop
      <4>1. size[next[d]] < n /\ next[d] \in D
        <5>1. size[next[d]] < size[d] /\ next[d] \in D
          BY <3>2, Zenon DEF Falls
        <5>2. size[next[d]] \in Nat /\ size[d] \in Nat
          BY <5>1, Zenon
        <5> QED BY <2>2, <5>1, <5>2, SMT
      <4>2. f[next[d]] = T(f)[next[d]]
        BY <2>1, <4>1, Zenon
      <4>3. T(f)[d] = wrap[<<d, f[next[d]]>>]
        BY <1>2, <3>2, Zenon
      <4>4. T(T(f))[d] = wrap[<<d, T(f)[next[d]]>>]
        BY <1>2, <3>2, Zenon
      <4> QED BY <4>2, <4>3, <4>4, Zenon
    <3> QED BY <3>1, <3>2, Zenon
  <2> QED BY <1>1, <2>1, <2>2, Zenon DEF Solves, T
<1>4. \A n \in Nat : \E f : Sol(n, f)
  <2> DEFINE S == {n \in Nat : \E f : Sol(n, f)}
  <2>1. 0 \in S
    <3>1. \A d \in D : ~(size[d] < 0)
      BY SMT
    <3> QED BY <3>1, SMT DEF Solves
  <2>2. ASSUME NEW n \in Nat, n \in S PROVE n + 1 \in S
    BY <1>3, <2>2
  <2> HIDE DEF S
  <2>3. Nat \subseteq S
    BY <2>1, <2>2, Induct, Zenon
  <2> QED BY <2>3, Zenon DEF S
<1>5. ASSUME NEW m \in Nat, NEW n \in Nat, NEW f, NEW g, Sol(m, f), Sol(n, g), NEW d \in D, size[d] < m, size[d] < n
      PROVE  Agree(f, g, d)
  <2> DEFINE S == {c \in D : size[c] < m /\ size[c] < n => f[c] = g[c]}
  <2>1. /\ \A c \in D : size[c] < m => f[c] = T(f)[c]
        /\ \A c \in D : size[c] < n => g[c] = T(g)[c]
    BY <1>5, Zenon DEF Solves, T
  <2>2. ASSUME NEW c \in D, \A e \in D : size[e] < size[c] => e \in S, size[c] < m, size[c] < n
        PROVE  f[c] = g[c]
    <3>1. CASE c \in Stop
      BY <1>2, <2>1, <2>2, <3>1, Zenon
    <3>2. CASE c \notin Stop
      <4>1. size[next[c]] < size[c] /\ next[c] \in D
        BY <3>2, Zenon DEF Falls
      <4>2. size[next[c]] < m /\ size[next[c]] < n
        <5>1. size[next[c]] \in Nat /\ size[c] \in Nat
          BY <4>1, Zenon
        <5> QED BY <2>2, <4>1, <5>1, SMT
      <4>3. f[next[c]] = g[next[c]]
        BY <2>2, <4>1, <4>2, Zenon
      <4>4. f[c] = T(f)[c] /\ g[c] = T(g)[c]
        BY <2>1, <2>2, Zenon
      <4>5. T(f)[c] = wrap[<<c, f[next[c]]>>]
        BY <1>2, <3>2, Zenon
      <4>6. T(g)[c] = wrap[<<c, g[next[c]]>>]
        BY <1>2, <3>2, Zenon
      <4> QED BY <4>3, <4>4, <4>5, <4>6, Zenon
    <3> QED BY <3>1, <3>2, Zenon
  <2>3. Inductive(S, D, size)
    BY <2>2, Zenon DEF Inductive
  <2> HIDE DEF S
  <2>4. D \subseteq S
    BY <2>3, Descent, Zenon
  <2> QED BY <1>5, <2>4, Zenon DEF S
<1> DEFINE G(n) == CHOOSE f : Sol(n, f)
           F == [d \in D |-> G(size[d] + 1)[d]]
<1>6. ASSUME NEW n \in Nat PROVE Sol(n, G(n))
  BY <1>4, Zenon
<1>7. ASSUME NEW d \in D PROVE F[d] = G(size[d] + 1)[d] /\ Sol(size[d] + 1, G(size[d] + 1)) /\ size[d] < size[d] + 1
  <2>1. size[d] \in Nat /\ size[d] + 1 \in Nat /\ size[d] < size[d] + 1
    BY SMT
  <2> QED BY <1>6, <2>1, Zenon
<1>8. F \in [D -> X]
  <2>1. ASSUME NEW d \in D PROVE F[d] \in X
    BY <1>7, Zenon
  <2> QED BY <2>1, Zenon
<1> HIDE DEF F, G
<1>9. ASSUME NEW d \in D PROVE F[d] = IF d \in Stop THEN base[d] ELSE wrap[<<d, F[next[d]]>>]
  <2> DEFINE g == G(size[d] + 1)
  <2>1. g[d] = T(g)[d]
    BY <1>7, Zenon DEF Solves, T
  <2>2. CASE d \in Stop
    BY <1>2, <1>7, <2>1, <2>2, Zenon
  <2>3. CASE d \notin Stop
    <3>1. next[d] \in D /\ size[next[d]] < size[d]
      BY <2>3, Zenon DEF Falls
    <3>2. size[d] + 1 \in Nat /\ size[next[d]] + 1 \in Nat /\ size[next[d]] < size[d] + 1
      BY <3>1, SMT
    <3>3. F[next[d]] = g[next[d]]
      <4> DEFINE h == G(size[next[d]] + 1)
      <4>1. F[next[d]] = h[next[d]] /\ Sol(size[next[d]] + 1, h) /\ size[next[d]] < size[next[d]] + 1
        BY <1>7, <3>1, Zenon
      <4>2. Sol(size[d] + 1, g)
        BY <1>7, Zenon
      <4> HIDE DEF g, h, Sol, Agree
      <4>3. Agree(h, g, next[d])
        BY <1>5, <3>1, <3>2, <4>1, <4>2, Zenon
      <4> QED BY <4>1, <4>3, Zenon DEF Agree
    <3>4. T(g)[d] = wrap[<<d, g[next[d]]>>]
      BY <1>2, <2>3, Zenon
    <3>5. F[d] = g[d]
      BY <1>7, Zenon
    <3> QED BY <2>1, <2>3, <3>3, <3>4, <3>5, Zenon
  <2> QED BY <2>2, <2>3, Zenon
<1> QED BY <1>8, <1>9, Zenon DEF Recurs

LEMMA Pair == \A x, y : <<x, y>>[1] = x /\ <<x, y>>[2] = y
  OBVIOUS

LEMMA OctetSeq ==
  ASSUME NEW x \in Octets
  PROVE  Len(x) \in Nat /\ \A i \in 1..Len(x) : x[i] \in Octet
  BY SMT DEF Octets

LEMMA OctetsJoin ==
  ASSUME NEW x \in Octets, NEW y \in Octets
  PROVE  x \o y \in Octets /\ Len(x \o y) = Len(x) + Len(y)
  BY SMT DEF Octets

Options == Seq(ConfigurationOptions)

LEMMA OptionFields ==
  ASSUME NEW option \in ConfigurationOptions
  PROVE  /\ option.type \in Nat /\ option.type < HintBit /\ option.value \in Octets
         /\ Len(option.value) \in Octet
<1>1. HintBit \in Nat
  BY SMT DEF HintBit
<1>2. /\ option.type \in 0..(HintBit - 1) /\ option.value \in {value \in Octets : Len(value) <= 255}
  BY SMT DEF ConfigurationOptions
<1>3. option.value \in Octets /\ Len(option.value) <= 255 /\ Len(option.value) \in Nat
  BY <1>2, OctetSeq, Zenon
<1>4. Len(option.value) < 256
  BY <1>3, SMT
<1>5. option.type \in Nat /\ option.type < HintBit
  BY <1>1, <1>2, SMT
<1> QED BY <1>3, <1>4, <1>5, OctetIs, SMT

LEMMA OptionOctetsAre ==
  ASSUME NEW option \in ConfigurationOptions
  PROVE  OptionOctets(option) \in Octets
<1> DEFINE first == option.type + (IF option.hint THEN HintBit ELSE 0)
           h == <<first, Len(option.value)>>
<1>1. /\ option.type \in Nat /\ option.type < HintBit /\ option.value \in Octets
      /\ Len(option.value) \in Octet
  BY OptionFields, Zenon
<1>2. first \in Nat /\ first < 256
  BY <1>1, SMT DEF HintBit
<1>3. first \in Octet
  BY <1>2, OctetIs, SMT
<1>4. OptionOctets(option) = h \o option.value
  BY Zenon DEF OptionOctets
<1> HIDE DEF first
<1>5. h \in Octets
  BY <1>1, <1>3, SMT DEF Octets
<1> HIDE DEF h
<1> QED BY <1>1, <1>4, <1>5, OctetsJoin, Zenon

\* The octets of options, however many.
LEMMA Encoded ==
  ASSUME NEW options \in Options
  PROVE  encode_configuration_options(options) \in Octets
<1> DEFINE n == Len(options)
           D == 0..n
           size == [i \in D |-> i]
           next == [i \in D |-> IF i = 0 THEN 0 ELSE i - 1]
           base == [i \in D |-> <<>>]
           wrap == [p \in D \X Octets |-> IF p[1] = 0 THEN <<>> ELSE p[2] \o OptionOctets(options[p[1]])]
           Is(g) == g = [i \in 0..n |-> IF i = 0 THEN <<>> ELSE g[i - 1] \o OptionOctets(options[i])]
           E == CHOOSE g : Is(g)
<1>1. n \in Nat /\ \A i \in D : i # 0 => options[i] \in ConfigurationOptions /\ i - 1 \in D
  BY SMT DEF Options
<1>2. \A i \in D : i # 0 => OptionOctets(options[i]) \in Octets
  BY <1>1, OptionOctetsAre, Zenon
<1>3. <<>> \in Octets
  BY SMT DEF Octets
<1>4. wrap \in [D \X Octets -> Octets]
  <2>1. ASSUME NEW p \in D \X Octets
        PROVE  (IF p[1] = 0 THEN <<>> ELSE p[2] \o OptionOctets(options[p[1]])) \in Octets
    <3>1. p[1] \in D /\ p[2] \in Octets
      BY SMT
    <3> QED BY <1>2, <1>3, <3>1, OctetsJoin, Zenon
  <2> QED BY <2>1, Zenon
<1>5. /\ size \in [D -> Nat] /\ next \in [D -> D] /\ base \in [D -> Octets]
      /\ \A i \in D \ {0} : size[next[i]] < size[i]
  BY <1>1, <1>3, SMT
<1>6. Falls(D, size, {0}, next)
  BY <1>5, Zenon DEF Falls
<1> HIDE DEF wrap, size, next, base
<1>7. PICK f \in [D -> Octets] : Recurs(f, D, {0}, next, base, wrap)
  <2> HIDE DEF D
  <2> QED BY <1>4, <1>5, <1>6, Recursion, Zenon
<1>8. ASSUME NEW i \in D
      PROVE  f[i] = IF i = 0 THEN <<>> ELSE f[i - 1] \o OptionOctets(options[i])
  <2>1. CASE i = 0
    BY <1>7, <2>1, Zenon DEF base, Recurs
  <2>2. CASE i # 0
    <3>1. next[i] = i - 1 /\ i - 1 \in D
      BY <1>1, <2>2, Zenon DEF next
    <3>2. f[i - 1] \in Octets
      BY <3>1, Zenon
    <3>3. <<i, f[i - 1]>> \in D \X Octets
      BY <3>2, SMT
    <3>4. wrap[<<i, f[i - 1]>>] = f[i - 1] \o OptionOctets(options[i])
      BY <2>2, <3>3, Pair, Zenon DEF wrap
    <3>5. f[i] = wrap[<<i, f[next[i]]>>]
      BY <1>7, <2>2, Zenon DEF Recurs
    <3> QED BY <2>2, <3>1, <3>4, <3>5, Zenon
  <2> QED BY <2>1, <2>2, Zenon
<1>9. Is(f)
  <2>1. f = [i \in D |-> f[i]]
    BY <1>7, Zenon
  <2> QED BY <1>8, <2>1, Zenon
<1>10. Is(E)
  BY <1>9, Zenon
<1>11. encode_configuration_options(options) = E[n]
  BY Zenon DEF encode_configuration_options
<1> HIDE DEF E
<1>12. ASSUME NEW i \in D
       PROVE  E[i] = IF i = 0 THEN <<>> ELSE E[i - 1] \o OptionOctets(options[i])
  BY <1>10, Zenon
<1>13. D \subseteq {i \in D : E[i] \in Octets}
  <2> DEFINE S == {i \in D : E[i] \in Octets}
  <2>1. ASSUME NEW i \in D, \A c \in D : size[c] < size[i] => c \in S PROVE i \in S
    <3>1. CASE i = 0
      BY <1>3, <1>12, <3>1, Zenon
    <3>2. CASE i # 0
      <4>1. i - 1 \in D /\ size[i - 1] < size[i]
        BY <1>1, <3>2, SMT DEF size
      <4>2. E[i - 1] \in Octets
        BY <2>1, <4>1, Zenon
      <4>3. E[i] = E[i - 1] \o OptionOctets(options[i])
        BY <1>12, <3>2, Zenon
      <4> QED BY <1>2, <3>2, <4>2, <4>3, OctetsJoin, Zenon
    <3> QED BY <3>1, <3>2, Zenon
  <2>2. Inductive(S, D, size)
    BY <2>1, Zenon DEF Inductive
  <2> HIDE DEF S, D
  <2>3. D \subseteq S
    BY <1>5, <2>2, Descent, Zenon
  <2> QED BY <2>3, Zenon DEF S
<1>14. n \in D
  BY <1>1, SMT
<1> QED BY <1>11, <1>13, <1>14, Zenon

LEMMA OctetsPart ==
  ASSUME NEW d \in Octets, NEW i \in Nat, NEW j \in Nat, 1 <= i, i <= j + 1, j <= Len(d)
  PROVE  SubSeq(d, i, j) \in Octets /\ Len(SubSeq(d, i, j)) = j + 1 - i
<1>1. Len(d) \in Nat /\ \A k \in i..j : d[k] \in Octet
  BY OctetSeq, SMT
<1> QED BY <1>1, SubSeqProperties, SMT DEF Octets

LEMMA OptionIs ==
  ASSUME NEW t \in 0..(HintBit - 1), NEW h \in BOOLEAN, NEW v \in Octets, Len(v) <= 255
  PROVE  [type |-> t, hint |-> h, value |-> v] \in ConfigurationOptions
<1> DEFINE T == 0..(HintBit - 1)
           V == {value \in Octets : Len(value) <= 255}
<1>1. ConfigurationOptions = [type : T, hint : BOOLEAN, value : V]
  BY DEF ConfigurationOptions
<1>2. t \in T /\ v \in V
  OBVIOUS
<1> HIDE DEF T, V
<1> QED BY <1>1, <1>2

\* The option at the head of d, when d has one, and the octets after it.
Torn == {d \in Octets : d = <<>> \/ Len(d) < 2 \/ Len(d) < 2 + d[2]}
HeadOption(d) ==
    [type |-> d[1] % HintBit, hint |-> d[1] >= HintBit, value |-> SubSeq(d, 3, 2 + d[2])]
AfterOption(d) == From(d, 2 + d[2])

LEMMA HeadOptionIs ==
  ASSUME NEW d \in Octets \ Torn
  PROVE  /\ HeadOption(d) \in ConfigurationOptions
         /\ AfterOption(d) \in Octets /\ Len(AfterOption(d)) < Len(d)
<1>1. Len(d) \in Nat /\ ~(Len(d) < 2) /\ ~(Len(d) < 2 + d[2])
  BY OctetSeq, Zenon DEF Torn
<1>2. d[1] \in Octet /\ d[2] \in Octet
  <2>1. 1 \in 1..Len(d) /\ 2 \in 1..Len(d)
    BY <1>1, SMT
  <2> QED BY <2>1, OctetSeq, Zenon
<1>3. d[1] \in Nat /\ d[2] \in Nat /\ d[2] <= 255
  BY <1>2, OctetIs, SMT
<1>4. d[1] % HintBit \in 0..(HintBit - 1)
  <2>1. HintBit \in Nat /\ HintBit > 0
    BY SMT DEF HintBit
  <2> QED BY <1>3, <2>1, SMT
<1>5. SubSeq(d, 3, 2 + d[2]) \in Octets /\ Len(SubSeq(d, 3, 2 + d[2])) <= 255
  <2>1. /\ 3 \in Nat /\ 2 + d[2] \in Nat /\ 1 <= 3 /\ 3 <= (2 + d[2]) + 1 /\ 2 + d[2] <= Len(d)
        /\ (2 + d[2]) + 1 - 3 = d[2]
    BY <1>1, <1>3, SMT
  <2> DEFINE j == 2 + d[2]
  <2>2. SubSeq(d, 3, j) \in Octets /\ Len(SubSeq(d, 3, j)) = j + 1 - 3
    <3> HIDE DEF j
    <3>1. 3 \in Nat /\ j \in Nat /\ 1 <= 3 /\ 3 <= j + 1 /\ j <= Len(d)
      BY <2>1, Zenon DEF j
    <3> QED BY <3>1, OctetsPart, Zenon
  <2> QED BY <1>3, <2>1, <2>2
<1>6. HeadOption(d) \in ConfigurationOptions
  <2>1. (d[1] >= HintBit) \in BOOLEAN
    BY <1>3, SMT DEF HintBit
  <2> QED BY <1>4, <1>5, <2>1, OptionIs, Zenon DEF HeadOption
<1>7. AfterOption(d) \in Octets /\ Len(AfterOption(d)) < Len(d)
  <2> DEFINE i == 2 + d[2] + 1
             j == Len(d)
  <2>1. i \in Nat /\ j \in Nat /\ 1 <= i /\ i <= j + 1 /\ j <= Len(d) /\ j + 1 - i < Len(d)
    BY <1>1, <1>3, SMT
  <2>2. AfterOption(d) = SubSeq(d, i, j)
    BY Zenon DEF AfterOption, From
  <2> HIDE DEF i, j
  <2>3. SubSeq(d, i, j) \in Octets /\ Len(SubSeq(d, i, j)) = j + 1 - i
    BY <2>1, OctetsPart, Zenon
  <2> QED BY <2>1, <2>2, <2>3, SMT
<1> QED BY <1>6, <1>7, Zenon

Results == [ok : BOOLEAN, options : Options]

LEMMA Prepended ==
  ASSUME NEW r \in Results, NEW option \in ConfigurationOptions
  PROVE  [r EXCEPT !.options = <<option>> \o @] \in Results
<1>1. <<option>> \o r.options \in Options
  BY SMT DEF Options, Results
<1> DEFINE x == <<option>> \o r.options
<1>2. [r EXCEPT !.options = <<option>> \o @] = [r EXCEPT !.options = x]
  OBVIOUS
<1> HIDE DEF x
<1>3. [r EXCEPT !.options = x] = [ok |-> r.ok, options |-> x] /\ r.ok \in BOOLEAN
  BY DEF Results
<1> QED BY <1>1, <1>2, <1>3, Zenon DEF Results, x

\* Octets are read as options, whatever they are.
LEMMA Decoded ==
  ASSUME NEW data \in Octets
  PROVE  decode_configuration_options[data] \in Results
<1> DEFINE size == [d \in Octets |-> Len(d)]
           next == [d \in Octets |-> IF d \in Torn THEN d ELSE AfterOption(d)]
           base == [d \in Octets |-> [ok |-> d = <<>>, options |-> <<>>]]
           wrap == [p \in Octets \X Results |->
                      IF p[1] \in Torn THEN p[2] ELSE [p[2] EXCEPT !.options = <<HeadOption(p[1])>> \o @]]
           E == decode_configuration_options
           Body(g, d) ==
             IF d = <<>> THEN [ok |-> TRUE, options |-> <<>>]
             ELSE IF Len(d) < 2 \/ Len(d) < 2 + d[2] THEN [ok |-> FALSE, options |-> <<>>]
             ELSE [g[From(d, 2 + d[2])] EXCEPT
                     !.options = <<[type |-> d[1] % HintBit, hint |-> d[1] >= HintBit,
                                    value |-> SubSeq(d, 3, 2 + d[2])]>> \o @]
           Is(g) == g = [d \in Octets |-> Body(g, d)]
<1>1. size \in [Octets -> Nat]
  BY OctetSeq, Zenon
<1>2. next \in [Octets -> Octets]
  BY HeadOptionIs, Zenon
<1>3. base \in [Octets -> Results]
  <2>1. ASSUME NEW d PROVE [ok |-> d = <<>>, options |-> <<>>] \in Results
    <3>1. <<>> \in Options /\ (d = <<>>) \in BOOLEAN
      BY SMT DEF Options
    <3> QED BY <3>1, Zenon DEF Results
  <2> QED BY <2>1, Zenon
<1>4. wrap \in [Octets \X Results -> Results]
  <2>1. ASSUME NEW p \in Octets \X Results
        PROVE  (IF p[1] \in Torn THEN p[2] ELSE [p[2] EXCEPT !.options = <<HeadOption(p[1])>> \o @]) \in Results
    <3>1. p[1] \in Octets /\ p[2] \in Results
      BY SMT
    <3> QED BY <3>1, Prepended, HeadOptionIs, Zenon
  <2> QED BY <2>1, Zenon
<1>5. Falls(Octets, size, Torn, next)
  <2>1. ASSUME NEW d \in Octets \ Torn PROVE size[next[d]] < size[d]
    <3>1. next[d] = AfterOption(d) /\ AfterOption(d) \in Octets /\ Len(AfterOption(d)) < Len(d)
      BY HeadOptionIs, Zenon
    <3> QED BY <3>1, Zenon
  <2> QED BY <2>1, Zenon DEF Falls
<1> HIDE DEF wrap, size, next, base
<1>6. PICK f \in [Octets -> Results] : Recurs(f, Octets, Torn, next, base, wrap)
  BY <1>1, <1>2, <1>3, <1>4, <1>5, Recursion, Zenon
<1>7. ASSUME NEW g, NEW d \in Octets
      PROVE  Body(g, d) = IF d \in Torn THEN [ok |-> d = <<>>, options |-> <<>>]
                          ELSE [g[AfterOption(d)] EXCEPT !.options = <<HeadOption(d)>> \o @]
  <2>1. CASE d = <<>>
    <3>1. d \in Torn /\ (d = <<>>) = TRUE
      BY <2>1, Zenon DEF Torn
    <3>2. Body(g, d) = [ok |-> TRUE, options |-> <<>>]
      BY <2>1, Zenon
    <3> QED BY <3>1, <3>2, Zenon
  <2>2. CASE d # <<>> /\ (Len(d) < 2 \/ Len(d) < 2 + d[2])
    <3>1. d \in Torn /\ (d = <<>>) = FALSE
      BY <2>2, Zenon DEF Torn
    <3>2. Body(g, d) = [ok |-> FALSE, options |-> <<>>]
      BY <2>2, Zenon
    <3> QED BY <3>1, <3>2, Zenon
  <2>3. CASE d # <<>> /\ ~(Len(d) < 2 \/ Len(d) < 2 + d[2])
    BY <2>3, Zenon DEF Torn, HeadOption, AfterOption
  <2> QED BY <2>1, <2>2, <2>3, Zenon
<1>8. ASSUME NEW d \in Octets PROVE f[d] = Body(f, d)
  <2> HIDE DEF Body
  <2>1. CASE d \in Torn
    BY <1>6, <1>7, <2>1, Zenon DEF Recurs, base
  <2>2. CASE d \notin Torn
    <3>1. f[d] = wrap[<<d, f[next[d]]>>]
      BY <1>6, <2>2, Zenon DEF Recurs
    <3>2. next[d] = AfterOption(d) /\ AfterOption(d) \in Octets
      BY <2>2, HeadOptionIs, Zenon DEF next
    <3>3. <<d, f[AfterOption(d)]>> \in Octets \X Results
      BY <3>2, SMT
    <3>4. wrap[<<d, f[AfterOption(d)]>>] = [f[AfterOption(d)] EXCEPT !.options = <<HeadOption(d)>> \o @]
      BY <2>2, <3>3, Pair, Zenon DEF wrap
    <3>5. Body(f, d) = [f[AfterOption(d)] EXCEPT !.options = <<HeadOption(d)>> \o @]
      BY <1>7, <2>2, Zenon
    <3> QED BY <3>1, <3>2, <3>4, <3>5, Zenon
  <2> QED BY <2>1, <2>2, Zenon
<1>9. Is(f)
  <2> HIDE DEF Body
  <2>1. f = [d \in Octets |-> f[d]]
    BY <1>6, Zenon
  <2> QED BY <1>8, <2>1, Zenon
<1>10. E = CHOOSE g : Is(g)
  BY Zenon DEF decode_configuration_options
<1> HIDE DEF E, Body
<1>11. Is(E)
  BY <1>9, <1>10, Zenon
<1>12. ASSUME NEW d \in Octets PROVE E[d] = Body(E, d)
  BY <1>11, Zenon
<1>13. ASSUME NEW d \in Octets, \A c \in Octets : size[c] < size[d] => E[c] \in Results PROVE E[d] \in Results
  <2>1. CASE d \in Torn
    <3>1. Body(E, d) = base[d]
      BY <1>7, <2>1, Zenon DEF base
    <3> QED BY <1>3, <1>12, <3>1, Zenon
  <2>2. CASE d \notin Torn
    <3>1. AfterOption(d) \in Octets /\ size[AfterOption(d)] < size[d] /\ HeadOption(d) \in ConfigurationOptions
      BY <2>2, HeadOptionIs, Zenon DEF size
    <3>2. E[AfterOption(d)] \in Results
      BY <1>13, <3>1, Zenon
    <3>3. Body(E, d) = [E[AfterOption(d)] EXCEPT !.options = <<HeadOption(d)>> \o @]
      BY <1>7, <2>2, Zenon
    <3> QED BY <1>12, <3>1, <3>2, <3>3, Prepended, Zenon
  <2> QED BY <2>1, <2>2, Zenon
<1> DEFINE S == {d \in Octets : E[d] \in Results}
<1>14. Inductive(S, Octets, size)
  BY <1>13, Zenon DEF Inductive
<1>15. Octets \subseteq S
  <2> HIDE DEF S
  <2> QED BY <1>1, <1>14, Descent, Zenon
<1> QED BY <1>15, Zenon DEF E

LEMMA PlainOption ==
  ASSUME NEW t \in {MtuOption, RetransmissionOption, FcsOption}, NEW v \in Octets, Len(v) <= 255
  PROVE  Option(t, v) \in ConfigurationOptions
<1>1. t \in 0..(HintBit - 1)
  BY SMT DEF MtuOption, RetransmissionOption, FcsOption, HintBit
<1> QED BY <1>1, OptionIs, Zenon DEF Option

LEMMA MtuOptionIs ==
  ASSUME NEW n \in Ports16
  PROVE  Option(MtuOption, LE16(n)) \in ConfigurationOptions
<1>1. LE16(n) \in Octets /\ Len(LE16(n)) = 2
  BY WordOctets, SMT DEF Ports16
<1>2. Len(LE16(n)) <= 255
  BY <1>1, SMT
<1> QED BY <1>1, <1>2, PlainOption, Zenon

LEMMA ErtmValueIs == ErtmValue \in Octets /\ Len(ErtmValue) = 9
<1> DEFINE x == <<EnhancedRetransmission, 63, 1>>
           y == LE16(2000)
           z == LE16(12000)
           u == LE16(1010)
<1>1. /\ y \in Octets /\ Len(y) = 2 /\ z \in Octets /\ Len(z) = 2 /\ u \in Octets /\ Len(u) = 2
  BY WordOctets, SMT
<1>2. x \in Octets /\ Len(x) = 3
  <2>1. EnhancedRetransmission \in Octet /\ 63 \in Octet /\ 1 \in Octet
    BY OctetIs, SMT DEF EnhancedRetransmission
  <2> QED BY <2>1, SMT DEF Octets
<1>3. ErtmValue = x \o y \o z \o u
  BY DEF ErtmValue
<1> HIDE DEF x, y, z, u
<1>4. x \o y \in Octets /\ Len(x \o y) = 5
  <2>1. x \o y \in Octets /\ Len(x \o y) = Len(x) + Len(y)
    BY <1>1, <1>2, OctetsJoin, Zenon
  <2> QED BY <1>1, <1>2, <2>1, SMT
<1>5. (x \o y) \o z \in Octets /\ Len((x \o y) \o z) = 7
  <2> DEFINE s == x \o y
  <2> HIDE DEF s
  <2>1. s \in Octets /\ Len(s) = 5
    BY <1>4 DEF s
  <2>2. s \o z \in Octets /\ Len(s \o z) = 7
    <3>1. s \o z \in Octets /\ Len(s \o z) = Len(s) + Len(z)
      BY <1>1, <2>1, OctetsJoin, Zenon
    <3> QED BY <1>1, <2>1, <3>1, SMT
  <2> QED BY <2>2 DEF s
<1> DEFINE s == (x \o y) \o z
<1>6. ErtmValue = s \o u
  BY <1>3, Zenon
<1> HIDE DEF s
<1>7. s \in Octets /\ Len(s) = 7
  BY <1>5 DEF s
<1>8. s \o u \in Octets /\ Len(s \o u) = Len(s) + Len(u)
  BY <1>1, <1>7, OctetsJoin, Zenon
<1> QED BY <1>1, <1>6, <1>7, <1>8, SMT

LEMMA ErtmOptionIs == Option(RetransmissionOption, ErtmValue) \in ConfigurationOptions
<1>1. Len(ErtmValue) <= 255
  BY ErtmValueIs, SMT
<1> QED BY <1>1, ErtmValueIs, PlainOption, Zenon

LEMMA FcsOptionIs ==
  ASSUME NEW n \in {0, 1}
  PROVE  Option(FcsOption, <<n>>) \in ConfigurationOptions
<1>1. n \in Octet
  BY OctetIs, SMT
<1>2. <<n>> \in Octets /\ Len(<<n>>) <= 255
  BY <1>1, SMT DEF Octets
<1> QED BY <1>2, PlainOption, Zenon

LEMMA OptionsJoin ==
  ASSUME NEW x \in Options, NEW y \in Options
  PROVE  x \o y \in Options
  BY SMT DEF Options

LEMMA OneOption ==
  ASSUME NEW option \in ConfigurationOptions
  PROVE  <<option>> \in Options
  BY SMT DEF Options

LEMMA NoOption == <<>> \in Options
  BY SMT DEF Options

LEMMA SpecOptions ==
  ASSUME NEW spec \in ChannelSpecs
  PROVE  OptionsOf(spec) \in Options
<1>1. spec.mtu \in Ports16
  <2>1. MinMtu \in Nat
    BY BoundAssumption, SMT
  <2> QED BY <2>1, SMT DEF ChannelSpecs, Ports16
<1>2. Option(MtuOption, LE16(spec.mtu)) \in ConfigurationOptions
  BY <1>1, MtuOptionIs
<1>3. Option(FcsOption, <<1>>) \in ConfigurationOptions
  BY FcsOptionIs, SMT
<1> DEFINE x == <<Option(MtuOption, LE16(spec.mtu))>>
           y == IF spec.mode = "basic" THEN <<>> ELSE <<Option(RetransmissionOption, ErtmValue)>>
           z == IF spec.mode = "ertm with fcs" THEN <<Option(FcsOption, <<1>>)>> ELSE <<>>
<1>4. x \in Options /\ y \in Options /\ z \in Options
  BY <1>2, <1>3, ErtmOptionIs, OneOption, NoOption, Zenon
<1>5. OptionsOf(spec) = (x \o y) \o z
  BY Zenon DEF OptionsOf
<1> HIDE DEF x, y, z
<1> QED BY <1>4, <1>5, OptionsJoin, Zenon

Founds == [result : Nat, response : Options, mtu : Nat, ertm : BOOLEAN, fcs : BOOLEAN]

LEMMA FoundParts ==
  ASSUME NEW found \in Founds, NEW option \in ConfigurationOptions, NEW n \in Nat, NEW b \in BOOLEAN
  PROVE  /\ Take(found, option) \in Founds /\ Refuse(found, n, option) \in Founds
         /\ [found EXCEPT !.mtu = n] \in Founds /\ [found EXCEPT !.ertm = b] \in Founds
         /\ [found EXCEPT !.fcs = b] \in Founds
<1> DEFINE x == Append(found.response, option)
           y == <<option>>
<1>1. x \in Options /\ y \in Options
  BY SMT DEF Options, Founds
<1>2. Take(found, option) = [found EXCEPT !.response = x]
  BY Zenon DEF Take
<1>3. Refuse(found, n, option) = [found EXCEPT !.result = n, !.response = y]
  BY Zenon DEF Refuse
<1> HIDE DEF x, y
<1>4. [found EXCEPT !.response = x] \in Founds
  BY <1>1 DEF Founds
<1>5. [found EXCEPT !.result = n, !.response = y] \in Founds
  BY <1>1, Zenon DEF Founds
<1>6. /\ [found EXCEPT !.mtu = n] \in Founds /\ [found EXCEPT !.ertm = b] \in Founds
      /\ [found EXCEPT !.fcs = b] \in Founds
  BY DEF Founds
<1> QED BY <1>2, <1>3, <1>4, <1>5, <1>6, Zenon

LEMMA Codes == Success \in Nat /\ Unacceptable \in Nat /\ UnknownOptions \in Nat /\ Refused \in Nat
                 /\ NoResources \in Nat /\ Pending \in Nat /\ Pending # Success /\ Refused # Success
                 /\ NoResources # Success
  BY SMT DEF Success, Unacceptable, UnknownOptions, Refused, NoResources, Pending

LEMMA Considered ==
  ASSUME NEW channel, NEW found \in Founds, NEW option \in ConfigurationOptions
  PROVE  Consider(channel, found, option) \in Founds
<1>1. option.value \in Octets
  BY OptionFields, Zenon
<1>2. MtuOffer(channel, found, option) \in Founds
  <2>1. Refuse(found, Unacceptable, option) \in Founds
    BY FoundParts, Codes, Zenon
  <2>2. Refuse(found, Unacceptable, Option(MtuOption, LE16(MinMtu))) \in Founds
    <3>1. MinMtu \in Ports16
      BY BoundAssumption, SMT DEF Ports16
    <3>2. Option(MtuOption, LE16(MinMtu)) \in ConfigurationOptions
      BY <3>1, MtuOptionIs
    <3> QED BY <3>2, FoundParts, Codes, Zenon
  <2>3. ASSUME Len(option.value) = 2
        PROVE  [Take(found, option) EXCEPT !.mtu = le16(option.value, 0)] \in Founds
    <3>1. option.value[1] \in Nat /\ option.value[2] \in Nat
      BY <1>1, <2>3, OctetsAreNat, SMT
    <3>2. le16(option.value, 0) \in Nat
      BY <3>1, SMT DEF le16
    <3>3. Take(found, option) \in Founds
      BY FoundParts, Zenon
    <3> QED BY <3>2, <3>3, FoundParts, Zenon
  <2> QED BY <2>1, <2>2, <2>3, Zenon DEF MtuOffer
<1>3. ErtmOffer(channel, found, option) \in Founds
  <2>1. Refuse(found, Unacceptable, option) \in Founds /\ Take(found, option) \in Founds
    BY FoundParts, Codes, Zenon
  <2>2. [Take(found, option) EXCEPT !.ertm = TRUE] \in Founds
    BY <2>1, FoundParts, Zenon
  <2> QED BY <2>1, <2>2, Zenon DEF ErtmOffer
<1>4. FcsOffer(found, option) \in Founds
  <2>1. Refuse(found, Unacceptable, option) \in Founds /\ Take(found, option) \in Founds
    BY FoundParts, Codes, Zenon
  <2>2. (option.value[1] # 0) \in BOOLEAN
    BY Zenon
  <2>3. [Take(found, option) EXCEPT !.fcs = option.value[1] # 0] \in Founds
    BY <2>1, <2>2, FoundParts, Zenon
  <2> QED BY <2>1, <2>3, Zenon DEF FcsOffer
<1>5. UnknownOffer(found, option) \in Founds
  BY FoundParts, Codes, Zenon DEF UnknownOffer
<1> QED BY <1>2, <1>3, <1>4, <1>5, Zenon DEF Consider

\* What a pass over any options finds.
LEMMA Negotiated ==
  ASSUME NEW channel, channel.peer_mtu \in Nat, NEW options \in Options
  PROVE  Negotiate(channel, options) \in Founds
<1> DEFINE n == Len(options)
           D == 0..n
           size == [i \in D |-> i]
           next == [i \in D |-> IF i = 0 THEN 0 ELSE i - 1]
           base == [i \in D |-> Start(channel)]
           wrap == [p \in D \X Founds |-> IF p[1] = 0 THEN p[2] ELSE Consider(channel, p[2], options[p[1]])]
           Is(g) == g = [i \in 0..n |-> IF i = 0 THEN Start(channel) ELSE Consider(channel, g[i - 1], options[i])]
           E == CHOOSE g : Is(g)
<1>1. n \in Nat /\ \A i \in D : i # 0 => options[i] \in ConfigurationOptions /\ i - 1 \in D
  BY SMT DEF Options
<1>2. Start(channel) \in Founds
  BY NoOption, Codes DEF Start, Founds
<1>3. wrap \in [D \X Founds -> Founds]
  <2>1. ASSUME NEW p \in D \X Founds
        PROVE  (IF p[1] = 0 THEN p[2] ELSE Consider(channel, p[2], options[p[1]])) \in Founds
    <3>1. p[1] \in D /\ p[2] \in Founds
      BY SMT
    <3> QED BY <1>1, <3>1, Considered, Zenon
  <2> QED BY <2>1, Zenon
<1>4. size \in [D -> Nat] /\ next \in [D -> D] /\ \A i \in D \ {0} : size[next[i]] < size[i]
  BY <1>1, SMT
<1>5. base \in [D -> Founds]
  BY <1>2, Zenon
<1>6. Falls(D, size, {0}, next)
  BY <1>4, Zenon DEF Falls
<1> HIDE DEF wrap, size, next, base
<1>7. PICK f \in [D -> Founds] : Recurs(f, D, {0}, next, base, wrap)
  <2> HIDE DEF D
  <2> QED BY <1>5, <1>3, <1>4, <1>6, Recursion, Zenon
<1>8. ASSUME NEW i \in D
      PROVE  f[i] = IF i = 0 THEN Start(channel) ELSE Consider(channel, f[i - 1], options[i])
  <2>1. CASE i = 0
    BY <1>7, <2>1, Zenon DEF base, Recurs
  <2>2. CASE i # 0
    <3>1. next[i] = i - 1 /\ i - 1 \in D
      BY <1>1, <2>2, Zenon DEF next
    <3>2. f[i - 1] \in Founds
      BY <3>1, Zenon
    <3>3. <<i, f[i - 1]>> \in D \X Founds
      BY <3>2, SMT
    <3>4. wrap[<<i, f[i - 1]>>] = Consider(channel, f[i - 1], options[i])
      BY <2>2, <3>3, Pair, Zenon DEF wrap
    <3>5. f[i] = wrap[<<i, f[next[i]]>>]
      BY <1>7, <2>2, Zenon DEF Recurs
    <3> QED BY <2>2, <3>1, <3>4, <3>5, Zenon
  <2> QED BY <2>1, <2>2, Zenon
<1>9. Is(f)
  <2>1. f = [i \in D |-> f[i]]
    BY <1>7, Zenon
  <2> QED BY <1>8, <2>1, Zenon
<1>10. Is(E)
  BY <1>9, Zenon
<1>11. Negotiate(channel, options) = E[n]
  BY Zenon DEF Negotiate
<1> HIDE DEF E
<1>12. ASSUME NEW i \in D
       PROVE  E[i] = IF i = 0 THEN Start(channel) ELSE Consider(channel, E[i - 1], options[i])
  BY <1>10, Zenon
<1> DEFINE S == {i \in D : E[i] \in Founds}
<1>13. D \subseteq S
  <2>1. ASSUME NEW i \in D, \A c \in D : size[c] < size[i] => c \in S PROVE i \in S
    <3>1. CASE i = 0
      BY <1>2, <1>12, <3>1, Zenon
    <3>2. CASE i # 0
      <4>1. i - 1 \in D /\ size[i - 1] < size[i]
        BY <1>1, <3>2, SMT DEF size
      <4>2. E[i - 1] \in Founds
        BY <2>1, <4>1, Zenon
      <4>3. E[i] = Consider(channel, E[i - 1], options[i])
        BY <1>12, <3>2, Zenon
      <4> QED BY <1>1, <3>2, <4>2, <4>3, Considered, Zenon
    <3> QED BY <3>1, <3>2, Zenon
  <2>2. Inductive(S, D, size)
    BY <2>1, Zenon DEF Inductive
  <2> HIDE DEF S, D
  <2> QED BY <1>4, <2>2, Descent, Zenon
<1>14. n \in D
  BY <1>1, SMT
<1> QED BY <1>11, <1>13, <1>14, Zenon

LEMMA CounterIs ==
  ASSUME NEW channel, NEW found \in Founds
  PROVE  Counter(channel, found) \in Options
<1>1. <<Option(RetransmissionOption, ErtmValue)>> \in Options
  BY ErtmOptionIs, OneOption, Zenon
<1>2. <<Option(FcsOption, <<IF channel.spec.mode = "ertm with fcs" THEN 1 ELSE 0>>)>> \in Options
  <2> DEFINE n == IF channel.spec.mode = "ertm with fcs" THEN 1 ELSE 0
  <2>1. n \in {0, 1}
    BY Zenon
  <2> HIDE DEF n
  <2>2. <<Option(FcsOption, <<n>>)>> \in Options
    BY <2>1, FcsOptionIs, OneOption, Zenon
  <2> QED BY <2>2 DEF n
<1>3. found.response \in Options
  BY DEF Founds
<1> QED BY <1>1, <1>2, <1>3, Zenon DEF Counter

\* What a step of the manager m, to m2, does to the ends of its channels and to what is on the link.
Neutral(pdu) == \A x, y : ~Asks(pdu, x, y) /\ ~Grants(pdu, x, y)
OnlyAsks(pdu, psm, cid) == \A x, y : ~Grants(pdu, x, y) /\ (Asks(pdu, x, y) => x = psm /\ y = cid)
OnlyGrants(pdu, near, cid) == \A x, y : ~Asks(pdu, x, y) /\ (Grants(pdu, x, y) => x = near /\ y = cid)
Old(m, m2, i) == i \in 1..Len(m.outbound) /\ m2.outbound[i] = m.outbound[i]

\* The channels but c keep their ends.
SameBut(m, m2, c) ==
    \A d \in DOMAIN m.channels : d # c => Far(m2, d) = Far(m, d) /\ Port(m2, d) = Port(m, d)
Keeps(m, m2) ==
    /\ Good(m2) /\ DOMAIN m2.channels = DOMAIN m.channels
    /\ \A d \in DOMAIN m.channels : Far(m2, d) = Far(m, d) /\ Port(m2, d) = Port(m, d)
    /\ \A i \in 1..Len(m2.outbound) : Neutral(m2.outbound[i]) \/ Old(m, m2, i)

Joins(m, m2, c, psm, far) ==
    /\ Good(m2) /\ c \in CidRange /\ c \notin DOMAIN m.channels
    /\ DOMAIN m2.channels = DOMAIN m.channels \cup {c}
    /\ Far(m2, c) = far /\ Port(m2, c) = psm /\ SameBut(m, m2, c)
\* The n-th PDU is new, and the only one that asks, or grants.
AsksAt(m, m2, n, psm, c) ==
    \A i \in 1..Len(m2.outbound) : Old(m, m2, i) \/ (i = n /\ OnlyAsks(m2.outbound[i], psm, c))
GrantsAt(m, m2, n, c, far) ==
    \A i \in 1..Len(m2.outbound) : Old(m, m2, i) \/ (i = n /\ OnlyGrants(m2.outbound[i], c, far))
Connected(m, m2, c, psm) == Joins(m, m2, c, psm, 0) /\ \E n : AsksAt(m, m2, n, psm, c)
Accepted(m, m2, c, psm, far) == Joins(m, m2, c, psm, far) /\ \E n : GrantsAt(m, m2, n, c, far)
Learned(m, m2, c, near) ==
    /\ Good(m2) /\ c \in DOMAIN m.channels /\ DOMAIN m2.channels = DOMAIN m.channels
    /\ Far(m2, c) = near /\ Port(m2, c) = Port(m, c) /\ SameBut(m, m2, c)
    /\ \A i \in 1..Len(m2.outbound) : Old(m, m2, i)

LEMMA CidsArePositive == CidRange \subseteq Nat /\ 0 \notin CidRange
  BY CidAssumption, BoundAssumption, SMT DEF CidRange, SignallingCid

LEMMA KeepsChain ==
  ASSUME NEW x, NEW y, NEW z, Keeps(x, y), Keeps(y, z)
  PROVE  Keeps(x, z)
<1>1. \A d \in DOMAIN x.channels : Far(z, d) = Far(x, d) /\ Port(z, d) = Port(x, d)
  BY SMT DEF Keeps
<1>2. ASSUME NEW i \in 1..Len(z.outbound) PROVE Neutral(z.outbound[i]) \/ Old(x, z, i)
  <2>1. CASE Old(y, z, i)
    BY <2>1, Zenon DEF Keeps, Old
  <2> QED BY <2>1, Zenon DEF Keeps
<1> QED BY <1>1, <1>2, Zenon DEF Keeps

-----------------------------------------------------------------------------
(* Steps that keep the ends *)

LEMMA KeptPair ==
  ASSUME NEW m, NEW o, NEW m2, Half(m, o), Half(o, m), Keeps(m, m2)
  PROVE  Half(m2, o) /\ Half(o, m2)
<1>1. /\ Good(m2) /\ DOMAIN m2.channels = DOMAIN m.channels
      /\ \A d \in DOMAIN m.channels : Far(m2, d) = Far(m, d) /\ Port(m2, d) = Port(m, d)
  BY Zenon DEF Keeps
<1>2. ASSUME NEW i \in 1..Len(m2.outbound), NEW x, NEW y, Asks(m2.outbound[i], x, y) \/ Grants(m2.outbound[i], x, y)
      PROVE  i \in 1..Len(m.outbound) /\ m2.outbound[i] = m.outbound[i]
  BY <1>2, Zenon DEF Keeps, Old, Neutral
<1>3. Matched(m2, o) /\ Matched(o, m2) /\ Distinct(m2)
  BY <1>1, SMT DEF Half, Matched, Distinct
<1>4. Requested(m2, o)
  <2>1. Requested(m, o)
    BY Zenon DEF Half
  <2> SUFFICES ASSUME NEW i \in 1..Len(m2.outbound), NEW psm \in Nat, NEW cid \in Nat, Asks(m2.outbound[i], psm, cid)
               PROVE  /\ cid \in DOMAIN m2.channels /\ Far(m2, cid) = 0 /\ Port(m2, cid) = psm
                      /\ \A d \in DOMAIN o.channels : Far(o, d) # cid
                      /\ \A j \in 1..Len(m2.outbound), p \in Nat : Asks(m2.outbound[j], p, cid) => i = j
    BY Zenon DEF Requested
  <2>2. i \in 1..Len(m.outbound) /\ Asks(m.outbound[i], psm, cid)
    BY <1>2, Zenon
  <2>3. /\ cid \in DOMAIN m.channels /\ Far(m, cid) = 0 /\ Port(m, cid) = psm
        /\ \A d \in DOMAIN o.channels : Far(o, d) # cid
        /\ \A j \in 1..Len(m.outbound), p \in Nat : Asks(m.outbound[j], p, cid) => i = j
    BY <2>1, <2>2, Zenon DEF Requested
  <2>4. ASSUME NEW j \in 1..Len(m2.outbound), NEW p \in Nat, Asks(m2.outbound[j], p, cid) PROVE i = j
    BY <1>2, <2>3, <2>4, Zenon
  <2> QED BY <1>1, <2>3, <2>4, Zenon
<1>5. Granted(m2, o)
  <2>1. Granted(m, o)
    BY Zenon DEF Half
  <2> SUFFICES ASSUME NEW i \in 1..Len(m2.outbound), NEW near \in Nat, NEW cid \in Nat, Grants(m2.outbound[i], near, cid)
               PROVE  /\ near \in DOMAIN m2.channels /\ Far(m2, near) = cid
                      /\ cid \in DOMAIN o.channels /\ Far(o, cid) = 0
                      /\ \A j \in 1..Len(m2.outbound), n \in Nat : Grants(m2.outbound[j], n, cid) => i = j
    BY Zenon DEF Granted
  <2>2. i \in 1..Len(m.outbound) /\ Grants(m.outbound[i], near, cid)
    BY <1>2, Zenon
  <2>3. /\ near \in DOMAIN m.channels /\ Far(m, near) = cid
        /\ cid \in DOMAIN o.channels /\ Far(o, cid) = 0
        /\ \A j \in 1..Len(m.outbound), n \in Nat : Grants(m.outbound[j], n, cid) => i = j
    BY <2>1, <2>2, Zenon DEF Granted
  <2>4. ASSUME NEW j \in 1..Len(m2.outbound), NEW n \in Nat, Grants(m2.outbound[j], n, cid) PROVE i = j
    BY <1>2, <2>3, <2>4, Zenon
  <2> QED BY <1>1, <2>3, <2>4, Zenon
<1>6. Requested(o, m2)
  <2>1. Requested(o, m)
    BY Zenon DEF Half
  <2> QED BY <1>1, <2>1, SMT DEF Requested
<1>7. Granted(o, m2)
  <2>1. Granted(o, m)
    BY Zenon DEF Half
  <2> QED BY <1>1, <2>1, SMT DEF Granted
<1> QED BY <1>1, <1>3, <1>4, <1>5, <1>6, <1>7, Zenon DEF Half

-----------------------------------------------------------------------------
(* A side asks for a channel *)

LEMMA ConnectedPair ==
  ASSUME NEW m, NEW o, NEW m2, NEW c, NEW psm, Half(m, o), Half(o, m), Connected(m, m2, c, psm)
  PROVE  Half(m2, o) /\ Half(o, m2)
<1>1. /\ Good(m2) /\ c \notin DOMAIN m.channels /\ DOMAIN m2.channels = DOMAIN m.channels \cup {c}
      /\ c \in Nat /\ c # 0 /\ Far(m2, c) = 0 /\ Port(m2, c) = psm
      /\ \A d \in DOMAIN m.channels : Far(m2, d) = Far(m, d) /\ Port(m2, d) = Port(m, d)
  BY CidsArePositive, Zenon DEF Connected, Joins, SameBut
<1>2. PICK k : AsksAt(m, m2, k, psm, c)
  BY Zenon DEF Connected
<1>3. \A i \in 1..Len(m2.outbound) : Old(m, m2, i) \/ (i = k /\ OnlyAsks(m2.outbound[i], psm, c))
  BY <1>2, Zenon DEF AsksAt
<1>4. \A d \in DOMAIN o.channels : Far(o, d) # c
  BY <1>1, Zenon DEF Half, Matched
<1>5. Matched(m2, o) /\ Matched(o, m2) /\ Distinct(m2)
  BY <1>1, SMT DEF Half, Matched, Distinct
<1>6. Requested(m2, o)
  <2>1. Requested(m, o)
    BY Zenon DEF Half
  <2>2. ASSUME NEW i \in 1..Len(m2.outbound), NEW x \in Nat, NEW y \in Nat, Asks(m2.outbound[i], x, y)
        PROVE  \/ i \in 1..Len(m.outbound) /\ Asks(m.outbound[i], x, y) /\ y # c
               \/ i = k /\ x = psm /\ y = c
    <3>1. CASE Old(m, m2, i)
      <4>1. i \in 1..Len(m.outbound) /\ Asks(m.outbound[i], x, y)
        BY <2>2, <3>1, Zenon DEF Old
      <4>2. y \in DOMAIN m.channels
        BY <2>1, <4>1, Zenon DEF Requested
      <4> QED BY <1>1, <4>1, <4>2, Zenon
    <3>2. CASE i = k /\ OnlyAsks(m2.outbound[i], psm, c)
      <4>1. x = psm /\ y = c
        BY <2>2, <3>2, Zenon DEF OnlyAsks
      <4> QED BY <3>2, <4>1, Zenon
    <3> QED BY <1>3, <3>1, <3>2, Zenon
  <2> SUFFICES ASSUME NEW i \in 1..Len(m2.outbound), NEW p \in Nat, NEW cid \in Nat, Asks(m2.outbound[i], p, cid)
               PROVE  /\ cid \in DOMAIN m2.channels /\ Far(m2, cid) = 0 /\ Port(m2, cid) = p
                      /\ \A d \in DOMAIN o.channels : Far(o, d) # cid
                      /\ \A j \in 1..Len(m2.outbound), q \in Nat : Asks(m2.outbound[j], q, cid) => i = j
    BY Zenon DEF Requested
  <2>3. CASE i \in 1..Len(m.outbound) /\ Asks(m.outbound[i], p, cid) /\ cid # c
    <3>1. /\ cid \in DOMAIN m.channels /\ Far(m, cid) = 0 /\ Port(m, cid) = p
          /\ \A d \in DOMAIN o.channels : Far(o, d) # cid
          /\ \A j \in 1..Len(m.outbound), q \in Nat : Asks(m.outbound[j], q, cid) => i = j
      BY <2>1, <2>3, Zenon DEF Requested
    <3>2. ASSUME NEW j \in 1..Len(m2.outbound), NEW q \in Nat, Asks(m2.outbound[j], q, cid) PROVE i = j
      BY <2>2, <2>3, <3>1, <3>2, Zenon
    <3> QED BY <1>1, <3>1, <3>2, Zenon
  <2>4. CASE i = k /\ p = psm /\ cid = c
    <3>1. ASSUME NEW j \in 1..Len(m2.outbound), NEW q \in Nat, Asks(m2.outbound[j], q, cid) PROVE i = j
      BY <2>2, <2>4, <3>1, Zenon
    <3> QED BY <1>1, <1>4, <2>4, <3>1, Zenon
  <2> QED BY <2>2, <2>3, <2>4, Zenon
<1>7. Granted(m2, o)
  <2>1. Granted(m, o)
    BY Zenon DEF Half
  <2>2. ASSUME NEW i \in 1..Len(m2.outbound), NEW x, NEW y, Grants(m2.outbound[i], x, y)
        PROVE  i \in 1..Len(m.outbound) /\ m2.outbound[i] = m.outbound[i]
    BY <1>3, <2>2, Zenon DEF OnlyAsks, Old
  <2> SUFFICES ASSUME NEW i \in 1..Len(m2.outbound), NEW near \in Nat, NEW cid \in Nat, Grants(m2.outbound[i], near, cid)
               PROVE  /\ near \in DOMAIN m2.channels /\ Far(m2, near) = cid
                      /\ cid \in DOMAIN o.channels /\ Far(o, cid) = 0
                      /\ \A j \in 1..Len(m2.outbound), n \in Nat : Grants(m2.outbound[j], n, cid) => i = j
    BY Zenon DEF Granted
  <2>3. i \in 1..Len(m.outbound) /\ Grants(m.outbound[i], near, cid)
    BY <2>2, Zenon
  <2>4. /\ near \in DOMAIN m.channels /\ Far(m, near) = cid
        /\ cid \in DOMAIN o.channels /\ Far(o, cid) = 0
        /\ \A j \in 1..Len(m.outbound), n \in Nat : Grants(m.outbound[j], n, cid) => i = j
    BY <2>1, <2>3, Zenon DEF Granted
  <2>5. ASSUME NEW j \in 1..Len(m2.outbound), NEW n \in Nat, Grants(m2.outbound[j], n, cid) PROVE i = j
    BY <2>2, <2>4, <2>5, Zenon
  <2> QED BY <1>1, <2>4, <2>5, Zenon
<1>8. Requested(o, m2)
  <2>1. Requested(o, m)
    BY Zenon DEF Half
  <2>2. \A i \in 1..Len(o.outbound) : \A p, cid \in Nat : Asks(o.outbound[i], p, cid) => cid # 0
    BY <2>1, CidsArePositive, SMTT(30) DEF Requested, Half, Good
  <2> QED BY <1>1, <2>1, <2>2, SMT DEF Requested
<1>9. Granted(o, m2)
  <2>1. Granted(o, m)
    BY Zenon DEF Half
  <2> QED BY <1>1, <2>1, SMT DEF Granted
<1>10. Good(o) /\ Distinct(o)
  BY Zenon DEF Half
<1> QED BY <1>1, <1>5, <1>6, <1>7, <1>8, <1>9, <1>10, Zenon DEF Half

-----------------------------------------------------------------------------
(* A PDU is taken off the link *)

\* The manager whose first PDU has been taken.
Taken(o) == [o EXCEPT !.outbound = Tail(@)]

LEMMA TakenIs ==
  ASSUME NEW o, Good(o), o.outbound # <<>>
  PROVE  /\ Good(Taken(o)) /\ Taken(o).channels = o.channels
         /\ 1 \in 1..Len(o.outbound) /\ Head(o.outbound) = o.outbound[1]
         /\ \A i \in 1..Len(Taken(o).outbound) :
              i + 1 \in 1..Len(o.outbound) /\ i + 1 # 1 /\ Taken(o).outbound[i] = o.outbound[i + 1]
         /\ \A i, j \in 1..Len(Taken(o).outbound) : i + 1 = j + 1 => i = j
<1>1. /\ DOMAIN o = ManagerFields /\ o.outbound \in Seq(Pdus)
      /\ \A i \in 1..Len(o.outbound) : Readable(o.outbound[i])
  BY Zenon DEF Good
<1> DEFINE t == Tail(o.outbound)
<1>2. /\ t \in Seq(Pdus) /\ Head(o.outbound) = o.outbound[1] /\ 1 \in 1..Len(o.outbound)
      /\ \A i \in 1..Len(t) : i + 1 \in 1..Len(o.outbound) /\ i + 1 # 1 /\ t[i] = o.outbound[i + 1]
      /\ \A i, j \in 1..Len(t) : i + 1 = j + 1 => i = j
  BY <1>1, SMT
<1> HIDE DEF t
<1>3. /\ DOMAIN Taken(o) = ManagerFields /\ Taken(o).outbound = t /\ Taken(o).channels = o.channels
      /\ Taken(o).identifier = o.identifier
  BY <1>1, SMT DEF Taken, ManagerFields, t
<1>4. \A i \in 1..Len(t) : Readable(t[i])
  BY <1>1, <1>2, Zenon
<1>5. Good(Taken(o))
  BY <1>2, <1>3, <1>4, Zenon DEF Good
<1> QED BY <1>2, <1>3, <1>5, Zenon

\* The first PDU asked for a channel, or granted one, and no other on the link does so.
Unasked(o, w) == \A j \in 1..Len(o.outbound), p \in Nat : ~Asks(o.outbound[j], p, w)
Ungranted(o, c) == \A j \in 1..Len(o.outbound), n \in Nat : ~Grants(o.outbound[j], n, c)
Wants(o, m, psm, w) ==
    /\ w \in DOMAIN o.channels /\ Far(o, w) = 0 /\ Port(o, w) = psm
    /\ \A d \in DOMAIN m.channels : Far(m, d) # w
    /\ Unasked(o, w)
Gives(o, m, near, c) ==
    /\ near \in DOMAIN o.channels /\ Far(o, near) = c /\ c \in DOMAIN m.channels /\ Far(m, c) = 0
    /\ Ungranted(o, c)

LEMMA TakenPair ==
  ASSUME NEW m, NEW o, Half(m, o), Half(o, m), o.outbound # <<>>
  PROVE  /\ Half(m, Taken(o)) /\ Half(Taken(o), m)
         /\ \A x, y \in Nat : Asks(Head(o.outbound), x, y) => Wants(Taken(o), m, x, y)
         /\ \A x, y \in Nat : Grants(Head(o.outbound), x, y) => Gives(Taken(o), m, x, y)
<1> DEFINE t == Taken(o)
<1>1. /\ Good(m) /\ Matched(m, o) /\ Distinct(m) /\ Requested(m, o) /\ Granted(m, o)
      /\ Good(o) /\ Matched(o, m) /\ Distinct(o) /\ Requested(o, m) /\ Granted(o, m)
  BY Zenon DEF Half
<1>2. /\ Good(t) /\ t.channels = o.channels
      /\ 1 \in 1..Len(o.outbound) /\ Head(o.outbound) = o.outbound[1]
      /\ \A i \in 1..Len(t.outbound) : i + 1 \in 1..Len(o.outbound) /\ i + 1 # 1 /\ t.outbound[i] = o.outbound[i + 1]
      /\ \A i, j \in 1..Len(t.outbound) : i + 1 = j + 1 => i = j
  BY <1>1, TakenIs, Zenon
<1> HIDE DEF t
<1>3. \A c : Far(t, c) = Far(o, c) /\ Port(t, c) = Port(o, c)
  BY <1>2, Zenon DEF Far, Port
<1>4. Matched(m, t) /\ Matched(t, m) /\ Distinct(t)
  BY <1>1, <1>2, <1>3, Zenon DEF Matched, Distinct
<1>5. Requested(m, t) /\ Granted(m, t)
  <2>1. Requested(m, o) /\ Granted(m, o) /\ t.channels = o.channels
    BY <1>1, <1>2, Zenon
  <2>2. Requested(m, t)
    <3> SUFFICES ASSUME NEW i \in 1..Len(m.outbound), NEW p \in Nat, NEW cid \in Nat, Asks(m.outbound[i], p, cid),
                        NEW d \in DOMAIN t.channels
                 PROVE  Far(t, d) # cid
      BY <2>1, Zenon DEF Requested
    <3>1. \A e \in DOMAIN o.channels : Far(o, e) # cid
      BY <2>1, Zenon DEF Requested
    <3> QED BY <1>3, <2>1, <3>1, Zenon
  <2>3. Granted(m, t)
    BY <1>3, <2>1, SMTT(30) DEF Granted
  <2> QED BY <2>2, <2>3, Zenon
<1>6. Requested(t, m)
  <2> SUFFICES ASSUME NEW i \in 1..Len(t.outbound), NEW p \in Nat, NEW cid \in Nat, Asks(t.outbound[i], p, cid)
               PROVE  /\ cid \in DOMAIN t.channels /\ Far(t, cid) = 0 /\ Port(t, cid) = p
                      /\ \A d \in DOMAIN m.channels : Far(m, d) # cid
                      /\ \A j \in 1..Len(t.outbound), q \in Nat : Asks(t.outbound[j], q, cid) => i = j
    BY Zenon DEF Requested
  <2>1. i + 1 \in 1..Len(o.outbound) /\ Asks(o.outbound[i + 1], p, cid)
    BY <1>2, Zenon
  <2>2. /\ cid \in DOMAIN o.channels /\ Far(o, cid) = 0 /\ Port(o, cid) = p
        /\ \A d \in DOMAIN m.channels : Far(m, d) # cid
        /\ \A j \in 1..Len(o.outbound), q \in Nat : Asks(o.outbound[j], q, cid) => i + 1 = j
    BY <1>1, <2>1, Zenon DEF Requested
  <2>3. ASSUME NEW j \in 1..Len(t.outbound), NEW q \in Nat, Asks(t.outbound[j], q, cid) PROVE i = j
    BY <1>2, <2>2, <2>3, Zenon
  <2> QED BY <1>2, <1>3, <2>2, <2>3, Zenon
<1>7. Granted(t, m)
  <2> SUFFICES ASSUME NEW i \in 1..Len(t.outbound), NEW near \in Nat, NEW cid \in Nat, Grants(t.outbound[i], near, cid)
               PROVE  /\ near \in DOMAIN t.channels /\ Far(t, near) = cid
                      /\ cid \in DOMAIN m.channels /\ Far(m, cid) = 0
                      /\ \A j \in 1..Len(t.outbound), n \in Nat : Grants(t.outbound[j], n, cid) => i = j
    BY Zenon DEF Granted
  <2>1. i + 1 \in 1..Len(o.outbound) /\ Grants(o.outbound[i + 1], near, cid)
    BY <1>2, Zenon
  <2>2. /\ near \in DOMAIN o.channels /\ Far(o, near) = cid
        /\ cid \in DOMAIN m.channels /\ Far(m, cid) = 0
        /\ \A j \in 1..Len(o.outbound), n \in Nat : Grants(o.outbound[j], n, cid) => i + 1 = j
    BY <1>1, <2>1, Zenon DEF Granted
  <2>3. ASSUME NEW j \in 1..Len(t.outbound), NEW n \in Nat, Grants(t.outbound[j], n, cid) PROVE i = j
    BY <1>2, <2>2, <2>3, Zenon
  <2> QED BY <1>2, <1>3, <2>2, <2>3, Zenon
<1>8. ASSUME NEW x \in Nat, NEW y \in Nat, Asks(Head(o.outbound), x, y) PROVE Wants(t, m, x, y)
  <2>1. /\ y \in DOMAIN o.channels /\ Far(o, y) = 0 /\ Port(o, y) = x
        /\ \A d \in DOMAIN m.channels : Far(m, d) # y
        /\ \A j \in 1..Len(o.outbound), p \in Nat : Asks(o.outbound[j], p, y) => 1 = j
    <3>1. 1 \in 1..Len(o.outbound) /\ Asks(o.outbound[1], x, y)
      BY <1>2, <1>8, Zenon
    <3>2. Requested(o, m)
      BY <1>1, Zenon
    <3> QED BY <3>1, <3>2, Zenon DEF Requested
  <2>2. Unasked(t, y)
    BY <1>2, <2>1, Zenon DEF Unasked
  <2> QED BY <1>2, <1>3, <2>1, <2>2, Zenon DEF Wants
<1>9. ASSUME NEW x \in Nat, NEW y \in Nat, Grants(Head(o.outbound), x, y) PROVE Gives(t, m, x, y)
  <2>1. /\ x \in DOMAIN o.channels /\ Far(o, x) = y
        /\ y \in DOMAIN m.channels /\ Far(m, y) = 0
        /\ \A j \in 1..Len(o.outbound), p \in Nat : Grants(o.outbound[j], p, y) => 1 = j
    <3>1. 1 \in 1..Len(o.outbound) /\ Grants(o.outbound[1], x, y)
      BY <1>2, <1>9, Zenon
    <3>2. Granted(o, m)
      BY <1>1, Zenon
    <3> QED BY <3>1, <3>2, Zenon DEF Granted
  <2>2. Ungranted(t, y)
    BY <1>2, <2>1, Zenon DEF Ungranted
  <2> QED BY <1>2, <1>3, <2>1, <2>2, Zenon DEF Gives
<1> QED BY <1>1, <1>2, <1>4, <1>5, <1>6, <1>7, <1>8, <1>9, Zenon DEF Half, t

-----------------------------------------------------------------------------
(* A side accepts a channel it was asked for *)

LEMMA AcceptedPair ==
  ASSUME NEW m, NEW o, NEW m2, NEW c, NEW psm, NEW w \in Nat,
         Half(m, o), Half(o, m), Wants(o, m, psm, w), Accepted(m, m2, c, psm, w)
  PROVE  Half(m2, o) /\ Half(o, m2)
<1>1. /\ Good(m2) /\ c \notin DOMAIN m.channels /\ DOMAIN m2.channels = DOMAIN m.channels \cup {c}
      /\ c \in Nat /\ c # 0 /\ Far(m2, c) = w /\ Port(m2, c) = psm
      /\ \A d \in DOMAIN m.channels : Far(m2, d) = Far(m, d) /\ Port(m2, d) = Port(m, d)
  BY CidsArePositive, Zenon DEF Accepted, Joins, SameBut
<1>2. PICK k : GrantsAt(m, m2, k, c, w)
  BY Zenon DEF Accepted
<1>3. \A i \in 1..Len(m2.outbound) : Old(m, m2, i) \/ (i = k /\ OnlyGrants(m2.outbound[i], c, w))
  BY <1>2, Zenon DEF GrantsAt
<1>4. /\ w \in DOMAIN o.channels /\ Far(o, w) = 0 /\ Port(o, w) = psm
      /\ \A d \in DOMAIN m.channels : Far(m, d) # w
      /\ Unasked(o, w)
  BY Zenon DEF Wants
<1>5. \A d \in DOMAIN o.channels : Far(o, d) # c
  BY <1>1, Zenon DEF Half, Matched
<1>6. w # 0
  BY <1>4, CidsArePositive, Zenon DEF Half, Good
<1>7. Matched(m2, o) /\ Matched(o, m2)
  BY <1>1, <1>4, <1>5, SMTT(30) DEF Half, Matched
<1>8. Distinct(m2)
  BY <1>1, <1>4, SMT DEF Half, Distinct
<1>9. Granted(m2, o)
  <2>1. Granted(m, o)
    BY Zenon DEF Half
  <2>2. ASSUME NEW i \in 1..Len(m2.outbound), NEW x \in Nat, NEW y \in Nat, Grants(m2.outbound[i], x, y)
        PROVE  \/ i \in 1..Len(m.outbound) /\ Grants(m.outbound[i], x, y) /\ y # w
               \/ i = k /\ x = c /\ y = w
    <3>1. CASE Old(m, m2, i)
      <4>1. i \in 1..Len(m.outbound) /\ Grants(m.outbound[i], x, y)
        BY <2>2, <3>1, Zenon DEF Old
      <4>2. x \in DOMAIN m.channels /\ Far(m, x) = y
        BY <2>1, <4>1, Zenon DEF Granted
      <4> QED BY <1>4, <4>1, <4>2, Zenon
    <3>2. CASE i = k /\ OnlyGrants(m2.outbound[i], c, w)
      <4>1. x = c /\ y = w
        BY <2>2, <3>2, Zenon DEF OnlyGrants
      <4> QED BY <3>2, <4>1, Zenon
    <3> QED BY <1>3, <3>1, <3>2, Zenon
  <2> SUFFICES ASSUME NEW i \in 1..Len(m2.outbound), NEW near \in Nat, NEW cid \in Nat, Grants(m2.outbound[i], near, cid)
               PROVE  /\ near \in DOMAIN m2.channels /\ Far(m2, near) = cid
                      /\ cid \in DOMAIN o.channels /\ Far(o, cid) = 0
                      /\ \A j \in 1..Len(m2.outbound), n \in Nat : Grants(m2.outbound[j], n, cid) => i = j
    BY Zenon DEF Granted
  <2>3. CASE i \in 1..Len(m.outbound) /\ Grants(m.outbound[i], near, cid) /\ cid # w
    <3>1. /\ near \in DOMAIN m.channels /\ Far(m, near) = cid
          /\ cid \in DOMAIN o.channels /\ Far(o, cid) = 0
          /\ \A j \in 1..Len(m.outbound), n \in Nat : Grants(m.outbound[j], n, cid) => i = j
      BY <2>1, <2>3, Zenon DEF Granted
    <3>2. ASSUME NEW j \in 1..Len(m2.outbound), NEW n \in Nat, Grants(m2.outbound[j], n, cid) PROVE i = j
      BY <2>2, <2>3, <3>1, <3>2, Zenon
    <3> QED BY <1>1, <3>1, <3>2, Zenon
  <2>4. CASE i = k /\ near = c /\ cid = w
    <3>1. ASSUME NEW j \in 1..Len(m2.outbound), NEW n \in Nat, Grants(m2.outbound[j], n, cid) PROVE i = j
      BY <2>2, <2>4, <3>1, Zenon
    <3> QED BY <1>1, <1>4, <2>4, <3>1, Zenon
  <2> QED BY <2>2, <2>3, <2>4, Zenon
<1>10. Requested(m2, o)
  <2>1. Requested(m, o)
    BY Zenon DEF Half
  <2>2. ASSUME NEW i \in 1..Len(m2.outbound), NEW x, NEW y, Asks(m2.outbound[i], x, y)
        PROVE  i \in 1..Len(m.outbound) /\ m2.outbound[i] = m.outbound[i]
    BY <1>3, <2>2, Zenon DEF OnlyGrants, Old
  <2> SUFFICES ASSUME NEW i \in 1..Len(m2.outbound), NEW p \in Nat, NEW cid \in Nat, Asks(m2.outbound[i], p, cid)
               PROVE  /\ cid \in DOMAIN m2.channels /\ Far(m2, cid) = 0 /\ Port(m2, cid) = p
                      /\ \A d \in DOMAIN o.channels : Far(o, d) # cid
                      /\ \A j \in 1..Len(m2.outbound), q \in Nat : Asks(m2.outbound[j], q, cid) => i = j
    BY Zenon DEF Requested
  <2>3. i \in 1..Len(m.outbound) /\ Asks(m.outbound[i], p, cid)
    BY <2>2, Zenon
  <2>4. /\ cid \in DOMAIN m.channels /\ Far(m, cid) = 0 /\ Port(m, cid) = p
        /\ \A d \in DOMAIN o.channels : Far(o, d) # cid
        /\ \A j \in 1..Len(m.outbound), q \in Nat : Asks(m.outbound[j], q, cid) => i = j
    BY <2>1, <2>3, Zenon DEF Requested
  <2>5. ASSUME NEW j \in 1..Len(m2.outbound), NEW q \in Nat, Asks(m2.outbound[j], q, cid) PROVE i = j
    BY <2>2, <2>4, <2>5, Zenon
  <2> QED BY <1>1, <2>4, <2>5, Zenon
<1>11. Requested(o, m2)
  <2>1. Requested(o, m)
    BY Zenon DEF Half
  <2>2. \A i \in 1..Len(o.outbound) : \A p, cid \in Nat : Asks(o.outbound[i], p, cid) => cid # w
    BY <1>4, Zenon DEF Unasked
  <2>3. ASSUME NEW i \in 1..Len(o.outbound), NEW p \in Nat, NEW cid \in Nat, Asks(o.outbound[i], p, cid),
               NEW d \in DOMAIN m2.channels
        PROVE  Far(m2, d) # cid
    <3>1. cid # w /\ (d \in DOMAIN m.channels => Far(m, d) # cid)
      BY <2>1, <2>2, <2>3, Zenon DEF Requested
    <3> QED BY <1>1, <3>1, Zenon
  <2> QED BY <2>1, <2>3, Zenon DEF Requested
<1>12. Granted(o, m2)
  <2>1. Granted(o, m)
    BY Zenon DEF Half
  <2>2. \A d \in DOMAIN m.channels : d \in DOMAIN m2.channels /\ Far(m2, d) = Far(m, d)
    BY <1>1, SMT
  <2> QED BY <2>1, <2>2, SMTT(30) DEF Granted
<1>13. Good(o) /\ Distinct(o)
  BY Zenon DEF Half
<1> QED BY <1>1, <1>7, <1>8, <1>9, <1>10, <1>11, <1>12, <1>13, Zenon DEF Half

-----------------------------------------------------------------------------
(* A side learns the other end of the channel it asked for *)

LEMMA LearnedPair ==
  ASSUME NEW m, NEW o, NEW m2, NEW c, NEW near,
         Half(m, o), Half(o, m), Gives(o, m, near, c), Learned(m, m2, c, near)
  PROVE  Half(m2, o) /\ Half(o, m2)
<1>1. /\ Good(m2) /\ c \in DOMAIN m.channels /\ DOMAIN m2.channels = DOMAIN m.channels
      /\ Far(m2, c) = near /\ Port(m2, c) = Port(m, c)
      /\ \A d \in DOMAIN m.channels : d # c => Far(m2, d) = Far(m, d) /\ Port(m2, d) = Port(m, d)
      /\ \A i \in 1..Len(m2.outbound) : i \in 1..Len(m.outbound) /\ m2.outbound[i] = m.outbound[i]
  BY Zenon DEF Learned, SameBut, Old
<1>2. near \in DOMAIN o.channels /\ Far(o, near) = c /\ Far(m, c) = 0 /\ Ungranted(o, c)
  BY Zenon DEF Gives
<1>3. c # 0 /\ near # 0 /\ 0 \notin DOMAIN m.channels /\ 0 \notin DOMAIN o.channels
  BY <1>1, <1>2, CidsArePositive, Zenon DEF Half, Good
<1>4. Port(o, near) = Port(m, c)
  BY <1>2, <1>3, Zenon DEF Half, Matched
<1>5. \A d \in DOMAIN m.channels : Far(m, d) # near
  BY <1>1, <1>2, <1>3, Zenon DEF Half, Matched
<1>6. \A d \in DOMAIN o.channels : Far(o, d) = c => d = near
  BY <1>2, <1>3, Zenon DEF Half, Distinct
<1>7. Matched(m2, o)
  BY <1>1, <1>2, <1>4, SMTT(30) DEF Half, Matched
<1>8. Matched(o, m2)
  BY <1>1, <1>2, <1>4, <1>6, SMTT(30) DEF Half, Matched
<1>9. Distinct(m2)
  BY <1>1, <1>5, SMTT(30) DEF Half, Distinct
<1>10. Requested(m2, o)
  <2>1. Requested(m, o)
    BY Zenon DEF Half
  <2>2. \A i \in 1..Len(m.outbound) : \A p, cid \in Nat : Asks(m.outbound[i], p, cid) => cid # c
    <3>1. ASSUME NEW i \in 1..Len(m.outbound), NEW p \in Nat, NEW cid \in Nat, Asks(m.outbound[i], p, cid)
          PROVE  cid # c
      <4>1. \A d \in DOMAIN o.channels : Far(o, d) # cid
        BY <2>1, <3>1, Zenon DEF Requested
      <4> QED BY <1>2, <4>1, Zenon
    <3> QED BY <3>1, Zenon
  <2> QED BY <1>1, <2>1, <2>2, SMT DEF Requested
<1>11. Granted(m2, o)
  <2>1. Granted(m, o)
    BY Zenon DEF Half
  <2>2. \A i \in 1..Len(m.outbound) : \A n, cid \in Nat : Grants(m.outbound[i], n, cid) => n # c
    <3>1. ASSUME NEW i \in 1..Len(m.outbound), NEW n \in Nat, NEW cid \in Nat, Grants(m.outbound[i], n, cid)
          PROVE  n # c
      <4>1. Far(m, n) = cid /\ cid \in DOMAIN o.channels
        BY <2>1, <3>1, Zenon DEF Granted
      <4> QED BY <1>2, <1>3, <4>1, Zenon
    <3> QED BY <3>1, Zenon
  <2> QED BY <1>1, <2>1, <2>2, SMT DEF Granted
<1>12. Requested(o, m2)
  <2>1. Requested(o, m)
    BY Zenon DEF Half
  <2>2. \A i \in 1..Len(o.outbound) : \A p, cid \in Nat : Asks(o.outbound[i], p, cid) => cid # near
    <3>1. ASSUME NEW i \in 1..Len(o.outbound), NEW p \in Nat, NEW cid \in Nat, Asks(o.outbound[i], p, cid)
          PROVE  cid # near
      <4>1. Far(o, cid) = 0
        BY <2>1, <3>1, Zenon DEF Requested
      <4> QED BY <1>2, <1>3, <4>1, Zenon
    <3> QED BY <3>1, Zenon
  <2>3. ASSUME NEW i \in 1..Len(o.outbound), NEW p \in Nat, NEW cid \in Nat, Asks(o.outbound[i], p, cid),
               NEW d \in DOMAIN m2.channels
        PROVE  Far(m2, d) # cid
    <3>1. cid # near /\ (d \in DOMAIN m.channels => Far(m, d) # cid)
      BY <2>1, <2>2, <2>3, Zenon DEF Requested
    <3> QED BY <1>1, <3>1, Zenon
  <2> QED BY <2>1, <2>3, Zenon DEF Requested
<1>13. Granted(o, m2)
  <2>1. Granted(o, m)
    BY Zenon DEF Half
  <2>2. \A i \in 1..Len(o.outbound) : \A n, cid \in Nat : Grants(o.outbound[i], n, cid) => cid # c
    BY <1>2, Zenon DEF Ungranted
  <2> QED BY <1>1, <2>1, <2>2, SMT DEF Granted
<1>14. Good(o) /\ Distinct(o)
  BY Zenon DEF Half
<1> QED BY <1>1, <1>7, <1>8, <1>9, <1>10, <1>11, <1>12, <1>13, <1>14, Zenon DEF Half

=============================================================================
