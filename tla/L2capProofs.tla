----------------------------- MODULE L2capProofs -----------------------------
(****************************************************************************)
(* Every method of a ChannelManager, and so every step of the two sides, is *)
(* one of the few kinds of step for which L2capInvariant shows that the      *)
(* ends of channels stay paired. The theorems are for every number of CIDs,  *)
(* all ports and servers, all habits of the peer and any order in which the  *)
(* requests of the two sides cross.                                          *)
(****************************************************************************)
EXTENDS L2capInvariant

-----------------------------------------------------------------------------
(* What the methods of a manager do *)

LEMMA Untouched ==
  ASSUME NEW m, Good(m), NEW m2, DOMAIN m2 = ManagerFields, m2.identifier \in Nat,
         m2.channels = m.channels, m2.outbound = m.outbound
  PROVE  Keeps(m, m2)
<1>1. Good(m2)
  BY Zenon DEF Good
<1> QED BY <1>1, Zenon DEF Keeps, Old, Far, Port

\* A channel changes, but not its ends.
Alike(x, y) == ChannelOk(y) /\ y.psm = x.psm /\ y.destination_cid = x.destination_cid

LEMMA Edited ==
  ASSUME NEW m, Good(m), NEW m2, DOMAIN m2 = ManagerFields, m2.identifier \in Nat,
         NEW cid \in DOMAIN m.channels, NEW y, Alike(m.channels[cid], y),
         m2.channels = [m.channels EXCEPT ![cid] = y], m2.outbound = m.outbound
  PROVE  Keeps(m, m2)
<1>1. /\ DOMAIN m2.channels = DOMAIN m.channels /\ m2.channels[cid] = y
      /\ \A d \in DOMAIN m.channels : d # cid => m2.channels[d] = m.channels[d]
  BY SMT
<1>2. Good(m2)
  BY <1>1, Zenon DEF Good, Alike
<1>3. \A d \in DOMAIN m.channels : Far(m2, d) = Far(m, d) /\ Port(m2, d) = Port(m, d)
  BY <1>1, Zenon DEF Alike, Far, Port
<1> QED BY <1>1, <1>2, <1>3, Zenon DEF Keeps, Old

LEMMA FailKeeps ==
  ASSUME NEW m, Good(m), NEW error
  PROVE  Keeps(m, Fail(m, error))
<1>1. DOMAIN m = ManagerFields /\ m.identifier \in Nat
  BY Zenon DEF Good
<1> DEFINE m2 == Fail(m, error)
<1>2. /\ DOMAIN m2 = ManagerFields /\ m2.identifier = m.identifier /\ m2.channels = m.channels
      /\ m2.outbound = m.outbound
  BY <1>1, SMT DEF Fail, ManagerFields
<1> HIDE DEF m2
<1>3. Keeps(m, m2)
  BY <1>1, <1>2, Untouched, Zenon
<1> QED BY <1>3, Zenon DEF m2

\* A frame that neither asks for a channel nor grants one.
Still(frame) ==
    /\ frame.code # ConnectionRequest
    /\ frame.code = ConnectionResponse => frame.words[3] # Success

LEMMA StillNeutral ==
  ASSUME NEW pdu, Still(Read(pdu))
  PROVE  Neutral(pdu)
  BY Zenon DEF Still, Neutral, Asks, Grants

\* A PDU is queued.
Sends(m, m2, pdu) ==
    /\ Good(m) /\ pdu \in Pdus
    /\ Good(m2) /\ m2.channels = m.channels /\ m2.outbound = Append(m.outbound, pdu)

LEMMA Sent ==
  ASSUME NEW m, Good(m), NEW pdu, Readable(pdu)
  PROVE  Sends(m, [m EXCEPT !.outbound = Append(@, pdu)], pdu)
<1>1. /\ DOMAIN m = ManagerFields /\ m.outbound \in Seq(Pdus) /\ pdu \in Pdus
      /\ \A i \in 1..Len(m.outbound) : Readable(m.outbound[i])
  BY Zenon DEF Good, Readable
<1> DEFINE out == Append(m.outbound, pdu)
           m2 == [m EXCEPT !.outbound = out]
<1>2. /\ out \in Seq(Pdus)
      /\ \A i \in 1..Len(out) : (i \in 1..Len(m.outbound) /\ out[i] = m.outbound[i])
                                  \/ (i = Len(m.outbound) + 1 /\ out[i] = pdu)
  BY <1>1, SMT
<1> HIDE DEF out
<1>3. /\ DOMAIN m2 = ManagerFields /\ m2.outbound = out /\ m2.channels = m.channels
      /\ m2.identifier = m.identifier
  BY <1>1, SMT DEF ManagerFields
<1> HIDE DEF m2
<1>4. \A i \in 1..Len(out) : Readable(out[i])
  BY <1>1, <1>2, Zenon
<1>5. Good(m2)
  BY <1>2, <1>3, <1>4, Zenon DEF Good
<1>6. Sends(m, m2, pdu)
  BY <1>1, <1>3, <1>5, Zenon DEF Sends, out
<1> QED BY <1>6, Zenon DEF m2, out

LEMMA SendsLast ==
  ASSUME NEW m, NEW m2, NEW pdu, Sends(m, m2, pdu)
  PROVE  \A i \in 1..Len(m2.outbound) :
           Old(m, m2, i) \/ (i = Len(m.outbound) + 1 /\ m2.outbound[i] = pdu)
<1>1. m.outbound \in Seq(Pdus) /\ pdu \in Pdus /\ m2.outbound = Append(m.outbound, pdu)
  BY Zenon DEF Sends, Good
<1>2. ASSUME NEW i \in 1..Len(m2.outbound)
      PROVE  \/ i \in 1..Len(m.outbound) /\ m2.outbound[i] = m.outbound[i]
             \/ i = Len(m.outbound) + 1 /\ m2.outbound[i] = pdu
  BY <1>1, SMT
<1> QED BY <1>2, Zenon DEF Old

LEMMA SendsKeeps ==
  ASSUME NEW m, NEW m2, NEW pdu, Sends(m, m2, pdu), Neutral(pdu)
  PROVE  Keeps(m, m2)
<1>1. Good(m2) /\ m2.channels = m.channels
  BY Zenon DEF Sends
<1>2. ASSUME NEW i \in 1..Len(m2.outbound) PROVE Neutral(m2.outbound[i]) \/ Old(m, m2, i)
  <2>1. CASE Old(m, m2, i)
    BY <2>1
  <2>2. CASE m2.outbound[i] = pdu
    BY <2>2, Zenon
  <2> QED BY <2>1, <2>2, SendsLast, Zenon
<1> QED BY <1>1, <1>2, Zenon DEF Keeps, Far, Port

\* The PDU of a frame.
Control(frame) == Pdu(SignallingCid, frame_to_bytes(frame))

LEMMA ControlIs ==
  ASSUME NEW frame \in Frames
  PROVE  /\ Readable(Control(frame)) /\ Signals(Control(frame)) /\ Read(Control(frame)) = frame
  BY FrameOctets, Signal, Zenon DEF Control

LEMMA Queued ==
  ASSUME NEW m, Good(m), NEW frame \in Frames
  PROVE  Sends(m, queue_control(m, frame), Control(frame))
  BY ControlIs, Sent, Zenon DEF queue_control, Control

LEMMA QueuedKeeps ==
  ASSUME NEW m, Good(m), NEW frame \in Frames, Still(frame)
  PROVE  Keeps(m, queue_control(m, frame))
<1>1. Neutral(Control(frame))
  BY ControlIs, StillNeutral, Zenon
<1> QED BY <1>1, Queued, SendsKeeps, Zenon

IsFrame(frame, code, words) == frame \in Frames /\ frame.code = code /\ frame.words = words

LEMMA PlainFrame ==
  ASSUME NEW code \in 1..7, code # ConnectionRequest, NEW identifier \in Nat, NEW words \in Seq(Nat),
         Len(words) = Layout(code).words, NEW data \in Octets, Layout(code).tail = "none" => data = <<>>
  PROVE  IsFrame(Frame(code, identifier, 0, words, data), code, words)
<1> DEFINE frame == Frame(code, identifier, 0, words, data)
<1>1. 0 \in Ports16
  BY SMT DEF Ports16
<1>2. /\ frame.code = code /\ frame.words = words /\ frame.data = data /\ frame.psm = 0
      /\ frame \in [code : 1..7, identifier : Nat, psm : Ports16, words : Seq(Nat), data : Octets]
  BY <1>1 DEF Frame
<1> HIDE DEF frame
<1>3. frame \in Frames
  BY <1>2, Zenon DEF Frames
<1> QED BY <1>2, <1>3, Zenon DEF IsFrame, frame

LEMMA PsmFacts ==
  ASSUME NEW psm \in Psms
  PROVE  psm \in Ports16 /\ (psm \div 256) % 2 = 0
<1>1. psm \in Nat /\ psm < 65536 /\ validate_psm(psm)
  BY SpecAssumption, SMT
<1> QED BY <1>1, SMT DEF Ports16, validate_psm

LEMMA RequestFrame ==
  ASSUME NEW psm \in Psms, NEW identifier \in Nat, NEW cid \in Nat
  PROVE  /\ Frame(ConnectionRequest, identifier, psm, <<cid>>, <<>>) \in Frames
         /\ Frame(ConnectionRequest, identifier, psm, <<cid>>, <<>>).code = ConnectionRequest
         /\ Frame(ConnectionRequest, identifier, psm, <<cid>>, <<>>).psm = psm
         /\ Frame(ConnectionRequest, identifier, psm, <<cid>>, <<>>).words[1] = cid
<1> DEFINE frame == Frame(ConnectionRequest, identifier, psm, <<cid>>, <<>>)
<1>1. psm \in Ports16 /\ (psm \div 256) % 2 = 0
  BY PsmFacts
<1>2. ConnectionRequest \in 1..7 /\ <<>> \in Octets /\ <<cid>> \in Seq(Nat) /\ Len(<<cid>>) = 1
  BY SMT DEF ConnectionRequest, Octets
<1>3. Layout(ConnectionRequest).words = 1
  BY Layouts, SMT DEF Fixed, ConnectionRequest
<1>4. /\ frame.code = ConnectionRequest /\ frame.words = <<cid>> /\ frame.data = <<>> /\ frame.psm = psm
      /\ frame \in [code : 1..7, identifier : Nat, psm : Ports16, words : Seq(Nat), data : Octets]
  BY <1>1, <1>2 DEF Frame
<1> HIDE DEF frame
<1>5. frame \in Frames
  BY <1>1, <1>2, <1>3, <1>4, Zenon DEF Frames
<1>6. <<cid>>[1] = cid
  OBVIOUS
<1> QED BY <1>4, <1>5, <1>6, Zenon DEF frame

LEMMA RequestSends ==
  ASSUME NEW m, Good(m), NEW code, NEW psm, NEW words, NEW data,
         \A n \in Nat : Frame(code, n, psm, words, data) \in Frames
  PROVE  \E n \in Nat : Sends(m, Request(m, code, psm, words, data), Control(Frame(code, n, psm, words, data)))
<1> DEFINE n == next_identifier(m)
           m1 == [m EXCEPT !.identifier = n, !.asked = @ \cup {<<n, code + 1>>}]
           frame == Frame(code, n, psm, words, data)
           m2 == Request(m, code, psm, words, data)
<1>1. DOMAIN m = ManagerFields /\ m.identifier \in Nat
  BY Zenon DEF Good
<1>2. n \in Nat
  BY <1>1, SMT DEF next_identifier
<1>3. m2 = queue_control(m1, frame)
  BY Zenon DEF Request
<1> HIDE DEF n
<1>4. /\ DOMAIN m1 = ManagerFields /\ m1.identifier = n /\ m1.channels = m.channels
      /\ m1.outbound = m.outbound
  BY <1>1, SMT DEF ManagerFields
<1> HIDE DEF m1, m2
<1>5. Good(m1)
  BY <1>2, <1>4, Zenon DEF Good
<1>6. Sends(m1, m2, Control(frame))
  BY <1>2, <1>3, <1>5, Queued, Zenon
<1>7. Sends(m, m2, Control(frame))
  BY <1>4, <1>6, Zenon DEF Sends
<1> QED BY <1>2, <1>7, Zenon DEF m2

LEMMA RequestKeeps ==
  ASSUME NEW m, Good(m), NEW code \in {ConfigureRequest, DisconnectionRequest}, NEW words \in Seq(Nat),
         Len(words) = 2, NEW data \in Octets, code = DisconnectionRequest => data = <<>>
  PROVE  /\ Keeps(m, Request(m, code, 0, words, data))
         /\ \E frame \in Frames : Request(m, code, 0, words, data).outbound = Append(m.outbound, Control(frame))
<1>1. /\ code \in 1..7 /\ code # ConnectionRequest /\ code # ConnectionResponse
      /\ Len(words) = Layout(code).words
      /\ Layout(code).tail = "none" => data = <<>>
  BY Layouts, SMT DEF ConfigureRequest, DisconnectionRequest, ConnectionRequest, ConnectionResponse, Open, Fixed
<1>2. ASSUME NEW n \in Nat
      PROVE  IsFrame(Frame(code, n, 0, words, data), code, words)
  BY <1>1, PlainFrame, Zenon
<1>3. PICK n \in Nat : Sends(m, Request(m, code, 0, words, data), Control(Frame(code, n, 0, words, data)))
  BY <1>2, RequestSends, Zenon DEF IsFrame
<1>4. Neutral(Control(Frame(code, n, 0, words, data)))
  BY <1>1, <1>2, ControlIs, StillNeutral, Zenon DEF Still, IsFrame
<1>5. Frame(code, n, 0, words, data) \in Frames
  BY <1>2, Zenon DEF IsFrame
<1> QED BY <1>3, <1>4, <1>5, SendsKeeps, Zenon DEF Sends

\* queue_configure_request, with any options of the peer's first
LEMMA ConfigureRequestKeeps ==
  ASSUME NEW m, Good(m), NEW cid \in DOMAIN m.channels, NEW first \in Options
  PROVE  /\ Keeps(m, queue_configure_request(m, cid, first))
         /\ \E frame \in Frames :
              queue_configure_request(m, cid, first).outbound = Append(m.outbound, Control(frame))
<1> DEFINE x == m.channels[cid]
           y == [x EXCEPT !.tentative = first # <<>>]
           m1 == [m EXCEPT !.channels[cid].tentative = first # <<>>,
                           !.unusual = IF first = <<>> THEN @ ELSE @ \cup {"tentative"}]
           words == <<x.destination_cid, 0>>
           data == encode_configuration_options(IF first = <<>> THEN OptionsOf(x.spec) ELSE first)
<1>1. /\ DOMAIN m = ManagerFields /\ m.identifier \in Nat /\ ChannelOk(x)
  BY Zenon DEF Good
<1>2. Alike(x, y)
  BY <1>1, SMT DEF ChannelOk, Alike, ChannelFields
<1>3. /\ DOMAIN m1 = ManagerFields /\ m1.identifier = m.identifier /\ m1.outbound = m.outbound
      /\ m1.channels = [m.channels EXCEPT ![cid] = y]
  BY <1>1, SMT DEF ManagerFields
<1>4. Keeps(m, m1)
  <2> HIDE DEF m1, y
  <2> QED BY <1>1, <1>2, <1>3, Edited, Zenon
<1>5. words \in Seq(Nat) /\ Len(words) = 2
  BY <1>1, SMT DEF ChannelOk
<1>6. data \in Octets
  BY <1>1, SpecOptions, Encoded, Zenon DEF ChannelOk
<1>7. queue_configure_request(m, cid, first) = Request(m1, ConfigureRequest, 0, words, data)
  BY Zenon DEF queue_configure_request
<1> HIDE DEF m1, words, data
<1>8. /\ Keeps(m1, Request(m1, ConfigureRequest, 0, words, data))
      /\ \E frame \in Frames :
           Request(m1, ConfigureRequest, 0, words, data).outbound = Append(m1.outbound, Control(frame))
  <2>1. ConfigureRequest # DisconnectionRequest
    BY SMT DEF ConfigureRequest, DisconnectionRequest
  <2> QED BY <1>4, <1>5, <1>6, <2>1, RequestKeeps, Zenon DEF Keeps
<1> QED BY <1>3, <1>4, <1>7, <1>8, KeepsChain, Zenon

LEMMA DisconnectKeeps ==
  ASSUME NEW m, Good(m), NEW cid \in DOMAIN m.channels
  PROVE  Keeps(m, disconnect(m, cid))
<1> DEFINE x == m.channels[cid]
           y == [x EXCEPT !.state = "WaitDisconnect"]
           m1 == [m EXCEPT !.channels[cid].state = "WaitDisconnect"]
           words == <<x.destination_cid, cid>>
<1>1. /\ DOMAIN m = ManagerFields /\ m.identifier \in Nat /\ ChannelOk(x) /\ cid \in Nat
  BY CidsArePositive, Zenon DEF Good
<1>2. Alike(x, y)
  BY <1>1, SMT DEF ChannelOk, Alike, ChannelFields
<1>3. /\ DOMAIN m1 = ManagerFields /\ m1.identifier = m.identifier /\ m1.outbound = m.outbound
      /\ m1.channels = [m.channels EXCEPT ![cid] = y]
  BY <1>1, SMT DEF ManagerFields
<1>4. Keeps(m, m1)
  <2> HIDE DEF m1, y
  <2> QED BY <1>1, <1>2, <1>3, Edited, Zenon
<1>5. words \in Seq(Nat) /\ Len(words) = 2 /\ <<>> \in Octets
  BY <1>1, SMT DEF ChannelOk, Octets
<1>6. disconnect(m, cid) = Request(m1, DisconnectionRequest, 0, words, <<>>)
  BY Zenon DEF disconnect
<1> HIDE DEF m1, words
<1>7. Keeps(m1, Request(m1, DisconnectionRequest, 0, words, <<>>))
  BY <1>4, <1>5, RequestKeeps, ZenonT(40) DEF Keeps
<1> QED BY <1>4, <1>6, <1>7, KeepsChain, Zenon

\* Reply, for the responses that are about a channel
LEMMA ReplySends ==
  ASSUME NEW m, Good(m), NEW request \in Frames,
         request.code \in {ConnectionRequest, ConfigureRequest, DisconnectionRequest},
         NEW words \in Seq(Nat), Len(words) = Layout(request.code + 1).words, NEW data \in Octets,
         request.code # ConfigureRequest => data = <<>>
  PROVE  /\ Sends(m, Reply(m, request, words, data), Control(Frame(request.code + 1, request.identifier, 0, words, data)))
         /\ IsFrame(Frame(request.code + 1, request.identifier, 0, words, data), request.code + 1, words)
<1> DEFINE code == request.code + 1
<1>1. request.identifier \in Nat
  BY FrameFields, Zenon
<1>2. code \in 1..7 /\ code # ConnectionRequest /\ (Layout(code).tail = "none" => data = <<>>)
  BY Layouts, SMT DEF ConfigureRequest, DisconnectionRequest, ConnectionRequest, Open, Fixed
<1>3. Len(words) = Layout(code).words
  OBVIOUS
<1>4. Reply(m, request, words, data) = queue_control(m, Frame(code, request.identifier, 0, words, data))
  BY Zenon DEF Reply
<1> HIDE DEF code
<1>5. IsFrame(Frame(code, request.identifier, 0, words, data), code, words)
  BY <1>1, <1>2, <1>3, PlainFrame, Zenon
<1>6. Sends(m, Reply(m, request, words, data), Control(Frame(code, request.identifier, 0, words, data)))
  BY <1>4, <1>5, Queued, Zenon DEF IsFrame
<1> QED BY <1>5, <1>6, Zenon DEF code

LEMMA ReplyKeeps ==
  ASSUME NEW m, Good(m), NEW request \in Frames,
         request.code \in {ConfigureRequest, DisconnectionRequest},
         NEW words \in Seq(Nat), Len(words) = Layout(request.code + 1).words, NEW data \in Octets,
         request.code # ConfigureRequest => data = <<>>
  PROVE  Keeps(m, Reply(m, request, words, data))
<1> DEFINE frame == Frame(request.code + 1, request.identifier, 0, words, data)
<1>1. Sends(m, Reply(m, request, words, data), Control(frame)) /\ frame \in Frames /\ frame.code = request.code + 1
  BY ReplySends, Zenon DEF IsFrame
<1>2. request.code + 1 # ConnectionRequest /\ request.code + 1 # ConnectionResponse
  BY SMT DEF ConfigureRequest, DisconnectionRequest, ConnectionRequest, ConnectionResponse
<1> HIDE DEF frame
<1>3. Neutral(Control(frame))
  BY <1>1, <1>2, ControlIs, StillNeutral, Zenon DEF Still
<1> QED BY <1>1, <1>3, SendsKeeps, Zenon

LEMMA FrameWords ==
  ASSUME NEW frame \in Frames
  PROVE  /\ frame.code = ConnectionRequest => frame.words[1] \in Nat
         /\ frame.code = ConnectionResponse =>
              frame.words[1] \in Nat /\ frame.words[2] \in Nat /\ frame.words[3] \in Nat
         /\ frame.code = ConfigureRequest => frame.words[1] \in Nat /\ frame.words[2] \in Nat
         /\ frame.code = ConfigureResponse => frame.words[1] \in Nat /\ frame.words[3] \in Nat
         /\ frame.code = DisconnectionRequest => Len(frame.words) = 2
<1>1. frame.words \in Seq(Nat) /\ Len(frame.words) = Layout(frame.code).words
  BY FrameFields, Zenon DEF Frames
<1>2. /\ Layout(ConnectionRequest).words = 1 /\ Layout(ConnectionResponse).words = 4
      /\ Layout(ConfigureRequest).words = 2 /\ Layout(ConfigureResponse).words = 3
      /\ Layout(DisconnectionRequest).words = 2
  BY Layouts, SMT DEF ConnectionRequest, ConnectionResponse, ConfigureRequest, ConfigureResponse,
                      DisconnectionRequest, Open, Fixed
<1> QED BY <1>1, <1>2, SMTT(30)

LEMMA MaybeOpenKeeps ==
  ASSUME NEW m, Good(m), NEW cid \in DOMAIN m.channels
  PROVE  Keeps(m, maybe_open(m, cid))
<1> DEFINE x == m.channels[cid]
           y == [x EXCEPT !.state = "Open"]
           m1 == [m EXCEPT !.channels[cid].state = "Open",
                           !.accepted = IF x.incoming THEN Append(@, cid) ELSE @]
<1>1. /\ DOMAIN m = ManagerFields /\ m.identifier \in Nat /\ ChannelOk(x)
  BY Zenon DEF Good
<1>2. Alike(x, y)
  BY <1>1, SMT DEF ChannelOk, Alike, ChannelFields
<1>3. /\ DOMAIN m1 = ManagerFields /\ m1.identifier = m.identifier /\ m1.outbound = m.outbound
      /\ m1.channels = [m.channels EXCEPT ![cid] = y]
  BY <1>1, SMT DEF ManagerFields
<1>4. maybe_open(m, cid) = m1 \/ maybe_open(m, cid) = m
  BY Zenon DEF maybe_open
<1> HIDE DEF m1, y
<1>5. Keeps(m, m1)
  BY <1>1, <1>2, <1>3, Edited, Zenon
<1>6. Keeps(m, m)
  BY <1>1, Untouched, Zenon
<1> QED BY <1>4, <1>5, <1>6, Zenon

LEMMA ConfigureKeeps ==
  ASSUME NEW m, Good(m), NEW frame \in Frames, frame.code = ConfigureRequest,
         NEW cid \in DOMAIN m.channels, NEW found \in Founds
  PROVE  Keeps(m, Configure(m, frame, cid, m.channels[cid], found))
<1> DEFINE x == m.channels[cid]
           last == found.result = Success /\ frame.words[2] % 2 = 0
           ok == Acceptable(x, found)
           closed == last /\ ~ok
           y == [x EXCEPT !.peer_mtu = found.mtu,
                          !.peer_configuration_received = @ \/ (last /\ ok),
                          !.state = IF closed THEN "Closed" ELSE @,
                          !.connection_result = IF closed THEN Unacceptable ELSE @]
           m1 == [m EXCEPT !.channels[cid] = y]
           words == <<x.destination_cid, 0, IF closed THEN Unacceptable ELSE found.result>>
           data == encode_configuration_options(IF closed THEN Counter(x, found) ELSE found.response)
           m2 == Reply(m1, frame, words, data)
<1>1. /\ DOMAIN m = ManagerFields /\ m.identifier \in Nat /\ ChannelOk(x)
  BY Zenon DEF Good
<1>2. found.mtu \in Nat /\ found.result \in Nat /\ found.response \in Options
  BY DEF Founds
<1>3. Configure(m, frame, cid, x, found) = maybe_open(m2, cid)
  BY Zenon DEF Configure
<1>4. data \in Octets
  BY <1>2, CounterIs, Encoded, Zenon
<1>5. words \in Seq(Nat) /\ Len(words) = 3
  <2>1. x.destination_cid \in Nat /\ (IF closed THEN Unacceptable ELSE found.result) \in Nat
    BY <1>1, <1>2, Codes, Zenon DEF ChannelOk
  <2> QED BY <2>1, SMT
<1> HIDE DEF last, ok, closed
<1>6. Alike(x, y)
  BY <1>1, <1>2, SMT DEF ChannelOk, Alike, ChannelFields
<1> HIDE DEF y
<1>7. /\ DOMAIN m1 = ManagerFields /\ m1.identifier = m.identifier /\ m1.outbound = m.outbound
      /\ m1.channels = [m.channels EXCEPT ![cid] = y]
  BY <1>1, SMT DEF ManagerFields
<1> HIDE DEF m1, words, data
<1>8. Keeps(m, m1)
  BY <1>1, <1>6, <1>7, Edited, Zenon
<1>9. Keeps(m1, m2)
  <2>1. Layout(frame.code + 1).words = 3
    BY Layouts, SMT DEF ConfigureRequest, Open
  <2>2. Len(words) = Layout(frame.code + 1).words
    BY <1>5, <2>1, Zenon
  <2> QED BY <1>4, <1>5, <1>8, <2>2, ReplyKeeps, Zenon DEF Keeps
<1> HIDE DEF m2
<1>10. Keeps(m2, maybe_open(m2, cid))
  BY <1>8, <1>9, MaybeOpenKeeps, Zenon DEF Keeps
<1> QED BY <1>3, <1>8, <1>9, <1>10, KeepsChain, Zenon

LEMMA OnConfigureRequestKeeps ==
  ASSUME NEW m, Good(m), NEW frame \in Frames, frame.code = ConfigureRequest,
         frame.words[1] \in DOMAIN m.channels
  PROVE  Keeps(m, on_configure_request(m, frame))
<1> DEFINE x == m.channels[frame.words[1]]
           decoded == decode_configuration_options[frame.data]
<1>1. frame.data \in Octets
  BY FrameFields, Zenon
<1>2. decoded.options \in Options
  <2>1. decoded \in Results
    BY <1>1, Decoded, Zenon
  <2> QED BY <2>1 DEF Results
<1>3. x.peer_mtu \in Nat
  BY Zenon DEF Good, ChannelOk
<1>4. on_configure_request(m, frame) =
        IF ~decoded.ok THEN Fail(m, "configuration options")
        ELSE Configure(m, frame, frame.words[1], x, Negotiate(x, decoded.options))
  BY Zenon DEF on_configure_request
<1> HIDE DEF decoded
<1>5. Negotiate(x, decoded.options) \in Founds
  BY <1>2, <1>3, Negotiated, Zenon
<1>6. Keeps(m, Configure(m, frame, frame.words[1], x, Negotiate(x, decoded.options)))
  BY <1>5, ConfigureKeeps, Zenon
<1>7. Keeps(m, Fail(m, "configuration options"))
  BY FailKeeps, Zenon
<1> QED BY <1>4, <1>6, <1>7, Zenon

LEMMA OnConfigureResponseKeeps ==
  ASSUME NEW m, Good(m), NEW frame, frame.words[1] \in DOMAIN m.channels
  PROVE  Keeps(m, on_configure_response(m, frame))
<1> DEFINE cid == frame.words[1]
           x == m.channels[cid]
           ok == frame.words[3] = Success
           y == [x EXCEPT !.configuration_response_received = @ \/ ok,
                          !.connection_result = IF ok THEN @ ELSE frame.words[3],
                          !.state = IF ok THEN @ ELSE "Closed"]
           m1 == [m EXCEPT !.channels[cid].configuration_response_received = @ \/ ok,
                           !.channels[cid].connection_result = IF ok THEN @ ELSE frame.words[3],
                           !.channels[cid].state = IF ok THEN @ ELSE "Closed"]
<1>1. /\ DOMAIN m = ManagerFields /\ m.identifier \in Nat /\ ChannelOk(x)
  BY Zenon DEF Good
<1>2. Keeps(m, queue_configure_request(m, cid, <<>>))
  BY NoOption, ConfigureRequestKeeps, Zenon
<1>3. on_configure_response(m, frame) =
        IF ~ok /\ x.tentative THEN queue_configure_request(m, cid, <<>>) ELSE maybe_open(m1, cid)
  BY Zenon DEF on_configure_response
<1> HIDE DEF ok
<1>4. Alike(x, y)
  BY <1>1, SMTT(30) DEF ChannelOk, Alike, ChannelFields
<1>5. /\ DOMAIN m1 = ManagerFields /\ m1.identifier = m.identifier /\ m1.outbound = m.outbound
      /\ m1.channels = [m.channels EXCEPT ![cid] = y]
  BY <1>1, SMT DEF ManagerFields, ChannelOk, ChannelFields
<1> HIDE DEF m1, y
<1>6. Keeps(m, m1)
  BY <1>1, <1>4, <1>5, Edited, Zenon
<1>7. Keeps(m1, maybe_open(m1, cid))
  BY <1>6, MaybeOpenKeeps, Zenon DEF Keeps
<1> QED BY <1>2, <1>3, <1>6, <1>7, KeepsChain, Zenon

LEMMA ClosedKeeps ==
  ASSUME NEW m, Good(m), NEW cid \in DOMAIN m.channels
  PROVE  Keeps(m, [m EXCEPT !.channels[cid].state = "Closed"])
<1> DEFINE x == m.channels[cid]
           y == [x EXCEPT !.state = "Closed"]
           m1 == [m EXCEPT !.channels[cid].state = "Closed"]
<1>1. /\ DOMAIN m = ManagerFields /\ m.identifier \in Nat /\ ChannelOk(x)
  BY Zenon DEF Good
<1>2. Alike(x, y)
  BY <1>1, SMT DEF ChannelOk, Alike, ChannelFields
<1>3. /\ DOMAIN m1 = ManagerFields /\ m1.identifier = m.identifier /\ m1.outbound = m.outbound
      /\ m1.channels = [m.channels EXCEPT ![cid] = y]
  BY <1>1, SMTT(30) DEF ManagerFields
<1>4. Keeps(m, m1)
  <2> HIDE DEF m1, y
  <2> QED BY <1>1, <1>2, <1>3, Edited, Zenon
<1> QED BY <1>4, Zenon

LEMMA OnDisconnectionRequestKeeps ==
  ASSUME NEW m, Good(m), NEW frame \in Frames, frame.code = DisconnectionRequest,
         frame.words[1] \in DOMAIN m.channels
  PROVE  Keeps(m, on_disconnection_request(m, frame))
<1> DEFINE m1 == [m EXCEPT !.channels[frame.words[1]].state = "Closed"]
<1>1. Keeps(m, m1)
  BY ClosedKeeps, Zenon
<1>2. on_disconnection_request(m, frame) = Fail(m, "disconnection CID mismatch")
        \/ on_disconnection_request(m, frame) = Reply(m1, frame, frame.words, <<>>)
  BY Zenon DEF on_disconnection_request
<1> HIDE DEF m1
<1>3. frame.words \in Seq(Nat) /\ Len(frame.words) = 2 /\ <<>> \in Octets
  <2>1. <<>> \in Octets
    BY SMT DEF Octets
  <2> QED BY <2>1, FrameFields, FrameWords, Zenon
<1>4. Len(frame.words) = Layout(frame.code + 1).words
  BY <1>3, Layouts, SMT DEF DisconnectionRequest, Fixed
<1>5. Keeps(m1, Reply(m1, frame, frame.words, <<>>))
  BY <1>1, <1>3, <1>4, ReplyKeeps, Zenon DEF Keeps
<1>6. Keeps(m, Reply(m1, frame, frame.words, <<>>))
  BY <1>1, <1>5, KeepsChain, Zenon
<1>7. Keeps(m, Fail(m, "disconnection CID mismatch"))
  BY FailKeeps, Zenon
<1> QED BY <1>2, <1>6, <1>7, Zenon

LEMMA OnDisconnectionResponseKeeps ==
  ASSUME NEW m, Good(m), NEW frame, frame.words[2] \in DOMAIN m.channels
  PROVE  Keeps(m, on_disconnection_response(m, frame))
  BY ClosedKeeps, FailKeeps, Zenon DEF on_disconnection_response

LEMMA OnDataKeeps ==
  ASSUME NEW m, Good(m), NEW cid \in DOMAIN m.channels, NEW sdu
  PROVE  Keeps(m, on_data(m, cid, sdu))
<1> DEFINE x == m.channels[cid]
           y == [x EXCEPT !.received = Append(@, sdu)]
           m1 == [m EXCEPT !.channels[cid].received = Append(@, sdu)]
<1>1. /\ DOMAIN m = ManagerFields /\ m.identifier \in Nat /\ ChannelOk(x)
  BY Zenon DEF Good
<1>2. Alike(x, y)
  BY <1>1, SMT DEF ChannelOk, Alike, ChannelFields
<1>3. /\ DOMAIN m1 = ManagerFields /\ m1.identifier = m.identifier /\ m1.outbound = m.outbound
      /\ m1.channels = [m.channels EXCEPT ![cid] = y]
  BY <1>1, SMTT(30) DEF ManagerFields
<1>4. Keeps(m, m1)
  <2> HIDE DEF m1, y
  <2> QED BY <1>1, <1>2, <1>3, Edited, Zenon
<1> QED BY <1>4, FailKeeps, Zenon DEF on_data

LEMMA SendKeeps ==
  ASSUME NEW m, Good(m), NEW cid \in DOMAIN m.channels, NEW sdu \in Seq(Nat),
         m.channels[cid].destination_cid # SignallingCid
  PROVE  Keeps(m, send(m, cid, sdu))
<1> DEFINE pdu == Pdu(m.channels[cid].destination_cid, sdu)
<1>1. m.channels[cid].destination_cid \in Nat
  BY Zenon DEF Good, ChannelOk
<1>2. pdu \in Pdus /\ pdu.cid # SignallingCid
  BY <1>1, SMT DEF Pdu, Pdus
<1>3. send(m, cid, sdu) = [m EXCEPT !.outbound = Append(@, pdu)]
  BY Zenon DEF send
<1> HIDE DEF pdu
<1>4. Readable(pdu) /\ Neutral(pdu)
  BY <1>2, Zenon DEF Readable, Signals, Neutral, Asks, Grants
<1> QED BY <1>3, <1>4, Sent, SendsKeeps, Zenon

-----------------------------------------------------------------------------
(* New channels *)

\* The lowest free CID.
LEMMA Allocated ==
  ASSUME NEW m, Free(m)
  PROVE  allocate_cid(m) \in CidRange /\ allocate_cid(m) \notin DOMAIN m.channels
<1> DEFINE T == CidRange \ DOMAIN m.channels
           Fits(cid) == FirstCid..(cid - 1) \subseteq DOMAIN m.channels /\ cid \notin DOMAIN m.channels
           R == FirstCid..(LastCid + 1)
<1>1. FirstCid \in Nat /\ LastCid \in Nat
  BY CidAssumption, BoundAssumption, SMT
<1>2. PICK x \in T : \A y \in T : x <= y
  <2>1. T \subseteq Nat /\ T # {}
    BY CidsArePositive, Zenon DEF Free
  <2> HIDE DEF T
  <2> QED BY <2>1, Smallest, Zenon
<1>3. x \in R /\ Fits(x)
  <2>1. x \in FirstCid..LastCid
    BY <1>2 DEF CidRange
  <2>2. ASSUME NEW y \in FirstCid..(x - 1), y \notin DOMAIN m.channels PROVE FALSE
    <3>1. y \in FirstCid..LastCid /\ ~(x <= y)
      BY <1>1, <2>1, <2>2, SMTT(30)
    <3> QED BY <1>2, <2>2, <3>1, Zenon DEF CidRange
  <2>3. x \in R
    BY <1>1, <2>1, SMT
  <2> QED BY <1>2, <2>2, <2>3, Zenon
<1>4. allocate_cid(m) = CHOOSE cid \in R : Fits(cid)
  BY Zenon DEF allocate_cid
<1> DEFINE c == allocate_cid(m)
<1> HIDE DEF R, Fits
<1>5. c \in R /\ Fits(c)
  BY <1>3, <1>4, Zenon
<1> HIDE DEF c
<1>6. c \in FirstCid..(LastCid + 1) /\ FirstCid..(c - 1) \subseteq DOMAIN m.channels /\ c \notin DOMAIN m.channels
  BY <1>5, Zenon DEF R, Fits
<1>7. c # LastCid + 1
  <2>1. ASSUME c = LastCid + 1 PROVE CidRange \subseteq DOMAIN m.channels
    <3>1. c - 1 = LastCid
      BY <1>1, <2>1, SMTT(30)
    <3> QED BY <1>6, <3>1, Zenon DEF CidRange
  <2> QED BY <2>1, Zenon DEF Free
<1>8. c \in CidRange
  BY <1>1, <1>6, <1>7, SMTT(30) DEF CidRange
<1> QED BY <1>6, <1>8, Zenon DEF c

Fresh(channel, psm, far) == ChannelOk(channel) /\ channel.psm = psm /\ channel.destination_cid = far

LEMMA ChannelIs ==
  ASSUME NEW psm \in Psms, NEW spec \in ChannelSpecs, NEW far \in Nat, NEW state, NEW incoming
  PROVE  Fresh(Channel(psm, spec, far, state, incoming), psm, far)
<1>1. MinMtu \in Nat
  BY BoundAssumption, SMT
<1> QED BY <1>1, SMT DEF Fresh, Channel, ChannelOk, ChannelFields

\* A channel is added; nothing is sent yet.
LEMMA Inserted ==
  ASSUME NEW m, Good(m), NEW c \in CidRange, c \notin DOMAIN m.channels,
         NEW y, NEW psm, NEW far, Fresh(y, psm, far)
  PROVE  /\ Joins(m, Insert(m, c, y), c, psm, far)
         /\ Insert(m, c, y).outbound = m.outbound
<1> DEFINE chs == [d \in DOMAIN m.channels \cup {c} |-> IF d = c THEN y ELSE m.channels[d]]
           m2 == [m EXCEPT !.channels = chs]
<1>1. DOMAIN m = ManagerFields
  BY Zenon DEF Good
<1>2. /\ DOMAIN chs = DOMAIN m.channels \cup {c} /\ chs[c] = y
      /\ \A d \in DOMAIN m.channels : chs[d] = m.channels[d]
  BY Zenon
<1>3. Insert(m, c, y) = m2
  BY Zenon DEF Insert
<1> HIDE DEF chs
<1>4. /\ DOMAIN m2 = ManagerFields /\ m2.identifier = m.identifier /\ m2.outbound = m.outbound /\ m2.channels = chs
  BY <1>1, SMT DEF ManagerFields
<1> HIDE DEF m2
<1>5. Good(m2)
  BY <1>2, <1>4, Zenon DEF Good, Fresh
<1>6. Joins(m, m2, c, psm, far)
  BY <1>2, <1>4, <1>5, Zenon DEF Joins, SameBut, Far, Port, Fresh
<1> QED BY <1>3, <1>4, <1>6, Zenon

\* A channel is added and one PDU sent.
AddsAt(m, m2, n, pdu) ==
    \A i \in 1..Len(m2.outbound) : Old(m, m2, i) \/ (i = n /\ m2.outbound[i] = pdu)
Adds(m, m2, pdu) == \E n : AddsAt(m, m2, n, pdu)

LEMMA JoinsSends ==
  ASSUME NEW m, NEW m1, NEW m2, NEW c, NEW psm, NEW far, NEW pdu,
         Joins(m, m1, c, psm, far), m1.outbound = m.outbound, Sends(m1, m2, pdu)
  PROVE  Joins(m, m2, c, psm, far) /\ Adds(m, m2, pdu)
<1>1. Good(m2) /\ m2.channels = m1.channels
  BY Zenon DEF Sends
<1>2. Joins(m, m2, c, psm, far)
  BY <1>1, Zenon DEF Joins, SameBut, Far, Port
<1> DEFINE n == Len(m1.outbound) + 1
<1>3. \A i \in 1..Len(m2.outbound) : Old(m1, m2, i) \/ (i = n /\ m2.outbound[i] = pdu)
  BY SendsLast, Zenon
<1> HIDE DEF n
<1>4. AddsAt(m, m2, n, pdu)
  BY <1>3, Zenon DEF AddsAt, Old
<1>5. Adds(m, m2, pdu)
  BY <1>4, Zenon DEF Adds
<1> QED BY <1>2, <1>5

LEMMA ConnectConnects ==
  ASSUME NEW m, Good(m), Free(m), NEW psm \in Psms, NEW spec \in ChannelSpecs
  PROVE  \E c : Connected(m, connect(m, psm, spec), c, psm)
<1> DEFINE c == allocate_cid(m)
           y == Channel(psm, spec, 0, "WaitConnectResponse", FALSE)
           m1 == Insert(m, c, y)
           m2 == Request(m1, ConnectionRequest, psm, <<c>>, <<>>)
<1>1. c \in CidRange /\ c \notin DOMAIN m.channels /\ c \in Nat
  BY Allocated, CidsArePositive, Zenon
<1>2. connect(m, psm, spec) = m2
  BY Zenon DEF connect
<1>3. 0 \in Nat
  BY SMT
<1>4. Fresh(y, psm, 0)
  BY <1>3, ChannelIs, Zenon
<1> HIDE DEF c, y
<1>5. Joins(m, m1, c, psm, 0) /\ m1.outbound = m.outbound
  BY <1>1, <1>4, Inserted, Zenon
<1>6. Good(m1)
  BY <1>5, Zenon DEF Joins
<1> HIDE DEF m1
<1>7. ASSUME NEW n \in Nat
      PROVE  /\ Frame(ConnectionRequest, n, psm, <<c>>, <<>>) \in Frames
             /\ OnlyAsks(Control(Frame(ConnectionRequest, n, psm, <<c>>, <<>>)), psm, c)
  <2> DEFINE f == Frame(ConnectionRequest, n, psm, <<c>>, <<>>)
  <2>1. f \in Frames /\ f.code = ConnectionRequest /\ f.psm = psm /\ f.words[1] = c
    BY <1>1, RequestFrame
  <2> HIDE DEF f
  <2>2. Read(Control(f)) = f
    BY <2>1, ControlIs, Zenon
  <2>3. ConnectionRequest # ConnectionResponse
    BY SMT DEF ConnectionRequest, ConnectionResponse
  <2>4. OnlyAsks(Control(f), psm, c)
    BY <2>1, <2>2, <2>3, Zenon DEF OnlyAsks, Asks, Grants
  <2> QED BY <2>1, <2>4, Zenon DEF f
<1>8. PICK n \in Nat : Sends(m1, m2, Control(Frame(ConnectionRequest, n, psm, <<c>>, <<>>)))
  BY <1>6, <1>7, RequestSends, Zenon
<1> DEFINE pdu == Control(Frame(ConnectionRequest, n, psm, <<c>>, <<>>))
<1>9. OnlyAsks(pdu, psm, c) /\ Sends(m1, m2, pdu)
  BY <1>7, <1>8, Zenon
<1> HIDE DEF m2, pdu
<1>10. Joins(m, m2, c, psm, 0) /\ Adds(m, m2, pdu)
  BY <1>5, <1>9, JoinsSends, Zenon
<1>11. PICK k : AddsAt(m, m2, k, pdu)
  BY <1>10, Zenon DEF Adds
<1>12. AsksAt(m, m2, k, psm, c)
  BY <1>9, <1>11, Zenon DEF AddsAt, AsksAt
<1>13. Connected(m, m2, c, psm)
  BY <1>10, <1>12, Zenon DEF Connected
<1> QED BY <1>2, <1>13, Zenon

-----------------------------------------------------------------------------
(* Connection requests *)

LEMMA KeepsSelf ==
  ASSUME NEW m, Good(m)
  PROVE  Keeps(m, m)
  BY Zenon DEF Keeps, Old

LEMMA NumbersIn == 0 \in Nat /\ Success \in Nat /\ Pending \in Nat /\ Refused \in Nat /\ NoResources \in Nat
                   /\ Pending # Success /\ Refused # Success /\ NoResources # Success
  BY SMT DEF Success, Pending, Refused, NoResources

\* A response on the link that this frame is read from: it grants or it does not.
Response(frame, cid, far, result) == IsFrame(frame, ConnectionResponse, <<cid, far, result, 0>>)

LEMMA ResponseIs ==
  ASSUME NEW pdu, NEW frame, Read(pdu) = frame, NEW cid, NEW far, NEW result, Response(frame, cid, far, result)
  PROVE  OnlyGrants(pdu, cid, far)
<1>1. frame.code = ConnectionResponse /\ frame.words = <<cid, far, result, 0>>
  BY Zenon DEF Response, IsFrame
<1>2. frame.words[1] = cid /\ frame.words[2] = far /\ frame.words[3] = result
  BY <1>1
<1>3. ConnectionRequest # ConnectionResponse
  BY SMT DEF ConnectionRequest, ConnectionResponse
<1> QED BY <1>1, <1>2, <1>3, Zenon DEF OnlyGrants, Asks, Grants

LEMMA RefusalIs ==
  ASSUME NEW frame, NEW cid, NEW far, NEW result, result # Success, Response(frame, cid, far, result)
  PROVE  Still(frame)
<1>1. frame.code = ConnectionResponse /\ frame.words = <<cid, far, result, 0>>
  BY Zenon DEF Response, IsFrame
<1>2. frame.words[3] = result
  BY <1>1
<1>3. ConnectionRequest # ConnectionResponse
  BY SMT DEF ConnectionRequest, ConnectionResponse
<1> QED BY <1>1, <1>2, <1>3, Zenon DEF Still

LEMMA RespondSends ==
  ASSUME NEW m, Good(m), NEW frame \in Frames, frame.code = ConnectionRequest,
         NEW cid \in Nat, NEW result \in Nat
  PROVE  \E f : Sends(m, Respond(m, frame, cid, result), Control(f)) /\ Response(f, cid, frame.words[1], result)
<1> DEFINE w == frame.words[1]
           words == <<cid, w, result, 0>>
           f == Frame(frame.code + 1, frame.identifier, 0, words, <<>>)
<1>1. w \in Nat
  BY FrameWords, Zenon
<1>2. Respond(m, frame, cid, result) = Reply(m, frame, words, <<>>)
  BY Zenon DEF Respond
<1> HIDE DEF w
<1>3. words \in Seq(Nat) /\ Len(words) = 4
  BY <1>1, SMT
<1>4. frame.code + 1 = ConnectionResponse /\ Layout(ConnectionResponse).words = 4 /\ <<>> \in Octets
  BY Layouts, SMT DEF ConnectionRequest, ConnectionResponse, Fixed, Octets
<1> HIDE DEF words
<1>5. Sends(m, Reply(m, frame, words, <<>>), Control(f)) /\ IsFrame(f, frame.code + 1, words)
  <2>1. frame.code \in {ConnectionRequest, ConfigureRequest, DisconnectionRequest}
    BY Zenon
  <2>2. Len(words) = Layout(frame.code + 1).words
    BY <1>3, <1>4, Zenon
  <2> QED BY <1>3, <1>4, <2>1, <2>2, ReplySends, Zenon
<1> HIDE DEF f
<1>6. IsFrame(f, ConnectionResponse, words)
  BY <1>4, <1>5, Zenon
<1>7. Response(f, cid, frame.words[1], result)
  BY <1>6, Zenon DEF Response, words, w
<1> QED BY <1>2, <1>5, <1>7, Zenon

\* No channel, for a reason
LEMMA RespondKeeps ==
  ASSUME NEW m, Good(m), NEW frame \in Frames, frame.code = ConnectionRequest,
         NEW result \in Nat, result # Success
  PROVE  Keeps(m, Respond(m, frame, 0, result))
<1> DEFINE zero == 0
           m2 == Respond(m, frame, zero, result)
<1>1. zero \in Nat
  BY SMT
<1> HIDE DEF zero
<1>2. PICK f : Sends(m, m2, Control(f)) /\ Response(f, zero, frame.words[1], result)
  BY <1>1, RespondSends, Zenon
<1> HIDE DEF m2
<1>3. Read(Control(f)) = f
  BY <1>2, ControlIs, Zenon DEF Response, IsFrame
<1>4. Still(f)
  BY <1>2, RefusalIs, Zenon
<1>5. Neutral(Control(f))
  BY <1>3, <1>4, StillNeutral, Zenon
<1>6. Keeps(m, m2)
  BY <1>2, <1>5, SendsKeeps, Zenon
<1> QED BY <1>6, Zenon DEF m2, zero

\* A channel is granted, and then a configuration request sent.
Grant(m, m1, m2, c, psm, w, f1, f2) ==
    /\ Accepted(m, m1, c, psm, w) /\ Keeps(m1, m2)
    /\ Response(f1, c, w, Success) /\ f2 \in Frames
    /\ m2.outbound = Append(Append(m.outbound, Control(f1)), Control(f2))

LEMMA AcceptGrants ==
  ASSUME NEW m, Good(m), NEW frame \in Frames, frame.code = ConnectionRequest, frame.psm \in DOMAIN Servers,
         NEW c \in CidRange, c \notin DOMAIN m.channels, NEW first \in Options
  PROVE  \E m1, f1, f2 : Grant(m, m1, Accept(m, frame, c, first), c, frame.psm, frame.words[1], f1, f2)
<1> DEFINE psm == frame.psm
           w == frame.words[1]
           y == Channel(psm, Servers[psm], w, "Configuring", TRUE)
           m0 == Insert(m, c, y)
           m1 == Respond(m0, frame, c, Success)
           m2 == queue_configure_request(m1, c, first)
<1>1. Accept(m, frame, c, first) = m2
  BY Zenon DEF Accept
<1>2. psm \in Psms /\ Servers[psm] \in ChannelSpecs
  BY SpecAssumption, SMT
<1>3. w \in Nat /\ c \in Nat /\ Success \in Nat
  BY FrameWords, CidsArePositive, NumbersIn, Zenon
<1>4. Fresh(y, psm, w)
  BY <1>2, <1>3, ChannelIs, Zenon
<1> HIDE DEF y
<1>5. Joins(m, m0, c, psm, w) /\ m0.outbound = m.outbound
  BY <1>4, Inserted, Zenon
<1>6. Good(m0)
  BY <1>5, Zenon DEF Joins
<1> HIDE DEF m0
<1>7. PICK f1 : Sends(m0, m1, Control(f1)) /\ Response(f1, c, w, Success)
  BY <1>3, <1>6, RespondSends, Zenon
<1> HIDE DEF m1, psm, w
<1>8. Joins(m, m1, c, psm, w) /\ Adds(m, m1, Control(f1))
  BY <1>5, <1>7, JoinsSends, Zenon
<1>9. OnlyGrants(Control(f1), c, w)
  <2>1. Read(Control(f1)) = f1
    BY <1>7, ControlIs, Zenon DEF Response, IsFrame
  <2> QED BY <1>7, <2>1, ResponseIs, Zenon
<1>10. PICK k : AddsAt(m, m1, k, Control(f1))
  BY <1>8, Zenon DEF Adds
<1>11. GrantsAt(m, m1, k, c, w)
  BY <1>9, <1>10, Zenon DEF AddsAt, GrantsAt
<1>12. Accepted(m, m1, c, psm, w)
  BY <1>8, <1>11, Zenon DEF Accepted
<1>13. Good(m1) /\ c \in DOMAIN m1.channels
  BY <1>8, Zenon DEF Joins
<1>14. PICK f2 \in Frames : Keeps(m1, m2) /\ m2.outbound = Append(m1.outbound, Control(f2))
  BY <1>13, ConfigureRequestKeeps, Zenon
<1>15. m1.outbound = Append(m.outbound, Control(f1))
  BY <1>5, <1>7, Zenon DEF Sends
<1> HIDE DEF m2
<1>16. m2.outbound = Append(Append(m.outbound, Control(f1)), Control(f2))
  BY <1>14, <1>15, Zenon
<1>17. Grant(m, m1, m2, c, psm, w, f1, f2)
  BY <1>7, <1>12, <1>14, <1>16, Zenon DEF Grant
<1>18. \E x1, x2, x3 : Grant(m, x1, m2, c, psm, w, x2, x3)
  BY <1>17, Zenon
<1> QED BY <1>1, <1>18, Zenon DEF psm, w

\* Dropping the last two of a sequence.
EndsWith(t, s, x, y, z) ==
    /\ t[Len(t) - 1] = x /\ t[Len(t)] = y
    /\ SubSeq(t, 1, Len(t) - 2) \o <<z>> = Append(s, z)

LEMMA TwoOff ==
  ASSUME NEW S, NEW s \in Seq(S), NEW x \in S, NEW y \in S, NEW z \in S,
         NEW t, t = Append(Append(s, x), y)
  PROVE  EndsWith(t, s, x, y, z)
<1> DEFINE u == SubSeq(t, 1, Len(t) - 2)
<1>1. /\ t \in Seq(S) /\ Len(t) = Len(s) + 2 /\ t[Len(s) + 1] = x /\ t[Len(s) + 2] = y
      /\ \A i \in 1..Len(s) : t[i] = s[i]
  OBVIOUS
<1>2. Len(s) \in Nat /\ Len(t) - 2 = Len(s) /\ Len(t) - 1 = Len(s) + 1
  BY <1>1, SMT
<1>3. u \in Seq(S) /\ Len(u) = Len(s) /\ \A i \in 1..Len(s) : u[i] = t[i]
  BY <1>1, <1>2, SMT
<1> HIDE DEF u
<1>4. u = s
  BY <1>1, <1>3, SeqEqual, SMT
<1>5. u \o <<z>> = Append(s, z)
  BY <1>4, SMT
<1>6. t[Len(t) - 1] = x /\ t[Len(t)] = y
  BY <1>1, <1>2
<1> QED BY <1>5, <1>6, Zenon DEF u, EndsWith

LEMMA Twice ==
  ASSUME NEW f, NEW a, NEW x, NEW b
  PROVE  [f EXCEPT ![a] = b] = [[f EXCEPT ![a] = x] EXCEPT ![a] = b]
  BY Zenon

\* The two frames in one PDU: the first is what the other side reads.
LEMMA BundledAccepts ==
  ASSUME NEW m, Good(m), NEW m1, NEW m2, NEW c, NEW psm, NEW w, NEW f1, NEW f2,
         Grant(m, m1, m2, c, psm, w, f1, f2)
  PROVE  Accepted(m, Bundled(m2), c, psm, w)
<1> DEFINE s == m.outbound
           t == Append(Append(s, Control(f1)), Control(f2))
           b1 == frame_to_bytes(f1)
           b2 == frame_to_bytes(f2)
           p == Pdu(SignallingCid, b1 \o b2)
           m3 == [m2 EXCEPT !.outbound = s]
           m4 == Bundled(m2)
<1>1. /\ Accepted(m, m1, c, psm, w) /\ Keeps(m1, m2) /\ f1 \in Frames /\ f2 \in Frames
      /\ Response(f1, c, w, Success) /\ m2.outbound = t
  BY Zenon DEF Grant, Response, IsFrame
<1>2. /\ Good(m2) /\ DOMAIN m2.channels = DOMAIN m1.channels
      /\ \A d \in DOMAIN m1.channels : Far(m2, d) = Far(m1, d) /\ Port(m2, d) = Port(m1, d)
  BY <1>1, Zenon DEF Keeps
<1>3. Joins(m, m1, c, psm, w)
  BY <1>1, Zenon DEF Accepted
<1>4. Begins(b1, f1) /\ Begins(b2, f2)
  BY <1>1, FrameOctets, Zenon
<1>5. b1 \in Seq(Nat) /\ b2 \in Seq(Nat)
  BY <1>4, Zenon DEF Begins
<1> HIDE DEF b1, b2
<1>6. Begins(b1 \o b2, f1)
  BY <1>1, <1>4, <1>5, MoreOctets, Zenon
<1>7. Readable(p) /\ Read(p) = f1
  BY <1>1, <1>6, Signal, Zenon
<1>8. /\ DOMAIN m2 = ManagerFields /\ m2.identifier \in Nat /\ s \in Seq(Pdus)
      /\ \A i \in 1..Len(s) : Readable(s[i])
      /\ Control(f1) \in Pdus /\ Control(f2) \in Pdus /\ p \in Pdus
  BY <1>1, <1>2, <1>7, ControlIs, Zenon DEF Good, Readable
<1>9. Control(f1).payload = b1 /\ Control(f2).payload = b2
  BY DEF Control, Pdu, b1, b2
<1>10. /\ t[Len(t) - 1] = Control(f1) /\ t[Len(t)] = Control(f2)
       /\ SubSeq(t, 1, Len(t) - 2) \o <<p>> = Append(s, p)
  <2> DEFINE x == Control(f1)
             y == Control(f2)
  <2>1. x \in Pdus /\ y \in Pdus /\ p \in Pdus /\ s \in Seq(Pdus) /\ t = Append(Append(s, x), y)
    BY <1>8
  <2> HIDE DEF x, y, p, s, t
  <2>2. EndsWith(t, s, x, y, p)
    BY <2>1, TwoOff, Zenon
  <2> QED BY <2>2, Zenon DEF x, y, EndsWith
<1>11. m4 = [m2 EXCEPT !.outbound = SubSeq(m2.outbound, 1, Len(m2.outbound) - 2)
                                     \o <<Pdu(SignallingCid, m2.outbound[Len(m2.outbound) - 1].payload
                                                             \o m2.outbound[Len(m2.outbound)].payload)>>]
  BY DEF Bundled
<1> HIDE DEF t
<1>12. m4 = [m2 EXCEPT !.outbound = Append(s, p)]
  BY <1>1, <1>9, <1>10, <1>11, Zenon
<1> HIDE DEF m4, p, s
<1>13. /\ DOMAIN m3 = ManagerFields /\ m3.identifier = m2.identifier /\ m3.channels = m2.channels /\ m3.outbound = s
       /\ m4 = [m3 EXCEPT !.outbound = Append(@, p)]
  <2>1. /\ DOMAIN m3 = ManagerFields /\ m3.identifier = m2.identifier /\ m3.channels = m2.channels /\ m3.outbound = s
    BY <1>8, SMT DEF ManagerFields
  <2> DEFINE out == Append(s, p)
  <2>2. m4 = [m2 EXCEPT !.outbound = out]
    BY <1>12
  <2> HIDE DEF out
  <2>3. m4 = [m3 EXCEPT !.outbound = out]
    BY <2>2, Twice, Zenon
  <2>4. [m3 EXCEPT !.outbound = Append(@, p)] = [m3 EXCEPT !.outbound = Append(m3.outbound, p)]
    BY Zenon
  <2>5. Append(m3.outbound, p) = out
    BY <2>1, Zenon DEF out
  <2> QED BY <2>1, <2>3, <2>4, <2>5, Zenon
<1> HIDE DEF m3
<1>14. Good(m3)
  BY <1>2, <1>8, <1>13, Zenon DEF Good
<1>15. Sends(m3, m4, p)
  BY <1>7, <1>13, <1>14, Sent, Zenon
<1>16. Joins(m, m3, c, psm, w)
  <2>1. \A d \in DOMAIN m2.channels : Far(m3, d) = Far(m2, d) /\ Port(m3, d) = Port(m2, d)
    BY <1>13, Zenon DEF Far, Port
  <2>2. DOMAIN m3.channels = DOMAIN m1.channels
    BY <1>2, <1>13, Zenon
  <2>3. \A d \in DOMAIN m1.channels : Far(m3, d) = Far(m1, d) /\ Port(m3, d) = Port(m1, d)
    BY <1>2, <2>1, SMT
  <2> QED BY <1>3, <1>14, <2>2, <2>3, SMT DEF Joins, SameBut
<1>17. m3.outbound = m.outbound
  BY <1>13, Zenon DEF s
<1>18. Joins(m, m4, c, psm, w) /\ Adds(m, m4, p)
  BY <1>15, <1>16, <1>17, JoinsSends, Zenon
<1>19. OnlyGrants(p, c, w)
  BY <1>1, <1>7, ResponseIs, Zenon
<1>20. PICK k : AddsAt(m, m4, k, p)
  BY <1>18, Zenon DEF Adds
<1>21. GrantsAt(m, m4, k, c, w)
  BY <1>19, <1>20, Zenon DEF AddsAt, GrantsAt
<1>22. Accepted(m, m4, c, psm, w)
  BY <1>18, <1>21, Zenon DEF Accepted
<1> QED BY <1>22, Zenon DEF m4

\* What a request for psm from w may lead to.
Takes(m, m0, m1, m2, c, psm, w) == Keeps(m, m0) /\ Accepted(m0, m1, c, psm, w) /\ Keeps(m1, m2)
Answers(m, m2, psm, w) == Keeps(m, m2) \/ \E m0, m1, c : Takes(m, m0, m1, m2, c, psm, w)

LEMMA AnswersLater ==
  ASSUME NEW m, NEW m0, NEW m2, NEW psm, NEW w, Keeps(m, m0), Answers(m0, m2, psm, w)
  PROVE  Answers(m, m2, psm, w)
<1>1. CASE Keeps(m0, m2)
  <2>1. Keeps(m, m2)
    BY <1>1, KeepsChain, Zenon
  <2> QED BY <2>1, Zenon DEF Answers
<1>2. ASSUME NEW n0, NEW n1, NEW c, Takes(m0, n0, n1, m2, c, psm, w) PROVE Answers(m, m2, psm, w)
  <2>1. Keeps(m0, n0) /\ Accepted(n0, n1, c, psm, w) /\ Keeps(n1, m2)
    BY <1>2, Zenon DEF Takes
  <2>2. Keeps(m, n0)
    BY <2>1, KeepsChain, Zenon
  <2>3. Takes(m, n0, n1, m2, c, psm, w)
    BY <2>1, <2>2, Zenon DEF Takes
  <2> QED BY <2>3, Zenon DEF Answers
<1> QED BY <1>1, <1>2, Zenon DEF Answers

LEMMA GrantAnswers ==
  ASSUME NEW m, Good(m), NEW m1, NEW m2, NEW c, NEW psm, NEW w, NEW f1, NEW f2,
         Grant(m, m1, m2, c, psm, w, f1, f2)
  PROVE  Answers(m, m2, psm, w) /\ Answers(m, Bundled(m2), psm, w)
<1>1. Accepted(m, m1, c, psm, w) /\ Keeps(m1, m2) /\ Keeps(m, m)
  BY KeepsSelf, Zenon DEF Grant
<1>2. Takes(m, m, m1, m2, c, psm, w)
  BY <1>1, Zenon DEF Takes
<1> DEFINE b == Bundled(m2)
<1>3. Accepted(m, b, c, psm, w)
  BY BundledAccepts, Zenon
<1> HIDE DEF b
<1>4. Good(b)
  BY <1>3, Zenon DEF Accepted, Joins
<1>5. Keeps(b, b)
  BY <1>4, KeepsSelf, Zenon
<1>6. Takes(m, m, b, b, c, psm, w)
  BY <1>1, <1>3, <1>5, Zenon DEF Takes
<1>7. Answers(m, m2, psm, w)
  BY <1>2, Zenon DEF Answers
<1>8. Answers(m, b, psm, w)
  BY <1>6, Zenon DEF Answers
<1> QED BY <1>7, <1>8, Zenon DEF b

LEMMA DecideAnswers ==
  ASSUME NEW m, Good(m), NEW frame \in Frames, frame.code = ConnectionRequest, NEW first \in Options
  PROVE  /\ Answers(m, Decide(m, frame, first), frame.psm, frame.words[1])
         /\ CanAccept(m, frame) => Answers(m, Bundled(Decide(m, frame, first)), frame.psm, frame.words[1])
<1> DEFINE psm == frame.psm
           w == frame.words[1]
           m2 == Decide(m, frame, first)
<1>1. CASE psm \in DOMAIN Servers /\ Free(m)
  <2> DEFINE c == allocate_cid(m)
  <2>1. c \in CidRange /\ c \notin DOMAIN m.channels
    BY <1>1, Allocated, Zenon
  <2>2. m2 = Accept(m, frame, c, first)
    BY <1>1, Zenon DEF Decide
  <2> HIDE DEF c
  <2>3. PICK m1, f1, f2 : Grant(m, m1, Accept(m, frame, c, first), c, psm, w, f1, f2)
    BY <1>1, <2>1, AcceptGrants, Zenon
  <2>4. Grant(m, m1, m2, c, psm, w, f1, f2)
    BY <2>2, <2>3, Zenon
  <2> HIDE DEF m2, psm, w
  <2>5. Answers(m, m2, psm, w) /\ Answers(m, Bundled(m2), psm, w)
    BY <2>4, GrantAnswers, Zenon
  <2> QED BY <2>5, Zenon DEF m2, psm, w
<1>2. CASE ~(psm \in DOMAIN Servers /\ Free(m))
  <2>1. m2 = Respond(m, frame, 0, Refused) \/ m2 = Respond(m, frame, 0, NoResources)
    BY <1>2, Zenon DEF Decide
  <2>2. Keeps(m, Respond(m, frame, 0, Refused)) /\ Keeps(m, Respond(m, frame, 0, NoResources))
    BY RespondKeeps, NumbersIn, Zenon
  <2>3. Keeps(m, m2)
    BY <2>1, <2>2, Zenon
  <2>4. ~CanAccept(m, frame)
    BY <1>2, Zenon DEF CanAccept
  <2> QED BY <2>3, <2>4, Zenon DEF Answers
<1> QED BY <1>1, <1>2, Zenon

HabitSet == [how : Hows, first : Options]

LEMMA OnConnectionRequestAnswers ==
  ASSUME NEW m, Good(m), NEW frame \in Frames, frame.code = ConnectionRequest, NEW habit \in HabitSet
  PROVE  Answers(m, on_connection_request(m, frame, habit), frame.psm, frame.words[1])
<1> DEFINE psm == frame.psm
           w == frame.words[1]
           noted == [m EXCEPT !.unusual = IF habit.how = "answers" THEN @ ELSE @ \cup {habit.how}]
           first == habit.first
           m2 == on_connection_request(m, frame, habit)
           reject == Frame(CommandReject, frame.identifier, 0, <<0>>, <<>>)
<1>1. habit.how \in Hows /\ first \in Options
  BY Zenon DEF HabitSet
<1>2. DOMAIN m = ManagerFields /\ m.identifier \in Nat
  BY Zenon DEF Good
<1>3. Keeps(m, noted)
  <2>1. /\ DOMAIN noted = ManagerFields /\ noted.identifier = m.identifier /\ noted.channels = m.channels
        /\ noted.outbound = m.outbound
    BY <1>2, SMT DEF ManagerFields
  <2> HIDE DEF noted
  <2> QED BY <1>2, <2>1, Untouched, Zenon
<1>4. /\ habit.how = "answers" => m2 = Decide(m, frame, first)
      /\ habit.how = "pending" => m2 = Decide(Respond(noted, frame, 0, Pending), frame, first)
      /\ habit.how = "rejects" => m2 = queue_control(noted, reject)
      /\ habit.how = "bundles" => m2 = IF CanAccept(m, frame) THEN Bundled(Decide(noted, frame, first))
                                       ELSE Decide(noted, frame, first)
  <2> HIDE DEF noted, reject
  <2> QED BY DEF on_connection_request, noted, reject
<1>5. CanAccept(m, frame) => CanAccept(noted, frame)
  <2>1. noted.channels = m.channels
    BY <1>2, SMT DEF ManagerFields
  <2> HIDE DEF noted
  <2> QED BY <2>1, Zenon DEF CanAccept, Free
<1> HIDE DEF first, m2, noted
<1>6. Good(noted)
  BY <1>3, Zenon DEF Keeps
<1>7. CASE habit.how = "answers"
  <2>1. Answers(m, Decide(m, frame, first), psm, w)
    BY <1>1, DecideAnswers, Zenon
  <2> QED BY <1>4, <1>7, <2>1, Zenon DEF m2
<1>8. CASE habit.how = "pending"
  <2> DEFINE m1 == Respond(noted, frame, 0, Pending)
  <2>1. Keeps(noted, m1)
    BY <1>6, RespondKeeps, NumbersIn, Zenon
  <2>2. Keeps(m, m1)
    BY <1>3, <2>1, KeepsChain, Zenon
  <2>3. m2 = Decide(m1, frame, first)
    BY <1>4, <1>8, Zenon
  <2> HIDE DEF m1
  <2>4. Good(m1)
    BY <2>2, Zenon DEF Keeps
  <2>5. Answers(m1, m2, psm, w)
    BY <1>1, <2>3, <2>4, DecideAnswers, Zenon
  <2>6. Answers(m, m2, psm, w)
    BY <2>2, <2>5, AnswersLater, Zenon
  <2> QED BY <2>6, Zenon DEF m2
<1>9. CASE habit.how = "rejects"
  <2>1. reject \in Frames /\ reject.code = CommandReject
    <3>1. /\ CommandReject \in 1..7 /\ CommandReject # ConnectionRequest /\ <<0>> \in Seq(Nat) /\ Len(<<0>>) = 1
          /\ <<>> \in Octets
      BY SMT DEF CommandReject, ConnectionRequest, Octets
    <3>2. Layout(CommandReject).words = 1 /\ Layout(CommandReject).tail # "none"
      BY Layouts, SMT DEF CommandReject, Open
    <3>3. frame.identifier \in Nat
      BY FrameFields, Zenon
    <3> DEFINE words == <<0>>
    <3>4. words \in Seq(Nat) /\ Len(words) = Layout(CommandReject).words
      BY <3>1, <3>2
    <3> HIDE DEF words
    <3>5. IsFrame(Frame(CommandReject, frame.identifier, 0, words, <<>>), CommandReject, words)
      BY <3>1, <3>2, <3>3, <3>4, PlainFrame, Zenon
    <3> QED BY <3>5, Zenon DEF IsFrame, words
  <2>2. m2 = queue_control(noted, reject)
    BY <1>4, <1>9, Zenon
  <2> HIDE DEF reject
  <2>3. CommandReject # ConnectionRequest /\ CommandReject # ConnectionResponse
    BY SMT DEF CommandReject, ConnectionRequest, ConnectionResponse
  <2>4. Still(reject)
    BY <2>1, <2>3, Zenon DEF Still
  <2>5. Keeps(noted, m2)
    BY <1>6, <2>1, <2>2, <2>4, QueuedKeeps, Zenon
  <2>6. Keeps(m, m2)
    BY <1>3, <2>5, KeepsChain, Zenon
  <2> QED BY <2>6, Zenon DEF m2, Answers
<1>10. CASE habit.how = "bundles"
  <2>1. Answers(noted, m2, psm, w)
    <3>1. CASE CanAccept(m, frame)
      <4>1. Answers(noted, Bundled(Decide(noted, frame, first)), psm, w)
        BY <1>1, <1>5, <1>6, <3>1, DecideAnswers, Zenon
      <4>2. m2 = Bundled(Decide(noted, frame, first))
        BY <1>4, <1>10, <3>1, Zenon
      <4> QED BY <4>1, <4>2, Zenon
    <3>2. CASE ~CanAccept(m, frame)
      <4>1. Answers(noted, Decide(noted, frame, first), psm, w)
        BY <1>1, <1>6, DecideAnswers, Zenon
      <4>2. m2 = Decide(noted, frame, first)
        BY <1>4, <1>10, <3>2, Zenon
      <4> QED BY <4>1, <4>2, Zenon
    <3> QED BY <3>1, <3>2, Zenon
  <2>2. Answers(m, m2, psm, w)
    BY <1>3, <2>1, AnswersLater, Zenon
  <2> QED BY <2>2, Zenon DEF m2
<1> QED BY <1>1, <1>7, <1>8, <1>9, <1>10, Zenon DEF Hows

-----------------------------------------------------------------------------
(* Connection responses *)

\* What a grant of near for the channel c leads to.
Joined(m, m1, m2, c, near) == Learned(m, m1, c, near) /\ Keeps(m1, m2)
Learns(m, m2, c, near) == Keeps(m, m2) \/ \E m1 : Joined(m, m1, m2, c, near)

LEMMA OnConnectionResponseLearns ==
  ASSUME NEW m, Good(m), NEW frame \in Frames, frame.code = ConnectionResponse,
         frame.words[2] \in DOMAIN m.channels, NEW habit \in HabitSet
  PROVE  IF frame.words[3] = Success
         THEN Learns(m, on_connection_response(m, frame, habit), frame.words[2], frame.words[1])
         ELSE Keeps(m, on_connection_response(m, frame, habit))
<1> DEFINE cid == frame.words[2]
           near == frame.words[1]
           result == frame.words[3]
           x == m.channels[cid]
           m2 == on_connection_response(m, frame, habit)
           answered == [m EXCEPT !.channels[cid].connection_result = result]
           closed == [answered EXCEPT !.channels[cid].state = "Closed"]
           configuring == [answered EXCEPT !.channels[cid].destination_cid = near,
                                           !.channels[cid].state = "Configuring"]
           y == [x EXCEPT !.connection_result = result]
<1>1. DOMAIN m = ManagerFields /\ m.identifier \in Nat /\ ChannelOk(x) /\ near \in Nat /\ cid \in DOMAIN m.channels
  BY FrameWords, Zenon DEF Good
<1>2. \/ m2 = Fail(m, "response in invalid state")
      \/ result # Success /\ m2 = closed
      \/ result = Success /\ m2 = queue_configure_request(configuring, cid, habit.first)
  BY Zenon DEF on_connection_response
<1> HIDE DEF cid, near, result, m2
<1>3. Alike(x, y)
  BY <1>1, SMT DEF Alike, ChannelOk, ChannelFields
<1>4. /\ DOMAIN answered = ManagerFields /\ answered.identifier = m.identifier /\ answered.outbound = m.outbound
      /\ answered.channels = [m.channels EXCEPT ![cid] = y]
  BY <1>1, SMT DEF ManagerFields
<1> HIDE DEF answered, y
<1>5. Keeps(m, answered)
  BY <1>1, <1>3, <1>4, Edited, Zenon
<1>6. Good(answered) /\ cid \in DOMAIN answered.channels
  BY <1>1, <1>5, Zenon DEF Keeps
<1>7. CASE m2 = Fail(m, "response in invalid state")
  <2>1. Keeps(m, m2)
    BY <1>7, FailKeeps, Zenon
  <2> QED BY <2>1, Zenon DEF Learns, m2
<1>8. CASE result # Success /\ m2 = closed
  <2>1. Keeps(answered, closed)
    BY <1>6, ClosedKeeps, Zenon
  <2>2. Keeps(m, m2)
    BY <1>5, <1>8, <2>1, KeepsChain, Zenon
  <2> QED BY <1>8, <2>2, Zenon DEF result, m2
<1>9. CASE result = Success /\ m2 = queue_configure_request(configuring, cid, habit.first)
  <2> DEFINE a == answered.channels[cid]
             z == [a EXCEPT !.destination_cid = near, !.state = "Configuring"]
  <2>1. ChannelOk(a) /\ DOMAIN answered = ManagerFields
    BY <1>6, Zenon DEF Good
  <2>2. ChannelOk(z) /\ z.psm = a.psm /\ z.destination_cid = near
    BY <1>1, <2>1, SMT DEF ChannelOk, ChannelFields
  <2>3. /\ DOMAIN configuring = ManagerFields /\ configuring.identifier = answered.identifier
        /\ configuring.outbound = answered.outbound
        /\ configuring.channels = [answered.channels EXCEPT ![cid] = z]
    BY <1>6, <2>1, SMT DEF ManagerFields, ChannelOk, ChannelFields
  <2> HIDE DEF z, configuring
  <2>4. /\ DOMAIN configuring.channels = DOMAIN m.channels /\ configuring.channels[cid] = z
        /\ \A d \in DOMAIN m.channels : d # cid => configuring.channels[d] = answered.channels[d]
    <3>1. DOMAIN answered.channels = DOMAIN m.channels
      BY <1>5, Zenon DEF Keeps
    <3> QED BY <1>6, <2>3, <3>1
  <2>5. Good(configuring)
    BY <1>5, <1>6, <2>2, <2>3, <2>4, Zenon DEF Good, Keeps
  <2>6. \A d \in DOMAIN m.channels : Far(answered, d) = Far(m, d) /\ Port(answered, d) = Port(m, d)
    BY <1>5, Zenon DEF Keeps
  <2>7. SameBut(m, configuring, cid)
    BY <2>4, <2>6, Zenon DEF SameBut, Far, Port
  <2>8. Far(configuring, cid) = near /\ Port(configuring, cid) = Port(m, cid)
    BY <1>1, <2>2, <2>4, <2>6, Zenon DEF Far, Port
  <2>9. configuring.outbound = m.outbound
    BY <1>4, <2>3, Zenon
  <2>10. Learned(m, configuring, cid, near)
    BY <1>1, <2>4, <2>5, <2>7, <2>8, <2>9, Zenon DEF Learned, Old
  <2>11. Keeps(configuring, m2)
    <3>1. cid \in DOMAIN configuring.channels /\ habit.first \in Options
      BY <1>1, <2>4, Zenon DEF HabitSet
    <3> QED BY <1>9, <2>5, <3>1, ConfigureRequestKeeps, Zenon
  <2>12. Joined(m, configuring, m2, cid, near)
    BY <2>10, <2>11, Zenon DEF Joined
  <2>13. Learns(m, m2, cid, near)
    BY <2>12, Zenon DEF Learns
  <2> QED BY <1>9, <2>13, Zenon DEF result, m2, cid, near
<1> QED BY <1>2, <1>7, <1>8, <1>9, Zenon

-----------------------------------------------------------------------------
(* A PDU is processed *)

\* What the PDU that m takes may do, to give m2: keep the ends, answer what it asks, or learn what it grants.
TakesRequest(m, m2, pdu, psm, w) == Asks(pdu, psm, w) /\ Answers(m, m2, psm, w)
TakesGrant(m, m0, m2, pdu, near, c) == Grants(pdu, near, c) /\ Keeps(m, m0) /\ Learns(m0, m2, c, near)
Effect(m, m2, pdu) ==
    \/ Keeps(m, m2)
    \/ \E psm, w \in Nat : TakesRequest(m, m2, pdu, psm, w)
    \/ \E near, c \in Nat : \E m0 : TakesGrant(m, m0, m2, pdu, near, c)

LEMMA AnsweredKeeps ==
  ASSUME NEW m, Good(m), NEW asked
  PROVE  Keeps(m, [m EXCEPT !.asked = asked])
<1> DEFINE m2 == [m EXCEPT !.asked = asked]
<1>1. DOMAIN m = ManagerFields /\ m.identifier \in Nat
  BY Zenon DEF Good
<1>2. /\ DOMAIN m2 = ManagerFields /\ m2.identifier = m.identifier /\ m2.channels = m.channels
      /\ m2.outbound = m.outbound
  BY <1>1, SMT DEF ManagerFields
<1> HIDE DEF m2
<1>3. Keeps(m, m2)
  BY <1>1, <1>2, Untouched, Zenon
<1> QED BY <1>3, Zenon DEF m2

LEMMA ControlEffect ==
  ASSUME NEW m, Good(m), NEW pdu, Signals(pdu), NEW frame \in Frames, Read(pdu) = frame, NEW habit \in HabitSet
  PROVE  Effect(m, process_control(m, frame, habit), pdu)
<1> DEFINE m2 == process_control(m, frame, habit)
           final == frame.code = ConnectionResponse => frame.words[3] # Pending
           answered == [m EXCEPT !.asked = IF final THEN @ \ {<<frame.identifier, frame.code>>} ELSE @]
           code == frame.code
<1>1. code \in 1..7
  BY FrameFields, Zenon
<1>2. Keeps(m, answered)
  BY AnsweredKeeps, Zenon
<1>3. m2 = IF code = ConnectionRequest THEN on_connection_request(m, frame, habit)
           ELSE IF code \notin AboutChannel THEN OtherFrame(answered, frame)
           ELSE IF OwnCid(frame) \notin DOMAIN m.channels THEN Fail(m, "unknown CID")
           ELSE CASE code = ConnectionResponse -> on_connection_response(answered, frame, habit)
                  [] code = ConfigureRequest -> on_configure_request(m, frame)
                  [] code = ConfigureResponse -> on_configure_response(answered, frame)
                  [] code = DisconnectionRequest -> on_disconnection_request(m, frame)
                  [] code = DisconnectionResponse -> on_disconnection_response(answered, frame)
  <2> HIDE DEF answered
  <2> QED BY DEF process_control, answered
<1> HIDE DEF m2, answered
<1>4. Good(answered) /\ DOMAIN answered.channels = DOMAIN m.channels
  BY <1>2, Zenon DEF Keeps
<1>5. CASE code = ConnectionRequest
  <2> DEFINE psm == frame.psm
             w == frame.words[1]
  <2>1. Answers(m, m2, psm, w)
    BY <1>3, <1>5, OnConnectionRequestAnswers, Zenon
  <2>2. psm \in Nat /\ w \in Nat
    <3>1. psm \in Ports16 /\ w \in Nat
      BY <1>5, FrameWords, FrameFields, Zenon
    <3>2. Ports16 \subseteq Nat
      BY SMT DEF Ports16
    <3> QED BY <3>1, <3>2, Zenon
  <2>3. Asks(pdu, psm, w)
    BY <1>5, Zenon DEF Asks
  <2> HIDE DEF psm, w
  <2>4. TakesRequest(m, m2, pdu, psm, w)
    BY <2>1, <2>3, Zenon DEF TakesRequest
  <2> QED BY <2>2, <2>4, Zenon DEF Effect, m2
<1>6. CASE code # ConnectionRequest /\ code \notin AboutChannel
  <2>1. OtherFrame(answered, frame) = answered
    <3>1. code # EchoRequest /\ code # InformationRequest /\ code # InformationResponse
      BY <1>1, SMT DEF EchoRequest, InformationRequest, InformationResponse
    <3> QED BY <3>1 DEF OtherFrame
  <2>2. m2 = answered
    BY <1>3, <1>6, <2>1, Zenon
  <2> QED BY <1>2, <2>2, Zenon DEF Effect, m2
<1>7. CASE code \in AboutChannel /\ OwnCid(frame) \notin DOMAIN m.channels
  <2>1. code # ConnectionRequest
    BY <1>7, SMT DEF AboutChannel, ConnectionRequest, ConnectionResponse, ConfigureRequest, ConfigureResponse,
                     DisconnectionRequest, DisconnectionResponse
  <2>2. m2 = Fail(m, "unknown CID")
    BY <1>3, <1>7, <2>1, Zenon
  <2>3. Keeps(m, m2)
    BY <2>2, FailKeeps, Zenon
  <2> QED BY <2>3, Zenon DEF Effect, m2
<1>8. ASSUME code # ConnectionRequest, code \in AboutChannel, OwnCid(frame) \in DOMAIN m.channels
      PROVE  Effect(m, m2, pdu)
  <2>1. /\ code = ConnectionResponse => m2 = on_connection_response(answered, frame, habit)
        /\ code = ConfigureRequest => m2 = on_configure_request(m, frame)
        /\ code = ConfigureResponse => m2 = on_configure_response(answered, frame)
        /\ code = DisconnectionRequest => m2 = on_disconnection_request(m, frame)
        /\ code = DisconnectionResponse => m2 = on_disconnection_response(answered, frame)
    <3>1. m2 = CASE code = ConnectionResponse -> on_connection_response(answered, frame, habit)
                  [] code = ConfigureRequest -> on_configure_request(m, frame)
                  [] code = ConfigureResponse -> on_configure_response(answered, frame)
                  [] code = DisconnectionRequest -> on_disconnection_request(m, frame)
                  [] code = DisconnectionResponse -> on_disconnection_response(answered, frame)
      BY <1>3, <1>8, Zenon
    <3> HIDE DEF code
    <3> QED BY <3>1, SMT DEF ConnectionResponse, ConfigureRequest, ConfigureResponse,
                             DisconnectionRequest, DisconnectionResponse
  <2>2. /\ code = ConnectionResponse => frame.words[2] \in DOMAIN m.channels
        /\ code = ConfigureRequest => frame.words[1] \in DOMAIN m.channels
        /\ code = ConfigureResponse => frame.words[1] \in DOMAIN m.channels
        /\ code = DisconnectionRequest => frame.words[1] \in DOMAIN m.channels
        /\ code = DisconnectionResponse => frame.words[2] \in DOMAIN m.channels
    <3>1. OwnCid(frame) = IF code \in {ConnectionResponse, DisconnectionResponse} THEN frame.words[2]
                          ELSE frame.words[1]
      BY SMT DEF OwnCid
    <3> HIDE DEF code
    <3> QED BY <1>8, <3>1, SMT DEF ConnectionResponse, ConfigureRequest, ConfigureResponse,
                             DisconnectionRequest, DisconnectionResponse
  <2>3. CASE code = ConnectionResponse
    <3> DEFINE near == frame.words[1]
               c == frame.words[2]
    <3>1. near \in Nat /\ c \in Nat
      BY <2>3, FrameWords, Zenon
    <3>2. c \in DOMAIN answered.channels /\ m2 = on_connection_response(answered, frame, habit)
      BY <1>4, <2>1, <2>2, <2>3, Zenon
    <3>3. IF frame.words[3] = Success THEN Learns(answered, m2, c, near) ELSE Keeps(answered, m2)
      BY <1>4, <2>3, <3>2, OnConnectionResponseLearns, Zenon
    <3>4. CASE frame.words[3] = Success
      <4>1. Grants(pdu, near, c)
        BY <2>3, <3>4, Zenon DEF Grants
      <4> HIDE DEF near, c
      <4>2. TakesGrant(m, answered, m2, pdu, near, c)
        BY <1>2, <3>3, <3>4, <4>1, Zenon DEF TakesGrant
      <4> QED BY <3>1, <4>2, Zenon DEF Effect
    <3>5. CASE frame.words[3] # Success
      <4>1. Keeps(m, m2)
        BY <1>2, <3>3, <3>5, KeepsChain, Zenon
      <4> QED BY <4>1, Zenon DEF Effect
    <3> QED BY <3>4, <3>5
  <2>4. CASE code = ConfigureRequest
    <3>1. Keeps(m, m2)
      BY <2>1, <2>2, <2>4, OnConfigureRequestKeeps, Zenon
    <3> QED BY <3>1, Zenon DEF Effect
  <2>5. CASE code = ConfigureResponse
    <3>1. Keeps(answered, m2)
      BY <1>4, <2>1, <2>2, <2>5, OnConfigureResponseKeeps, Zenon
    <3>2. Keeps(m, m2)
      BY <1>2, <3>1, KeepsChain, Zenon
    <3> QED BY <3>2, Zenon DEF Effect
  <2>6. CASE code = DisconnectionRequest
    <3>1. Keeps(m, m2)
      BY <2>1, <2>2, <2>6, OnDisconnectionRequestKeeps, Zenon
    <3> QED BY <3>1, Zenon DEF Effect
  <2>7. CASE code = DisconnectionResponse
    <3>1. Keeps(answered, m2)
      BY <1>4, <2>1, <2>2, <2>7, OnDisconnectionResponseKeeps, Zenon
    <3>2. Keeps(m, m2)
      BY <1>2, <3>1, KeepsChain, Zenon
    <3> QED BY <3>2, Zenon DEF Effect
  <2> QED BY <1>8, <2>3, <2>4, <2>5, <2>6, <2>7, Zenon DEF AboutChannel
<1> QED BY <1>5, <1>6, <1>7, <1>8, Zenon DEF m2

LEMMA FrameNotInvalid ==
  ASSUME NEW frame \in Frames
  PROVE  frame # Invalid
<1>1. frame \in [code : 1..7, identifier : Nat, psm : Ports16, words : Seq(Nat), data : Octets]
  BY Zenon DEF Frames
<1>2. DOMAIN frame = {"code", "identifier", "psm", "words", "data"}
  BY <1>1
<1>3. DOMAIN Invalid = {"invalid"}
  BY DEF Invalid
<1> QED BY <1>2, <1>3

LEMMA PduEffect ==
  ASSUME NEW m, Good(m), NEW pdu, Readable(pdu), NEW habit \in HabitSet
  PROVE  Effect(m, process_pdu(m, pdu, habit), pdu)
<1> DEFINE m2 == process_pdu(m, pdu, habit)
           frame == frame_from_bytes(pdu.payload)
<1>1. CASE pdu.cid = SignallingCid
  <2>1. Signals(pdu) /\ Read(pdu) = frame
    BY <1>1, Zenon DEF Signals, Read
  <2>2. frame \in Frames
    BY <2>1, Zenon DEF Readable
  <2>3. frame # Invalid
    BY <2>2, FrameNotInvalid, Zenon
  <2>4. m2 = process_control(m, frame, habit)
    BY <1>1, <2>3, Zenon DEF process_pdu, on_frame
  <2> HIDE DEF frame, m2
  <2>5. Effect(m, m2, pdu)
    BY <2>1, <2>2, <2>4, ControlEffect, Zenon
  <2> QED BY <2>5, Zenon DEF m2
<1>2. CASE pdu.cid # SignallingCid
  <2>1. Keeps(m, m2)
    <3>1. CASE pdu.cid \notin DOMAIN m.channels
      <4>1. m2 = Fail(m, "unknown CID")
        BY <1>2, <3>1, Zenon DEF process_pdu
      <4> QED BY <4>1, FailKeeps, Zenon
    <3>2. CASE pdu.cid \in DOMAIN m.channels
      <4>1. m2 = on_data(m, pdu.cid, pdu.payload)
        BY <1>2, <3>2, Zenon DEF process_pdu
      <4> QED BY <3>2, <4>1, OnDataKeeps, Zenon
    <3> QED BY <3>1, <3>2
  <2> QED BY <2>1, Zenon DEF Effect
<1> QED BY <1>1, <1>2

-----------------------------------------------------------------------------
(* The ends after a PDU *)

LEMMA StillWants ==
  ASSUME NEW o, NEW m, NEW m0, NEW psm, NEW w, Wants(o, m, psm, w), Keeps(m, m0)
  PROVE  Wants(o, m0, psm, w)
<1>1. \A d \in DOMAIN m0.channels : Far(m0, d) # w
  BY SMT DEF Wants, Keeps
<1> QED BY <1>1, Zenon DEF Wants

LEMMA StillGives ==
  ASSUME NEW o, NEW m, NEW m0, NEW near, NEW c, Gives(o, m, near, c), Keeps(m, m0)
  PROVE  Gives(o, m0, near, c)
<1>1. c \in DOMAIN m0.channels /\ Far(m0, c) = 0
  BY SMT DEF Gives, Keeps
<1> QED BY <1>1, Zenon DEF Gives

LEMMA EffectPair ==
  ASSUME NEW m, NEW o, NEW m2, Half(m, o), Half(o, m), o.outbound # <<>>, Effect(m, m2, Head(o.outbound))
  PROVE  Half(m2, Taken(o)) /\ Half(Taken(o), m2)
<1> DEFINE t == Taken(o)
           pdu == Head(o.outbound)
           Goal == Half(m2, t) /\ Half(t, m2)
<1>1. /\ Half(m, t) /\ Half(t, m)
      /\ \A x, y \in Nat : Asks(pdu, x, y) => Wants(t, m, x, y)
      /\ \A x, y \in Nat : Grants(pdu, x, y) => Gives(t, m, x, y)
  BY TakenPair, Zenon
<1> HIDE DEF t, pdu
<1>2. ASSUME Keeps(m, m2) PROVE Goal
  BY <1>1, <1>2, KeptPair, Zenon
<1>3. ASSUME NEW psm \in Nat, NEW w \in Nat, TakesRequest(m, m2, pdu, psm, w) PROVE Goal
  <2>1. Wants(t, m, psm, w) /\ Answers(m, m2, psm, w)
    BY <1>1, <1>3, Zenon DEF TakesRequest
  <2>2. ASSUME NEW m0, NEW m1, NEW c, Takes(m, m0, m1, m2, c, psm, w) PROVE Goal
    <3>1. Keeps(m, m0) /\ Accepted(m0, m1, c, psm, w) /\ Keeps(m1, m2)
      BY <2>2, Zenon DEF Takes
    <3>2. Half(m0, t) /\ Half(t, m0)
      BY <1>1, <3>1, KeptPair, Zenon
    <3>3. Wants(t, m0, psm, w)
      BY <2>1, <3>1, StillWants, Zenon
    <3>4. Half(m1, t) /\ Half(t, m1)
      BY <3>1, <3>2, <3>3, AcceptedPair, Zenon
    <3> QED BY <3>1, <3>4, KeptPair, Zenon
  <2> HIDE DEF Goal
  <2> QED BY <1>2, <2>1, <2>2, Zenon DEF Answers
<1>4. ASSUME NEW near \in Nat, NEW c \in Nat, NEW m0, TakesGrant(m, m0, m2, pdu, near, c) PROVE Goal
  <2>1. Gives(t, m, near, c) /\ Keeps(m, m0) /\ Learns(m0, m2, c, near)
    BY <1>1, <1>4, Zenon DEF TakesGrant
  <2>2. Half(m0, t) /\ Half(t, m0)
    BY <1>1, <2>1, KeptPair, Zenon
  <2>3. Gives(t, m0, near, c)
    BY <2>1, StillGives, Zenon
  <2>4. ASSUME Keeps(m0, m2) PROVE Goal
    BY <2>2, <2>4, KeptPair, Zenon
  <2>5. ASSUME NEW m1, Joined(m0, m1, m2, c, near) PROVE Goal
    <3>1. Learned(m0, m1, c, near) /\ Keeps(m1, m2)
      BY <2>5, Zenon DEF Joined
    <3>2. Half(m1, t) /\ Half(t, m1)
      BY <2>2, <2>3, <3>1, LearnedPair, Zenon
    <3> QED BY <3>1, <3>2, KeptPair, Zenon
  <2> HIDE DEF Goal
  <2> QED BY <2>1, <2>4, <2>5, Zenon DEF Learns
<1>5. Effect(m, m2, pdu)
  BY Zenon DEF pdu
<1>6. Goal
  <2> HIDE DEF Goal
  <2> QED BY <1>2, <1>3, <1>4, <1>5, Zenon DEF Effect
<1> QED BY <1>6, Zenon DEF t

-----------------------------------------------------------------------------
(* Steps of the two sides *)

LEMMA OtherSide ==
  ASSUME NEW e \in Sides
  PROVE  Other(e) \in Sides /\ Other(e) # e /\ Other(Other(e)) = e /\ \A d \in Sides : d = e \/ d = Other(e)
  BY DEF Sides, Other

Both == DOMAIN manager = Sides /\ PairInv

\* One side has changed, and the other with it or not.
LEMMA PairAgain ==
  ASSUME NEW e \in Sides, DOMAIN manager' = Sides,
         Half(manager'[e], manager'[Other(e)]), Half(manager'[Other(e)], manager'[e])
  PROVE  Both'
<1>1. \A d \in Sides : Half(manager'[d], manager'[Other(d)])
  BY OtherSide, Zenon
<1> QED BY <1>1, Zenon DEF Both, PairInv

LEMMA OneSide ==
  ASSUME NEW e \in Sides, DOMAIN manager = Sides, NEW m2, manager' = [manager EXCEPT ![e] = m2],
         Half(m2, manager[Other(e)]), Half(manager[Other(e)], m2)
  PROVE  Both'
<1>1. /\ DOMAIN manager' = Sides /\ manager'[e] = m2 /\ manager'[Other(e)] = manager[Other(e)]
  BY OtherSide
<1> QED BY <1>1, PairAgain, Zenon

LEMMA PairInit == Init => Both
<1> SUFFICES ASSUME Init PROVE Both
  OBVIOUS
<1>1. DOMAIN manager = Sides /\ \A e \in Sides : manager[e] = New
  BY Zenon DEF Init
<1>2. /\ DOMAIN New = ManagerFields /\ New.identifier = 0 /\ New.channels = <<>> /\ New.outbound = <<>>
  BY SMT DEF New, ManagerFields
<1>3. DOMAIN New.channels = {} /\ 0 \in Nat
  BY <1>2
<1>4. New.outbound \in Seq(Pdus) /\ 1..Len(New.outbound) = {}
  BY <1>2
<1>5. Half(New, New)
  BY <1>2, <1>3, <1>4, Zenon DEF Half, Good, Matched, Distinct, Requested, Granted
<1>6. \A e \in Sides : Half(manager[e], manager[Other(e)])
  BY <1>1, <1>5, OtherSide, Zenon
<1> QED BY <1>1, <1>6, Zenon DEF Both, PairInv

LEMMA ConnectStep ==
  ASSUME Both, NEW e \in Sides, Connect(e)
  PROVE  Both'
<1> DEFINE m == manager[e]
           o == manager[Other(e)]
<1>1. Half(m, o) /\ Half(o, m) /\ DOMAIN manager = Sides
  BY OtherSide, Zenon DEF Both, PairInv
<1>2. PICK client \in Clients[e] : manager' = [manager EXCEPT ![e] = connect(m, client[1], client[2])]
  BY Zenon DEF Connect
<1>3. client[1] \in Psms /\ client[2] \in ChannelSpecs
  <2>1. Clients[e] \subseteq Psms \X ChannelSpecs
    BY SpecAssumption
  <2> QED BY <2>1
<1> DEFINE m2 == connect(m, client[1], client[2])
<1>4. Free(m) /\ Good(m)
  BY <1>1, Zenon DEF Connect, Half
<1>5. PICK c : Connected(m, m2, c, client[1])
  BY <1>3, <1>4, ConnectConnects, Zenon
<1> HIDE DEF m2, m, o
<1>6. Half(m2, o) /\ Half(o, m2)
  BY <1>1, <1>5, ConnectedPair, Zenon
<1> QED BY <1>1, <1>2, <1>6, OneSide, Zenon DEF m2, m, o

\* A step of one side that keeps the ends of its channels.
LEMMA KeepingStep ==
  ASSUME Both, NEW e \in Sides, NEW m2, Keeps(manager[e], m2), manager' = [manager EXCEPT ![e] = m2]
  PROVE  Both'
<1>1. Half(manager[e], manager[Other(e)]) /\ Half(manager[Other(e)], manager[e]) /\ DOMAIN manager = Sides
  BY OtherSide, Zenon DEF Both, PairInv
<1>2. Half(m2, manager[Other(e)]) /\ Half(manager[Other(e)], m2)
  BY <1>1, KeptPair, Zenon
<1> QED BY <1>1, <1>2, OneSide, Zenon

LEMMA SendStep ==
  ASSUME Both, NEW e \in Sides, Send(e)
  PROVE  Both'
<1> DEFINE m == manager[e]
           o == manager[Other(e)]
<1>1. Half(m, o) /\ Half(o, m) /\ Good(m) /\ Good(o)
  BY OtherSide, Zenon DEF Both, PairInv, Half
<1>2. PICK cid \in OpenCids(e), size \in Sizes : manager' = [manager EXCEPT ![e] = send(m, cid, [i \in 1..size |-> i])]
  BY Zenon DEF Send
<1> DEFINE sdu == [i \in 1..size |-> i]
<1>3. cid \in DOMAIN m.channels
  BY Zenon DEF OpenCids
<1>4. size \in Nat
  BY BoundAssumption
<1>5. sdu \in Seq(Nat)
  BY <1>4
<1>6. Far(m, cid) # SignallingCid
  <2>1. Far(m, cid) # 0 => Far(m, cid) \in CidRange
    BY <1>1, <1>3, Zenon DEF Half, Matched, Good
  <2>2. SignallingCid \notin CidRange /\ SignallingCid # 0
    BY CidAssumption, BoundAssumption, SMT DEF CidRange, SignallingCid
  <2> QED BY <2>1, <2>2, Zenon
<1> HIDE DEF sdu
<1>7. Keeps(m, send(m, cid, sdu))
  BY <1>1, <1>3, <1>5, <1>6, SendKeeps, Zenon DEF Far
<1>8. manager' = [manager EXCEPT ![e] = send(m, cid, sdu)]
  BY <1>2, Zenon DEF sdu
<1> QED BY <1>7, <1>8, KeepingStep, Zenon

LEMMA DisconnectStep ==
  ASSUME Both, NEW e \in Sides, Disconnect(e)
  PROVE  Both'
<1> DEFINE m == manager[e]
<1>1. Good(m)
  BY Zenon DEF Both, PairInv, Half
<1>2. PICK cid \in OpenCids(e) : manager' = [manager EXCEPT ![e] = disconnect(m, cid)]
  BY Zenon DEF Disconnect
<1>3. cid \in DOMAIN m.channels
  BY Zenon DEF OpenCids
<1>4. Keeps(m, disconnect(m, cid))
  BY <1>1, <1>3, DisconnectKeeps, Zenon
<1> QED BY <1>2, <1>4, KeepingStep, Zenon

LEMMA HabitIn ==
  ASSUME NEW e, NEW habit \in HabitsOf(e)
  PROVE  habit \in HabitSet
<1>1. Habits \subseteq HabitSet
  BY HabitAssumption, Zenon DEF HabitSet, Options
<1>2. Plain \in HabitSet
  BY NoOption, SMT DEF Plain, HabitSet, Hows
<1> QED BY <1>1, <1>2, Zenon DEF HabitsOf

LEMMA ReceiveStep ==
  ASSUME Both, NEW e \in Sides, Receive(e)
  PROVE  Both'
<1> DEFINE m == manager[e]
           o == manager[Other(e)]
           pdu == Head(o.outbound)
<1>1. Half(m, o) /\ Half(o, m) /\ Good(m) /\ Good(o) /\ DOMAIN manager = Sides
  BY OtherSide, Zenon DEF Both, PairInv, Half
<1>2. /\ o.outbound # <<>>
      /\ \E habit \in HabitsOf(e) : manager' = [manager EXCEPT ![e] = process_pdu(m, pdu, habit),
                                                               ![Other(e)].outbound = Tail(@)]
  BY Zenon DEF Receive
<1>3. PICK habit \in HabitsOf(e) : manager' = [manager EXCEPT ![e] = process_pdu(m, pdu, habit),
                                                               ![Other(e)].outbound = Tail(@)]
  BY <1>2, Zenon
<1> DEFINE m2 == process_pdu(m, pdu, habit)
<1>4. habit \in HabitSet
  BY HabitIn, Zenon
<1>5. Readable(pdu)
  <2>1. 1 \in 1..Len(o.outbound) /\ pdu = o.outbound[1]
    <3> HIDE DEF o
    <3> QED BY <1>1, <1>2, TakenIs, Zenon DEF pdu
  <2>2. \A i \in 1..Len(o.outbound) : Readable(o.outbound[i])
    BY <1>1, Zenon DEF Good
  <2> QED BY <2>1, <2>2, Zenon
<1>6. Effect(m, m2, pdu)
  BY <1>1, <1>4, <1>5, PduEffect, Zenon
<1> HIDE DEF m2
<1>7. Half(m2, Taken(o)) /\ Half(Taken(o), m2)
  BY <1>1, <1>2, <1>6, EffectPair, Zenon
<1>8. DOMAIN manager' = Sides /\ manager'[e] = m2 /\ manager'[Other(e)] = Taken(o)
  BY <1>1, <1>3, OtherSide, Zenon DEF m2, Taken
<1> QED BY <1>7, <1>8, PairAgain, Zenon

\* The invariant of the proof: what the two ends of the link know of each other's channels, with the
\* requests and the answers on their way between the two ChannelManagers.
THEOREM PairInvariant == Spec => []Both
<1>1. ASSUME Both, [Next]_vars PROVE Both'
  <2>1. CASE UNCHANGED vars
    <3>1. manager' = manager
      BY <2>1 DEF vars
    <3>2. \A e \in Sides : Half(manager[e], manager[Other(e)])
      BY <1>1, Zenon DEF Both, PairInv
    <3>3. \A e \in Sides : Half(manager'[e], manager'[Other(e)])
      BY <3>1, <3>2, Zenon
    <3>4. DOMAIN manager' = Sides
      BY <1>1, <3>1, Zenon DEF Both
    <3> QED BY <3>3, <3>4, Zenon DEF Both, PairInv
  <2>2. CASE Next
    BY <1>1, <2>2, ConnectStep, SendStep, DisconnectStep, ReceiveStep, Zenon DEF Next
  <2> QED BY <1>1, <2>1, <2>2
<1>2. Init => Both
  BY PairInit
<1> QED BY <1>1, <1>2, PTL DEF Spec

\* Channels are joined in pairs (Paired): the channel at the other end of one of this side's has this one
\* as its own other end or none yet, and both are for the same port, whatever the order in which the
\* requests and answers of the two ChannelManagers cross, and whatever legal habit the peer shows.
THEOREM ChannelsArePaired == Spec => []Paired
<1>1. Both => Paired
  <2> SUFFICES ASSUME Both, NEW e \in Sides, NEW cid \in DOMAIN Channels(e),
                      Channels(e)[cid].destination_cid # 0
               PROVE  LET far == Channels(e)[cid].destination_cid
                      IN  /\ far \in DOMAIN Channels(Other(e))
                          /\ Channels(Other(e))[far].psm = Channels(e)[cid].psm
                          /\ Channels(Other(e))[far].destination_cid \in {0, cid}
    BY DEF Paired
  <2>1. Matched(manager[e], manager[Other(e)])
    BY Zenon DEF Both, PairInv, Half
  <2> DEFINE m == manager[e]
             o == manager[Other(e)]
  <2>2. Channels(e) = m.channels /\ Channels(Other(e)) = o.channels
    BY Zenon DEF Channels
  <2>3. cid \in DOMAIN m.channels /\ m.channels[cid].destination_cid # 0
    BY <2>2, Zenon
  <2> HIDE DEF m, o
  <2>4. LET far == m.channels[cid].destination_cid
        IN  /\ far \in DOMAIN o.channels /\ o.channels[far].psm = m.channels[cid].psm
            /\ o.channels[far].destination_cid \in {0, cid}
    BY <2>1, <2>3, Zenon DEF Matched, Far, Port, m, o
  <2> QED BY <2>2, <2>4, Zenon
<1> QED BY <1>1, PairInvariant, PTL

==============================================================================
