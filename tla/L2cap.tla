-------------------------------- MODULE L2cap --------------------------------
(***************************************************************************)
(* Classic L2CAP channels: the ChannelManagers of l2cap/classic.rs at the   *)
(* two ends of an ACL link, which is reliable and keeps the order of PDUs.  *)
(* Either side may open, use and close channels at any time, so requests    *)
(* cross. The PDUs on the link are the octets that L2capFrames defines.     *)
(*                                                                         *)
(* Side "a" is this code. Side "b" has servers and clients of its own with  *)
(* the same handlers, and some habits of other stacks (Habits), all of them *)
(* legal: it may answer a connection request with "pending" before it       *)
(* answers it, reject it, put the answer and its first configuration        *)
(* request into one PDU, or begin with a configuration request that has to  *)
(* be refused.                                                              *)
(***************************************************************************)
EXTENDS L2capManager, FiniteSets

CONSTANTS Psms,        \* service ports
          Clients,     \* for each side the <<port, ChannelSpec>> its clients ask for
          Habits,      \* what side "b" may do: see Plain
          Sizes,       \* bound: sizes of an SDU
          MaxSdus      \* bound: SDUs each side sends

Sides == {"a", "b"}
Other(e) == IF e = "a" THEN "b" ELSE "a"

\* validate_spec, validate_psm: what connect and register_server accept. A longer
\* PSM that validate_psm accepts has even octets only, and parse_psm stops at the
\* second of them: no such port can be reached, and the crate has none.
ASSUME SpecAssumption ==
    /\ Clients \in [Sides -> SUBSET (Psms \X ChannelSpecs)]
    /\ \A psm \in Psms : psm \in Nat /\ psm < 65536 /\ validate_psm(psm)
    /\ DOMAIN Servers \subseteq Psms /\ \A psm \in DOMAIN Servers : Servers[psm] \in ChannelSpecs
ASSUME BoundAssumption == \A n \in {LastCid, MinMtu, MaxSdus} \cup Sizes : n \in Nat /\ n < 65536
ASSUME CidAssumption == FirstCid \in Nat /\ FirstCid > SignallingCid
ASSUME HabitAssumption == Habits \subseteq [how : Hows, first : Seq(ConfigurationOptions)]

VARIABLES manager,  \* the two ChannelManagers
          sdus      \* how many SDUs each side has sent

vars == <<manager, sdus>>

-----------------------------------------------------------------------------
(* Steps of the two sides *)

Init ==
    /\ manager = [e \in Sides |-> New]
    /\ sdus = [e \in Sides |-> 0]

Ready(e) == manager[e].error = "none"
OpenCids(e) == {cid \in DOMAIN manager[e].channels : manager[e].channels[cid].state = "Open"}

\* connect fails without any effect when no CID is left.
Connect(e) ==
    /\ Ready(e) /\ Free(manager[e])
    /\ \E client \in Clients[e] : manager' = [manager EXCEPT ![e] = connect(@, client[1], client[2])]
    /\ UNCHANGED sdus

\* send: an SDU no longer than the peer's MTU on an open channel.
Send(e) ==
    /\ Ready(e) /\ sdus[e] < MaxSdus
    /\ \E cid \in OpenCids(e), size \in Sizes :
        /\ size <= manager[e].channels[cid].peer_mtu
        /\ manager' = [manager EXCEPT ![e] = send(@, cid, [i \in 1..size |-> i])]
    /\ sdus' = [sdus EXCEPT ![e] = @ + 1]

Disconnect(e) ==
    /\ Ready(e)
    /\ \E cid \in OpenCids(e) : manager' = [manager EXCEPT ![e] = disconnect(@, cid)]
    /\ UNCHANGED sdus

\* Side "b" shows one habit at most, in one of its answers.
HabitsOf(e) == IF e = "b" /\ manager[e].unusual = {} THEN Habits \cup {Plain} ELSE {Plain}

Receive(e) ==
    LET from == manager[Other(e)].outbound IN
    /\ Ready(e) /\ from # <<>>
    /\ \E habit \in HabitsOf(e) :
        manager' = [manager EXCEPT ![e] = process_pdu(@, Head(from), habit),
                                   ![Other(e)].outbound = Tail(@)]
    /\ UNCHANGED sdus

Next == \E e \in Sides : Connect(e) \/ Send(e) \/ Disconnect(e) \/ Receive(e)

\* Weak fairness of Receive, with its enabling condition written out: the link
\* delivers what is queued.
CanReceive(e) == Ready(e) /\ manager[Other(e)].outbound # <<>>
Fairness == \A e \in Sides : []<>(~CanReceive(e)) \/ []<><<Receive(e)>>_vars

Spec == Init /\ [][Next]_vars /\ Fairness

-----------------------------------------------------------------------------
(* Properties *)

Channels(e) == manager[e].channels
AllOk == \A e \in Sides : Ready(e)

\* Two managers never find each other's PDUs invalid, however their requests
\* cross: every frame parses, data is sent only when the other side is open,
\* and within its MTU. The exceptions are data that meets a channel which its
\* receiver is closing or whose configuration it refused, and the response that
\* follows a "pending" one.
NoInvalidPacket ==
    \A e \in Sides :
        \/ manager[e].error \in {"none", "closing", "refused"}
        \/ manager[e].error = "response in invalid state" /\ "pending" \in manager[Other(e)].unusual

\* Every response on its way answers a request that its receiver made and that
\* is still open, with its identifier: a peer that checks identifiers, as this
\* code does not, would accept it. A peer that said "pending" answers twice.
Responses == {3, 5, 7, 9, 11}
ResponsesMatch ==
    AllOk => \A e \in Sides : \A i \in DOMAIN manager[e].outbound :
        LET pdu == manager[e].outbound[i]
            frame == frame_from_bytes(pdu.payload)
        IN  (pdu.cid = SignallingCid /\ frame.code \in Responses) =>
                <<frame.identifier, frame.code>> \in manager[Other(e)].asked

\* Channels are joined in pairs: the channel at the other end has this one as
\* its own other end, and both are for the same port.
Paired ==
    \A e \in Sides : \A cid \in DOMAIN Channels(e) :
        LET channel == Channels(e)[cid]
            far == channel.destination_cid
        IN  far # 0 =>
              /\ far \in DOMAIN Channels(Other(e))
              /\ Channels(Other(e))[far].psm = channel.psm
              /\ Channels(Other(e))[far].destination_cid \in {0, cid}

Quiet == \A e \in Sides : manager[e].outbound = <<>>

\* The peer has sent what this side passes over: a rejection of its request, or
\* a second frame in a PDU.
Unread == manager["b"].unusual \cap {"rejects", "bundles"} # {}

\* Once nothing is under way, no channel is left half-way, and the two ends are
\* both open or both closed, unless one of them refused the mode the other asked
\* for: it closes its end without a word, so a side that asks again may find the
\* channel open. Tentative requests that name a bad option or MTU do no harm; a
\* peer that sends what this side does not read leaves channels half-way.
EndsAgree ==
    AllOk /\ Quiet =>
        \A e \in Sides : \A cid \in DOMAIN Channels(e) :
            LET channel == Channels(e)[cid]
                far == Channels(Other(e))[channel.destination_cid]
            IN  /\ channel.state \in {"Open", "Closed"} \/ Unread
                /\ channel.state = "Open" =>
                     far.state = "Open" \/ (far.state = "Closed" /\ far.connection_result = Unacceptable)

\* A channel that is open or closed, or was never used.
AtRest(e, cid) == cid \in DOMAIN Channels(e) => Channels(e)[cid].state \in {"Open", "Closed"}

\* Every attempt of this side to open or to close a channel comes to an end,
\* unless the peer has sent what this side does not read.
AttemptsEnd ==
    \A cid \in CidRange : ~AtRest("a", cid) ~> (AtRest("a", cid) \/ ~AllOk \/ Unread)

=============================================================================
