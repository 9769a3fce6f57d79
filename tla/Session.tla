------------------------------- MODULE Session -------------------------------
(***************************************************************************)
(* The connection life cycle of a session: BackendSession of session.rs on  *)
(* top of ClassicHost of classic_host.rs, driven by an application and by   *)
(* an external Bluetooth controller with its peers.                         *)
(*                                                                         *)
(* A packet from the controller is handled by one step, the drain of the    *)
(* host's output included, so host.output is empty between steps and is not *)
(* a variable. HCI commands reach the controller in the step that sends     *)
(* them; its packets wait in pipe, the merged order in which the packet     *)
(* reader delivers them (module UsbReader). ACL flow control is module      *)
(* AclFlow, the channel set-up inside L2CAP is module L2cap.                *)
(***************************************************************************)
EXTENDS Integers, Sequences, FiniteSets

CONSTANTS Peers, Handles,
          Capacity,   \* EVENT_QUEUE_CAPACITY
          Bonded,     \* peers with a stored bond when the session opens
          Failing,    \* whether a write to the adapter may fail in a call
          MaxCids,    \* bound: L2CAP channels of one link
          MaxPipe     \* bound: events on their way to the host

ASSUME CapacityAssumption == Capacity \in Nat \ {0}
ASSUME BondedAssumption == Bonded \subseteq Peers /\ Failing \in BOOLEAN
ASSUME BoundAssumption == MaxCids \in Nat /\ MaxPipe \in Nat

VARIABLES
    window,            \* ConnectionWindow, [kind, peer]; peer is {} or {p}
    connection,        \* BackendSession.connection: {} or {handle}
    rejected,          \* rejected_connections
    control,           \* protocols.control: {} or {[cid, open]}
    interrupt,         \* protocols.interrupt
    active_reconnect,
    terminal,          \* the terminal error, NoError while there is none
    closed,
    pending,           \* pending_events: how many events wait for poll
    link,              \* ClassicHost.connection: {} or {[handle, peer]}
    pending_peer,      \* ClassicHost.pending_peer: {} or {p}
    chans,             \* channels of that connection: sequence of [psm, state]
    bonds              \* the bond store
VARIABLES
    scan,              \* controller: scan enable, "off", "page" or "both"
    page,              \* controller: outstanding Create_Connection, {} or {p}
    incoming,          \* controller: state of a peer's connection request
    acl,               \* controller: [handle -> {} or {[peer, phase]}]
    pipe               \* controller: packets on their way to the host
VARIABLES
    told,              \* the application's view after its last queued event
    overlapped,        \* a window was opened before the last link was settled
    undone             \* what calls that could not write a command left undone

session == <<window, connection, rejected, control, interrupt, active_reconnect,
             terminal, closed, pending>>
hostVars == <<link, pending_peer, chans, bonds>>
controller == <<scan, page, incoming, acl, pipe>>
vars == <<session, hostVars, controller, told, overlapped, undone>>

NoError == "none"
PSMs == {"control", "interrupt"}

Idle == [kind |-> "Idle", peer |-> {}]
ConnectedWindow == [kind |-> "Connected", peer |-> {}]
Pairing(ps) == [kind |-> "Pairing", peer |-> ps]
Reconnecting(p) == [kind |-> "Reconnecting", peer |-> {p}]

\* ensure_active
Active == ~closed /\ terminal = NoError

Note(e) == IF e \in {"Connected", "Disconnected"} THEN e ELSE told

BugEventDropped(e) ==
    IF pending = Capacity
    THEN UNCHANGED <<pending, told, terminal>>
    ELSE pending' = pending + 1 /\ told' = Note(e) /\ UNCHANGED terminal

\* enqueue_event: a full queue turns into a terminal error.
enqueue_event(e) ==
    IF pending = Capacity
    THEN terminal' = "EventQueueOverflow" /\ UNCHANGED <<pending, told>>
    ELSE pending' = pending + 1 /\ told' = Note(e) /\ UNCHANGED terminal

\* Nothing of the controller can reach the session any more: it is forgotten.
Detached ==
    /\ scan' = "off" /\ page' = {} /\ pipe' = <<>>
    /\ incoming' = [p \in Peers |-> "none"] /\ acl' = [h \in Handles |-> {}]

\* record_terminal on a packet that could not be handled.
Fail(error) ==
    /\ terminal' = error
    /\ Detached
    /\ UNCHANGED <<window, connection, rejected, control, interrupt, active_reconnect,
                   closed, pending, hostVars, told, overlapped, undone>>

Quiet == UNCHANGED <<pending, terminal, told>>

-----------------------------------------------------------------------------
(* HCI commands, applied by the controller when they are sent *)

LinkTo(p) == {h \in Handles : \E a \in acl[h] : a.peer = p}

\* The security phase of the link on h moves on, unless the link is closing.
SetPhase(h, phase) ==
    [acl EXCEPT ![h] = {[a EXCEPT !.phase = IF @ = "closing" THEN @ ELSE phase] : a \in @}]

BugClosing(hs) == acl

\* HCI_DISCONNECT on the handles hs: the controller reports their end later.
Closing(hs) ==
    [h \in Handles |-> IF h \in hs THEN SetPhase(h, "closing")[h] ELSE acl[h]]

\* Create_Connection is refused while a page is outstanding or the link exists;
\* the refusal is a Command Status event, which the session ignores.
HciCreateConnection(p) ==
    page' = IF page = {} /\ LinkTo(p) = {} THEN {p} ELSE page

-----------------------------------------------------------------------------
(* Calls of the application *)

\* Nothing of an earlier connection attempt or link is left anywhere.
Settled ==
    /\ link = {} /\ rejected = {} /\ page = {} /\ pipe = <<>>
    /\ \A p \in Peers : incoming[p] = "none"
    /\ \A h \in Handles : acl[h] = {}

\* start_pairing in the Idle window; in other windows it changes nothing.
start_pairing ==
    /\ Active /\ window = Idle
    /\ scan' = "both"
    /\ active_reconnect' = FALSE
    /\ window' = Pairing({})
    /\ overlapped' = (overlapped \/ ~Settled)
    /\ undone' = undone \ {"scan"}
    /\ UNCHANGED <<connection, rejected, control, interrupt, terminal, closed, pending,
                   hostVars, page, incoming, acl, pipe, told>>

\* start_reconnect: the bond store must hold exactly one peer.
start_reconnect ==
    /\ Active /\ window = Idle
    /\ \E p \in Peers :
        /\ bonds = {p}
        /\ HciCreateConnection(p)
        /\ window' = Reconnecting(p)
    /\ scan' = "page"
    /\ active_reconnect' = TRUE
    /\ overlapped' = (overlapped \/ ~Settled)
    /\ undone' = undone \ {"scan"}
    /\ UNCHANGED <<connection, rejected, control, interrupt, terminal, closed, pending,
                   hostVars, incoming, acl, pipe, told>>

BugProtocolsKept == UNCHANGED <<control, interrupt>>

\* ProtocolState::default
ResetProtocols == control' = {} /\ interrupt' = {}

BugWindowKept == UNCHANGED <<window, undone>> /\ scan' = "off"
BugScanKept == window' = Idle /\ UNCHANGED <<scan, undone>>

\* end_connection_window: scan off unless there is no window.
end_connection_window ==
    /\ window' = Idle
    /\ scan' = IF window = Idle THEN scan ELSE "off"
    /\ undone' = IF window = Idle THEN undone ELSE undone \ {"scan"}

\* disconnect: the host keeps its connection, and a page is not cancelled.
disconnect ==
    /\ Active
    /\ ResetProtocols /\ active_reconnect' = FALSE
    /\ connection' = {}
    /\ acl' = Closing(connection)
    /\ end_connection_window
    /\ UNCHANGED <<rejected, terminal, closed, pending, hostVars, page, incoming, pipe,
                   told, overlapped>>

\* A command of start_pairing or start_reconnect cannot be written, after the
\* first one, which makes the adapter connectable. The call returns the error.
\* Bound: no second failure before the first one is made good.
StartFails ==
    /\ Failing /\ Active /\ window = Idle /\ undone = {}
    /\ scan' = "page"
    /\ undone' = {"scan"}
    /\ UNCHANGED <<session, hostVars, page, incoming, acl, pipe, told, overlapped>>

\* A command of disconnect cannot be written: HCI_DISCONNECT itself, or one of
\* those that end the window, which may leave the adapter connectable.
DisconnectFails ==
    /\ Failing /\ Active /\ undone = {}
    /\ ResetProtocols /\ active_reconnect' = FALSE
    /\ connection' = {}
    /\ \/ connection # {} /\ undone' = {"disconnect"} /\ UNCHANGED <<scan, acl>>
       \/ window # Idle /\ undone' = {"scan"} /\ acl' = Closing(connection) /\ scan' \in {scan, "page"}
    /\ UNCHANGED <<window, rejected, terminal, closed, pending, hostVars, page, incoming, pipe,
                   told, overlapped>>

\* poll returns what was queued; the packets it handled are steps of their own.
poll ==
    /\ Active /\ pending > 0
    /\ pending' = 0
    /\ UNCHANGED <<window, connection, rejected, control, interrupt, active_reconnect,
                   terminal, closed, hostVars, controller, told, overlapped, undone>>

\* close: the session's state is dropped and the reader is joined.
close ==
    /\ ~closed
    /\ closed' = TRUE
    /\ connection' = {} /\ rejected' = {} /\ window' = Idle
    /\ ResetProtocols /\ active_reconnect' = FALSE
    /\ pending' = 0
    /\ Detached
    /\ UNCHANGED <<terminal, hostVars, told, overlapped, undone>>

-----------------------------------------------------------------------------
(* Packets from the controller *)

\* The packet at the head of the pipe, handled inside poll or drain_interrupt.
Receive(type) ==
    /\ Active /\ pipe # <<>> /\ Head(pipe).type = type
    /\ pipe' = Tail(pipe)
    /\ UNCHANGED <<closed, overlapped>>

packet == Head(pipe)

BugHostHandle(h) == h \in connection

\* ensure_handle
HostHandle(h) == \E l \in link : l.handle = h

\* What a request or completion must match: the peer of the open window.
Expected == IF window.kind \in {"Pairing", "Reconnecting"} THEN window.peer ELSE {}

\* A request is accepted from the peer of the window; the first one latches a
\* pairing window. Only ACL links are accepted.
Acceptable(p) ==
    /\ packet.acl
    /\ Expected = {p} \/ window = Pairing({})

OnConnectionRequest ==
    /\ Receive("ConnectionRequest")
    /\ LET p == packet.peer
           answered(a) == [incoming EXCEPT ![p] = IF packet.acl THEN a ELSE @]
       IN  IF Acceptable(p)
           THEN /\ window' = [window EXCEPT !.peer = {p}]
                /\ pending_peer' = {p}
                /\ incoming' = answered("accepted")
           ELSE /\ incoming' = answered("rejected")
                /\ UNCHANGED <<window, pending_peer>>
    /\ Quiet
    /\ UNCHANGED <<connection, rejected, control, interrupt, active_reconnect,
                   link, chans, bonds, scan, page, acl, undone>>

\* A completed link that the window does not expect is disconnected again; the
\* host is not told, so its pending_peer stays.
OnUnexpectedConnection ==
    /\ Receive("ConnectionComplete") /\ packet.ok
    /\ Expected # {packet.peer}
    /\ acl' = Closing({packet.handle})
    /\ rejected' = rejected \cup {packet.handle}
    /\ Quiet
    /\ UNCHANGED <<window, connection, control, interrupt, active_reconnect, hostVars,
                   scan, page, incoming, undone>>

\* The expected link: the host installs it, unless it still waits for another
\* peer, and asks for authentication; the session ends the window.
OnConnected ==
    /\ Receive("ConnectionComplete") /\ packet.ok
    /\ Expected = {packet.peer}
    /\ pending_peer \subseteq {packet.peer}
    /\ pending_peer' = {}
    /\ link' = {[handle |-> packet.handle, peer |-> packet.peer]}
    /\ chans' = <<>>
    /\ connection' = {packet.handle}
    /\ window' = ConnectedWindow
    /\ ResetProtocols
    /\ scan' = "off"
    /\ acl' = SetPhase(packet.handle, "auth")
    /\ enqueue_event("Connected")
    /\ undone' = {}
    /\ UNCHANGED <<rejected, active_reconnect, bonds, page, incoming>>

BugFailureKeepsReconnect ==
    /\ Receive("ConnectionComplete") /\ ~packet.ok
    /\ end_connection_window
    /\ enqueue_event("Disconnected")
    /\ pending_peer' = {}
    /\ UNCHANGED <<active_reconnect, connection, rejected, control, interrupt, link, chans,
                   bonds, page, incoming, acl>>

\* A failed attempt, whichever it was, ends the window and is reported.
OnConnectionFailed ==
    /\ Receive("ConnectionComplete") /\ ~packet.ok
    /\ end_connection_window
    /\ active_reconnect' = FALSE
    /\ enqueue_event("Disconnected")
    /\ pending_peer' = {}
    /\ UNCHANGED <<connection, rejected, control, interrupt, link, chans, bonds,
                   page, incoming, acl>>

\* The end of a rejected link is swallowed; the end of the host's link resets
\* the session, without any scan command; any other handle is an error.
OnDisconnectionComplete ==
    /\ Receive("DisconnectionComplete")
    /\ \/ /\ packet.handle \in rejected
          /\ rejected' = rejected \ {packet.handle}
          /\ Quiet
          /\ UNCHANGED <<window, connection, control, interrupt, active_reconnect, hostVars, undone>>
       \/ /\ packet.handle \notin rejected /\ HostHandle(packet.handle)
          /\ link' = {} /\ chans' = <<>>
          /\ connection' = {} /\ window' = Idle
          /\ ResetProtocols /\ active_reconnect' = FALSE
          /\ enqueue_event("Disconnected")
          /\ undone' = undone \ {"disconnect"}
          /\ UNCHANGED <<rejected, pending_peer, bonds>>
    /\ UNCHANGED <<scan, page, incoming, acl>>

\* LinkKeyRequest: the stored key, or a refusal that makes the peers pair.
OnLinkKeyRequest ==
    /\ Receive("LinkKeyRequest")
    /\ LET reply == IF packet.peer \in bonds THEN "keyed" ELSE "unpaired"
       IN  acl' = [h \in Handles |-> {IF a.peer = packet.peer /\ a.phase = "asked"
                                      THEN [a EXCEPT !.phase = reply] ELSE a : a \in acl[h]}]
    /\ Quiet
    /\ UNCHANGED <<window, connection, rejected, control, interrupt, active_reconnect,
                   hostVars, scan, page, incoming, undone>>

\* LinkKeyNotification: the bond is stored.
OnLinkKeyNotification ==
    /\ Receive("LinkKeyNotification")
    /\ bonds' = bonds \cup {packet.peer}
    /\ Quiet
    /\ UNCHANGED <<window, connection, rejected, control, interrupt, active_reconnect,
                   link, pending_peer, chans, scan, page, incoming, acl, undone>>

\* AuthenticationComplete: success asks for encryption, failure is ignored.
OnAuthenticationComplete ==
    /\ Receive("AuthenticationComplete")
    /\ packet.ok => HostHandle(packet.handle)
    /\ acl' = IF packet.ok THEN SetPhase(packet.handle, "encrypting") ELSE acl
    /\ Quiet
    /\ UNCHANGED <<window, connection, rejected, control, interrupt, active_reconnect,
                   hostVars, scan, page, incoming, undone>>

\* connect_channel: a new channel that waits for the peer; its CID is its index.
Opening(psm) == [psm |-> psm, state |-> "opening"]
Adopted(cid, open) == {[cid |-> cid, open |-> open]}

BugBothChannelsAtOnce ==
    /\ Receive("EncryptionChange")
    /\ packet.ok => HostHandle(packet.handle)
    /\ IF packet.ok /\ active_reconnect /\ control = {} /\ interrupt = {}
       THEN /\ chans' = chans \o <<Opening("control"), Opening("interrupt")>>
            /\ control' = Adopted(Len(chans) + 1, FALSE)
            /\ interrupt' = Adopted(Len(chans) + 2, FALSE)
       ELSE UNCHANGED <<chans, control, interrupt>>
    /\ Quiet
    /\ UNCHANGED <<window, connection, rejected, active_reconnect, link, pending_peer, bonds,
                   scan, page, incoming, acl, undone>>

\* EncryptionChange: on an active reconnect the control channel is opened.
OnEncryptionChange ==
    /\ Receive("EncryptionChange")
    /\ packet.ok => HostHandle(packet.handle)
    /\ IF packet.ok /\ active_reconnect /\ control = {}
       THEN /\ chans' = Append(chans, Opening("control"))
            /\ control' = Adopted(Len(chans) + 1, FALSE)
       ELSE UNCHANGED <<chans, control>>
    /\ Quiet
    /\ UNCHANGED <<window, connection, rejected, interrupt, active_reconnect, link,
                   pending_peer, bonds, scan, page, incoming, acl, undone>>

\* An ACL packet of the host's connection; what the peer put into it is chosen
\* by the disjuncts that use this.
ReceiveAcl ==
    /\ Receive("Acl") /\ HostHandle(packet.handle)
    /\ UNCHANGED <<window, connection, rejected, active_reconnect, link, pending_peer, bonds,
                   scan, page, incoming, acl, undone>>

First(protocol, cid) == \A c \in protocol : c.cid = cid /\ ~c.open

\* on_channel_opened, cs being the channels once this one is open: the first
\* channel of a PSM is adopted and reported; an active reconnect opens the
\* interrupt channel as soon as a control channel is open.
on_channel_opened(psm, cid, cs) ==
    LET next == psm = "control" /\ active_reconnect /\ interrupt = {}
        opened(p, protocol) == IF psm = p /\ First(protocol, cid)
                               THEN Adopted(cid, TRUE) ELSE protocol
    IN  /\ control' = opened("control", control)
        /\ interrupt' = IF next THEN Adopted(Len(cs) + 1, FALSE) ELSE opened("interrupt", interrupt)
        /\ chans' = IF next THEN Append(cs, Opening("interrupt")) ELSE cs
        /\ IF First(IF psm = "control" THEN control ELSE interrupt, cid)
           THEN enqueue_event(psm)
           ELSE Quiet

\* The peer's own channel completes its configuration and is accepted.
OnIncomingChannel ==
    /\ ReceiveAcl
    /\ Len(chans) < MaxCids
    /\ \E psm \in PSMs :
        on_channel_opened(psm, Len(chans) + 1, Append(chans, [psm |-> psm, state |-> "open"]))

\* A channel of ours opens: refresh_outgoing_channels notices it if the session
\* still has it under this CID.
OnOutgoingChannel ==
    /\ ReceiveAcl
    /\ \E cid \in 1..Len(chans) :
        /\ chans[cid].state = "opening"
        /\ LET cs == [chans EXCEPT ![cid].state = "open"]
               mine == IF chans[cid].psm = "control" THEN control ELSE interrupt
           IN  IF \E c \in mine : c.cid = cid
               THEN on_channel_opened(chans[cid].psm, cid, cs)
               ELSE chans' = cs /\ Quiet /\ UNCHANGED <<control, interrupt>>

\* The peer refuses or closes a channel; the session does not look at this.
OnChannelClosed ==
    /\ ReceiveAcl
    /\ \E cid \in 1..Len(chans) :
        /\ chans[cid].state # "closed"
        /\ chans' = [chans EXCEPT ![cid].state = "closed"]
    /\ Quiet
    /\ UNCHANGED <<control, interrupt>>

\* What DeviceRuntime makes of a message: on the control channel it may answer,
\* on the interrupt channel it never does.
DeviceEvents(psm) ==
    IF psm = "control"
    THEN {"SendControl", "OutputData", "OtherData", "ControlCommand", "Unsupported"}
    ELSE {"OutputData", "OtherData", "Unsupported"}

\* HidpBridge::translate_event
translate_event(event) ==
    CASE event = "OutputData" -> "Output"
      [] event = "SendControl" -> "ControlResponse"
      [] OTHER -> "Ignored"

\* An output report is queued for the application; a response is data for the
\* peer (module AclFlow) and leaves the session as it is.
apply_hidp_events(event) == IF event = "Output" THEN enqueue_event("HidOutput") ELSE Quiet

\* process_protocol_input: an SDU of an adopted channel goes to HIDP. One of an
\* SDP channel (module Sdp), or one that HIDP finds malformed, changes nothing
\* here.
OnChannelData ==
    /\ ReceiveAcl
    /\ \/ \E psm \in PSMs : \E c \in (IF psm = "control" THEN control ELSE interrupt) :
            /\ c.open /\ chans[c.cid].state = "open"
            /\ \E event \in DeviceEvents(psm) : apply_hidp_events(translate_event(event))
       \/ Quiet
    /\ UNCHANGED <<control, interrupt, chans>>

\* A link completes for a peer other than the one whose request was accepted
\* last, or an event names a handle that is not the host's connection.
ProtocolViolation ==
    /\ Active /\ pipe # <<>>
    /\ \/ /\ packet.type = "ConnectionComplete" /\ packet.ok
          /\ Expected = {packet.peer} /\ ~(pending_peer \subseteq {packet.peer})
       \/ /\ packet.type \in {"AuthenticationComplete", "EncryptionChange"} /\ packet.ok
          /\ ~HostHandle(packet.handle)
       \/ /\ packet.type = "DisconnectionComplete" /\ packet.handle \notin rejected
          /\ ~HostHandle(packet.handle)
    /\ Fail("ProtocolViolation")

\* process_acl: data for a handle that is not the host's connection. The error is
\* a ProtocolViolation, too; it has a name of its own to tell its source.
StrayAcl ==
    /\ Active /\ pipe # <<>>
    /\ packet.type = "Acl" /\ ~HostHandle(packet.handle)
    /\ Fail("StrayAcl")

\* The bond store fails to load or to store a key.
BondStoreFails ==
    /\ Active /\ pipe # <<>>
    /\ packet.type \in {"LinkKeyRequest", "LinkKeyNotification"}
    /\ Fail("InvalidBondStore")

\* recv_timeout reports that the packet reader failed or ended.
SourceTerminated == Active /\ Fail("SourceTerminated")

-----------------------------------------------------------------------------
(* The controller and the peers *)

Msg(type, h, p, ok) == [type |-> type, handle |-> h, peer |-> p, ok |-> ok, acl |-> TRUE]
ScoRequest(h, p) == [Msg("ConnectionRequest", h, p, TRUE) EXCEPT !.acl = FALSE]

\* Events and ACL data come from two USB endpoints, which the reader polls in
\* turn: each keeps its order, but one may overtake the other.
Emit(m) ==
    /\ Active /\ Len(pipe) < MaxPipe
    /\ \E i \in 1..(Len(pipe) + 1) :
        /\ \A j \in i..Len(pipe) : (pipe[j].type = "Acl") # (m.type = "Acl")
        /\ pipe' = SubSeq(pipe, 1, i - 1) \o <<m>> \o SubSeq(pipe, i, Len(pipe))
    /\ UNCHANGED <<session, hostVars, scan, told, overlapped, undone>>

\* Handles are reused once no packet of the old link is on its way.
Free(h) == acl[h] = {} /\ \A i \in 1..Len(pipe) : pipe[i].handle # h
FreeHandle == CHOOSE h \in Handles : Free(h)
SomeFree == \E h \in Handles : Free(h)
AnyHandle == CHOOSE h \in Handles : TRUE

\* A connectable controller is paged by a peer.
PeerPages ==
    \E p \in Peers :
        /\ scan # "off" /\ incoming[p] = "none" /\ LinkTo(p) = {}
        /\ Emit(Msg("ConnectionRequest", AnyHandle, p, TRUE))
        /\ incoming' = [incoming EXCEPT ![p] = "asked"]
        /\ UNCHANGED <<page, acl>>

\* A linked peer asks for a synchronous link, which is always refused.
PeerAsksSco ==
    \E h \in Handles : \E a \in acl[h] :
        /\ a.phase # "new"
        /\ Emit(ScoRequest(h, a.peer))
        /\ UNCHANGED <<page, incoming, acl>>

\* An accepted request, or our page, succeeds or fails; a rejected one fails.
AttemptEnds(p, ok) ==
    IF ok
    THEN /\ SomeFree /\ LinkTo(p) = {}
         /\ acl' = [acl EXCEPT ![FreeHandle] = {[peer |-> p, phase |-> "new"]}]
         /\ Emit(Msg("ConnectionComplete", FreeHandle, p, TRUE))
    ELSE /\ Emit(Msg("ConnectionComplete", AnyHandle, p, FALSE))
         /\ UNCHANGED acl

RequestEnds ==
    \E p \in Peers, ok \in BOOLEAN :
        /\ incoming[p] \in {"accepted", "rejected"}
        /\ ok => incoming[p] = "accepted"
        /\ AttemptEnds(p, ok)
        /\ incoming' = [incoming EXCEPT ![p] = "none"]
        /\ UNCHANGED page

PageEnds ==
    \E p \in page, ok \in BOOLEAN :
        /\ AttemptEnds(p, ok)
        /\ page' = {}
        /\ UNCHANGED incoming

\* One step of authentication, pairing and encryption on a link. The requests
\* for IO capabilities and confirmation, which the host answers with constants
\* and keeps no state about, are inside the step that ends pairing.
SecurityMoves ==
    {<<"auth", "LinkKeyRequest", TRUE, "asked">>,
     <<"unpaired", "LinkKeyNotification", TRUE, "keyed">>,
     <<"keyed", "AuthenticationComplete", TRUE, "authenticated">>,
     <<"keyed", "AuthenticationComplete", FALSE, "open">>,
     <<"encrypting", "EncryptionChange", TRUE, "open">>,
     <<"encrypting", "EncryptionChange", FALSE, "open">>}

SecurityStep ==
    \E h \in Handles : \E a \in acl[h], m \in SecurityMoves :
        /\ a.phase = m[1]
        /\ Emit(Msg(m[2], h, a.peer, m[3]))
        /\ acl' = SetPhase(h, m[4])
        /\ UNCHANGED <<page, incoming>>

PeerSendsAcl ==
    \E h \in Handles : \E a \in acl[h] :
        /\ Emit(Msg("Acl", h, a.peer, TRUE))
        /\ UNCHANGED <<page, incoming, acl>>

\* The link ends: lost, closed by the peer, or disconnected by the session.
LinkEnds(h) ==
    \E a \in acl[h] :
        /\ Emit(Msg("DisconnectionComplete", h, a.peer, TRUE))
        /\ acl' = [acl EXCEPT ![h] = {}]
        /\ UNCHANGED <<page, incoming>>

-----------------------------------------------------------------------------

Init ==
    /\ window = Idle /\ connection = {} /\ rejected = {}
    /\ control = {} /\ interrupt = {} /\ active_reconnect = FALSE
    /\ terminal = NoError /\ closed = FALSE /\ pending = 0
    /\ link = {} /\ pending_peer = {} /\ chans = <<>> /\ bonds = Bonded
    /\ scan = "off" /\ page = {} /\ incoming = [p \in Peers |-> "none"]
    /\ acl = [h \in Handles |-> {}] /\ pipe = <<>>
    /\ told = "Disconnected" /\ overlapped = FALSE /\ undone = {}

HandlePacket ==
    \/ OnConnectionRequest \/ OnUnexpectedConnection \/ OnConnected \/ OnConnectionFailed
    \/ OnDisconnectionComplete \/ OnLinkKeyRequest
    \/ OnLinkKeyNotification \/ OnAuthenticationComplete \/ OnEncryptionChange
    \/ ProtocolViolation \/ StrayAcl \/ BondStoreFails
    \/ OnIncomingChannel \/ OnOutgoingChannel \/ OnChannelClosed \/ OnChannelData

Controller ==
    \/ PeerPages \/ PeerAsksSco \/ RequestEnds \/ PageEnds \/ SecurityStep \/ PeerSendsAcl
    \/ \E h \in Handles : LinkEnds(h)

Application ==
    start_pairing \/ start_reconnect \/ StartFails \/ disconnect \/ DisconnectFails \/ poll \/ close

Next == Application \/ HandlePacket \/ SourceTerminated \/ Controller

ClosingLinkEnds ==
    \E h \in Handles : (\E a \in acl[h] : a.phase = "closing") /\ LinkEnds(h)

\* The application keeps polling; the controller ends every attempt (its page
\* and connection timeouts) and every link it was told to disconnect. Strong
\* fairness, because MaxPipe may disable the controller now and then.
Fairness ==
    /\ WF_vars(HandlePacket)
    /\ SF_vars(PageEnds) /\ SF_vars(RequestEnds) /\ SF_vars(ClosingLinkEnds)

Spec == Init /\ [][Next]_vars
FairSpec == Spec /\ Fairness

-----------------------------------------------------------------------------
(* Properties *)

\* The two records of the link agree: a connected window has a connection,
\* unless a disconnect failed half-way, and the session's connection is the one
\* link the host holds.
LinkAgreement ==
    /\ window.kind = "Connected" => connection # {} \/ undone # {}
    /\ connection # {} => \E l \in link : link = {l} /\ connection = {l.handle}

\* An open window is backed by the controller: a pairing window is discoverable
\* and connectable, a reconnect window connectable, whatever ended before it. A
\* call that failed half-way may spoil this until the next one that opens or
\* ends a window.
WindowScans ==
    Active /\ "scan" \notin undone =>
              /\ window.kind = "Pairing" => scan = "both"
              /\ window.kind = "Reconnecting" => scan = "page"

\* Outside a window the adapter accepts no pages, so no stranger can connect,
\* as long as no window was opened while an older link was being settled. A call
\* that failed half-way leaves it connectable until the next one that opens or
\* ends a window; a disconnect without a window does not.
ScanOnlyInWindow ==
    Active /\ ~overlapped /\ "scan" \notin undone /\ window.kind \in {"Idle", "Connected"} => scan = "off"

\* The application hears of the end of every link it was told of: while the
\* host holds no link, the last link event queued was not "Connected".
NoLostDisconnect == Active /\ link = {} => told = "Disconnected"

\* With a conforming controller an event ends the session as a protocol violation
\* only over the leftovers of a link it rejected (its handle, or the peer the host
\* still waits for), or after overlapping windows. Data that overtakes the events
\* of its link, or outlives it, is StrayAcl and not counted here.
ViolationCauses ==
    ~closed /\ terminal = "ProtocolViolation" =>
        overlapped \/ rejected # {} \/ pending_peer # {}

\* A channel the session uses is a channel of the current link, of its PSM: no
\* CID of an earlier link survives into a later one.
AdoptedChannels ==
    /\ \A c \in control : c.cid \in 1..Len(chans) /\ chans[c.cid].psm = "control"
    /\ \A c \in interrupt : c.cid \in 1..Len(chans) /\ chans[c.cid].psm = "interrupt"

\* The session opens channels of its own only for a reconnect that is under way
\* or has connected, never for a pairing or after a failure.
ActiveReconnect == active_reconnect => window.kind \in {"Reconnecting", "Connected"}

\* On a reconnect the interrupt channel is requested only after some control
\* channel left its set-up.
InterruptAfterControl ==
    (\E i \in 1..Len(chans) : chans[i] = Opening("interrupt")) =>
        \E i \in 1..Len(chans) : chans[i].psm = "control" /\ chans[i].state # "opening"

\* disconnect() takes effect: the host's link ends (or is replaced by a newer
\* one), even though the session forgot it at once. The exception is a call that
\* could not write HCI_DISCONNECT: later calls do not write it either.
DisconnectCompletes ==
    (Active /\ link # {} /\ connection = {} /\ "disconnect" \notin undone)
        ~> (~Active \/ link = {} \/ connection # {})

\* A reconnect window opened on a settled session is always left again.
ReconnectResolves ==
    (Active /\ ~overlapped /\ window.kind = "Reconnecting")
        ~> (~Active \/ overlapped \/ window.kind # "Reconnecting")

\* Event::Disconnected says "The Classic ACL connection ended": while a session
\* has its connection, the last link event queued is "Connected".
DisconnectedMeansEnded == Active /\ connection # {} => told = "Connected"

\* "rejected_connection_completion_does_not_poison_the_session": once a rejected
\* link is gone and no windows overlapped, nothing ends the session.
RejectionDoesNotPoison ==
    ~closed /\ terminal = "ProtocolViolation" => overlapped \/ rejected # {}

=============================================================================
