---------------------------- MODULE SessionProofs ----------------------------
(***************************************************************************)
(* What BackendSession and ClassicHost keep true of links, windows, scanning *)
(* and HID channels, for any peers, handles, capacity and bounds, with       *)
(* writes to the adapter that may fail; and why a conforming controller      *)
(* cannot drive a session into a protocol violation by the order of its      *)
(* events alone: what the packets on their way say of each handle, against   *)
(* what the session and the controller know of it.                           *)
(***************************************************************************)
EXTENDS Session, TLAPS

Kinds == {"Idle", "Pairing", "Reconnecting", "Connected"}
IsWindow(w) == w.kind \in Kinds /\ w = [kind |-> w.kind, peer |-> w.peer]

\* A window that was opened on a settled session has no link beside it. The end
\* of a link closes whatever window is open without a scan command, so this is
\* what keeps the adapter from staying connectable.
WindowAlone == Active /\ ~overlapped /\ window.kind \in {"Pairing", "Reconnecting"} => link = {}

\* What holds of links and windows at all times.
LinkInv ==
    /\ IsWindow(window) /\ active_reconnect \in BOOLEAN
    /\ LinkAgreement /\ WindowScans /\ ScanOnlyInWindow /\ WindowAlone
    /\ ActiveReconnect /\ NoLostDisconnect

\* What holds of the channels of the link. The psm of a channel is the event that
\* reports it, so LinkInv needs this, too.
Channel == [psm : PSMs, state : {"opening", "open", "closed"}]
ChanInv == chans \in Seq(Channel) /\ AdoptedChannels /\ InterruptAfterControl

LEMMA InitLinkInv == Init => LinkInv
<1> SUFFICES ASSUME Init PROVE LinkInv
  OBVIOUS
<1>1. IsWindow(window) /\ active_reconnect \in BOOLEAN
  BY Zenon DEF Init, IsWindow, Kinds, Idle
<1>2. LinkAgreement /\ WindowScans /\ ScanOnlyInWindow
  BY DEF Init, LinkAgreement, WindowScans, ScanOnlyInWindow, Idle
<1>3. WindowAlone /\ ActiveReconnect /\ NoLostDisconnect
  BY DEF Init, WindowAlone, ActiveReconnect, NoLostDisconnect, Idle
<1> QED BY <1>1, <1>2, <1>3 DEF LinkInv

\* Steps that leave links, windows and scanning alone.
LEMMA ElsewhereStep ==
    ASSUME LinkInv, UNCHANGED <<window, connection, active_reconnect, terminal, closed, link, scan,
                                told, overlapped, undone>>
    PROVE  LinkInv'
  BY DEF LinkInv, IsWindow, LinkAgreement, WindowScans, ScanOnlyInWindow, WindowAlone,
         ActiveReconnect, NoLostDisconnect, Active

\* Steps after which the session is no longer active, or that only queue an
\* event which is not about a link.
LEMMA TerminalStep ==
    ASSUME LinkInv, ~Active', UNCHANGED <<window, connection, active_reconnect, link, undone>>
    PROVE  LinkInv'
  BY DEF LinkInv, IsWindow, LinkAgreement, WindowScans, ScanOnlyInWindow, WindowAlone,
         ActiveReconnect, NoLostDisconnect

LEMMA OtherEventStep ==
    ASSUME LinkInv, NEW e, e \notin {"Connected", "Disconnected"}, enqueue_event(e) \/ Quiet,
           UNCHANGED <<window, connection, active_reconnect, closed, link, scan, overlapped, undone>>
    PROVE  LinkInv'
<1>1. CASE terminal' = "EventQueueOverflow"
  <2>1. ~Active'
    BY <1>1 DEF Active, NoError
  <2> QED BY <2>1, TerminalStep
<1>2. CASE UNCHANGED terminal
  <2>1. told' = told
    BY <1>2 DEF enqueue_event, Quiet, Note
  <2> QED BY <1>2, <2>1, ElsewhereStep
<1> QED BY <1>1, <1>2 DEF enqueue_event, Quiet

-----------------------------------------------------------------------------
(* Calls of the application *)

LEMMA StartSteps == LinkInv /\ (start_pairing \/ start_reconnect \/ StartFails) => LinkInv'
<1>1. ASSUME LinkInv, start_pairing PROVE LinkInv'
  BY <1>1, Zenon DEF start_pairing, LinkInv, IsWindow, Kinds, LinkAgreement, WindowScans, ScanOnlyInWindow,
              WindowAlone, ActiveReconnect, NoLostDisconnect, Active, Idle, Pairing, Settled, hostVars
<1>2. ASSUME LinkInv, start_reconnect PROVE LinkInv'
  <2>1. PICK p \in Peers : window' = Reconnecting(p)
    BY <1>2 DEF start_reconnect
  <2>2. IsWindow(window') /\ window'.kind = "Reconnecting"
    BY <2>1 DEF Reconnecting, IsWindow, Kinds
  <2>3. /\ scan' = "page" /\ active_reconnect' = TRUE /\ overlapped' = (overlapped \/ link # {} \/ ~Settled)
        /\ UNCHANGED <<connection, terminal, closed, link, told>>
    BY <1>2 DEF start_reconnect, hostVars, Settled
  <2> QED BY <1>2, <2>2, <2>3, Zenon DEF LinkInv, LinkAgreement, WindowScans, ScanOnlyInWindow, WindowAlone,
                                  ActiveReconnect, NoLostDisconnect, Active
<1>3. ASSUME LinkInv, StartFails PROVE LinkInv'
  BY <1>3 DEF StartFails, LinkInv, IsWindow, Kinds, LinkAgreement, WindowScans, ScanOnlyInWindow,
              WindowAlone, ActiveReconnect, NoLostDisconnect, Active, Idle, session, hostVars
<1> QED BY <1>1, <1>2, <1>3

LEMMA DisconnectSteps == LinkInv /\ (disconnect \/ DisconnectFails) => LinkInv'
<1>1. ASSUME LinkInv, disconnect PROVE LinkInv'
  BY <1>1, Zenon DEF disconnect, end_connection_window, LinkInv, IsWindow, Kinds, LinkAgreement, WindowScans,
              ScanOnlyInWindow, WindowAlone, ActiveReconnect, NoLostDisconnect, Active, Idle, hostVars
<1>2. ASSUME LinkInv, DisconnectFails PROVE LinkInv'
  BY <1>2, Zenon DEF DisconnectFails, LinkInv, IsWindow, Kinds, LinkAgreement, WindowScans, ScanOnlyInWindow,
              WindowAlone, ActiveReconnect, NoLostDisconnect, Active, Idle, hostVars
<1> QED BY <1>1, <1>2

LEMMA PollCloseSteps == LinkInv /\ (poll \/ close) => LinkInv'
<1>1. ASSUME LinkInv, poll PROVE LinkInv'
  BY <1>1, ElsewhereStep DEF poll, hostVars, controller
<1>2. ASSUME LinkInv, close PROVE LinkInv'
  BY <1>2, Zenon DEF close, LinkInv, IsWindow, Kinds, LinkAgreement, WindowScans, ScanOnlyInWindow,
              WindowAlone, ActiveReconnect, NoLostDisconnect, Active, Idle
<1> QED BY <1>1, <1>2


-----------------------------------------------------------------------------
(* Packets from the controller *)

LEMMA RequestSteps ==
    LinkInv /\ (OnConnectionRequest \/ OnUnexpectedConnection \/ OnLinkKeyRequest
                \/ OnLinkKeyNotification \/ OnAuthenticationComplete) => LinkInv'
<1>1. ASSUME LinkInv, OnConnectionRequest PROVE LinkInv'
  <2>1. IsWindow(window') /\ window'.kind = window.kind
    BY <1>1 DEF OnConnectionRequest, LinkInv, IsWindow
  <2>2. UNCHANGED <<connection, active_reconnect, terminal, closed, link, scan, told, overlapped, undone>>
    BY <1>1 DEF OnConnectionRequest, Receive, Quiet
  <2> QED BY <1>1, <2>1, <2>2 DEF LinkInv, LinkAgreement, WindowScans, ScanOnlyInWindow, WindowAlone,
                                  ActiveReconnect, NoLostDisconnect, Active
<1>2. ASSUME LinkInv, OnUnexpectedConnection PROVE LinkInv'
  BY <1>2, ElsewhereStep DEF OnUnexpectedConnection, Receive, Quiet, hostVars
<1>3. ASSUME LinkInv, OnLinkKeyRequest PROVE LinkInv'
  BY <1>3, ElsewhereStep DEF OnLinkKeyRequest, Receive, Quiet, hostVars
<1>4. ASSUME LinkInv, OnLinkKeyNotification PROVE LinkInv'
  BY <1>4, ElsewhereStep DEF OnLinkKeyNotification, Receive, Quiet
<1>5. ASSUME LinkInv, OnAuthenticationComplete PROVE LinkInv'
  BY <1>5, ElsewhereStep DEF OnAuthenticationComplete, Receive, Quiet, hostVars
<1> QED BY <1>1, <1>2, <1>3, <1>4, <1>5

LEMMA ConnectedStep == LinkInv /\ OnConnected => LinkInv'
<1> SUFFICES ASSUME LinkInv, OnConnected PROVE LinkInv'
  OBVIOUS
<1>1. /\ window' = ConnectedWindow /\ connection' = {packet.handle}
      /\ link' = {[handle |-> packet.handle, peer |-> packet.peer]} /\ scan' = "off"
      /\ active_reconnect' = active_reconnect
  BY DEF OnConnected
<1>2. IsWindow(window') /\ window'.kind = "Connected" /\ connection' # {} /\ link' # {}
  BY <1>1 DEF ConnectedWindow, IsWindow, Kinds
<1>3. \E l \in link' : link' = {l} /\ connection' = {l.handle}
  BY <1>1
<1> QED BY <1>1, <1>2, <1>3 DEF LinkInv, LinkAgreement, WindowScans, ScanOnlyInWindow, WindowAlone,
                                ActiveReconnect, NoLostDisconnect

LEMMA FailedStep == LinkInv /\ OnConnectionFailed => LinkInv'
<1> SUFFICES ASSUME LinkInv, OnConnectionFailed PROVE LinkInv'
  OBVIOUS
<1>1. /\ window' = Idle /\ active_reconnect' = FALSE
      /\ scan' = (IF window = Idle THEN scan ELSE "off")
      /\ undone' = (IF window = Idle THEN undone ELSE undone \ {"scan"})
      /\ UNCHANGED <<connection, link, closed, overlapped>>
  BY DEF OnConnectionFailed, end_connection_window, Receive
<1>2. Active' => Active /\ told' = "Disconnected"
  BY DEF OnConnectionFailed, Receive, enqueue_event, Note, Active, NoError
<1>3. IsWindow(window') /\ window'.kind = "Idle"
  BY <1>1 DEF IsWindow, Kinds, Idle
<1>4. ScanOnlyInWindow'
  BY <1>1, <1>2, <1>3 DEF LinkInv, ScanOnlyInWindow, Idle
<1> QED BY <1>1, <1>2, <1>3, <1>4, Zenon DEF LinkInv, LinkAgreement, WindowScans, WindowAlone,
                                      ActiveReconnect, NoLostDisconnect

LEMMA DisconnectionStep == LinkInv /\ OnDisconnectionComplete => LinkInv'
<1> SUFFICES ASSUME LinkInv, OnDisconnectionComplete PROVE LinkInv'
  OBVIOUS
<1>1. CASE packet.handle \in rejected
  BY <1>1, ElsewhereStep DEF OnDisconnectionComplete, Receive, Quiet, hostVars
<1>2. CASE packet.handle \notin rejected
  <2>1. /\ window' = Idle /\ connection' = {} /\ link' = {} /\ active_reconnect' = FALSE
        /\ undone' = undone \ {"disconnect"} /\ UNCHANGED <<scan, closed, overlapped>>
        /\ HostHandle(packet.handle) /\ enqueue_event("Disconnected")
    BY <1>2 DEF OnDisconnectionComplete, Receive
  <2>2. Active' => Active /\ told' = "Disconnected"
    BY <2>1 DEF OnDisconnectionComplete, Receive, enqueue_event, Note, Active, NoError
  <2>3. IsWindow(window') /\ window'.kind = "Idle"
    BY <2>1 DEF IsWindow, Kinds, Idle
  <2>4. link # {}
    BY <2>1 DEF HostHandle
  <2>5. ScanOnlyInWindow'
    <3> SUFFICES ASSUME Active, ~overlapped, "scan" \notin undone PROVE scan' = "off"
      BY <2>1, <2>2 DEF ScanOnlyInWindow
    <3>1. window.kind \in {"Idle", "Connected"}
      BY <2>4 DEF LinkInv, WindowAlone, IsWindow, Kinds
    <3> QED BY <2>1, <3>1 DEF LinkInv, ScanOnlyInWindow
  <2> QED BY <2>1, <2>2, <2>3, <2>5, ZenonT(40) DEF LinkInv, LinkAgreement, WindowScans, WindowAlone,
                                        ActiveReconnect, NoLostDisconnect
<1> QED BY <1>1, <1>2

LEMMA EncryptionStep == LinkInv /\ OnEncryptionChange => LinkInv'
  BY ElsewhereStep DEF OnEncryptionChange, Receive, Quiet

\* Channels and their data: at most an event that is not about a link.
LEMMA ChannelSteps ==
    LinkInv /\ ChanInv /\ (OnIncomingChannel \/ OnOutgoingChannel \/ OnChannelClosed \/ OnChannelData)
        => LinkInv'
<1> SUFFICES ASSUME LinkInv, ReceiveAcl,
                    \E e : e \notin {"Connected", "Disconnected"} /\ (enqueue_event(e) \/ Quiet)
             PROVE  LinkInv'
  <2>1. ASSUME OnIncomingChannel
        PROVE  \E e : e \notin {"Connected", "Disconnected"} /\ (enqueue_event(e) \/ Quiet)
    <3>1. PICK psm \in PSMs : enqueue_event(psm) \/ Quiet
      BY <2>1 DEF OnIncomingChannel, on_channel_opened
    <3> QED BY <3>1 DEF PSMs
  <2>2. ASSUME OnChannelClosed
        PROVE  \E e : e \notin {"Connected", "Disconnected"} /\ (enqueue_event(e) \/ Quiet)
    <3>1. "control" \notin {"Connected", "Disconnected"} /\ Quiet
      BY <2>2 DEF OnChannelClosed
    <3> QED BY <3>1, ZenonT(40)
  <2>3. ASSUME OnChannelData
        PROVE  \E e : e \notin {"Connected", "Disconnected"} /\ (enqueue_event(e) \/ Quiet)
    <3>1. "HidOutput" \notin {"Connected", "Disconnected"} /\ (enqueue_event("HidOutput") \/ Quiet)
      BY <2>3 DEF OnChannelData, apply_hidp_events
    <3> QED BY <3>1
  <2>4. ASSUME ChanInv, OnOutgoingChannel
        PROVE  \E e : e \notin {"Connected", "Disconnected"} /\ (enqueue_event(e) \/ Quiet)
    <3>1. PICK cid \in 1..Len(chans) : enqueue_event(chans[cid].psm) \/ Quiet
      BY <2>4, Zenon DEF OnOutgoingChannel, on_channel_opened
    <3>2. chans[cid] \in Channel
      BY <2>4 DEF ChanInv
    <3>3. chans[cid].psm \in PSMs
      BY <3>2 DEF Channel
    <3> QED BY <3>1, <3>3, Zenon DEF PSMs
  <2> QED BY <2>1, <2>2, <2>3, <2>4, Zenon DEF OnIncomingChannel, OnOutgoingChannel, OnChannelClosed, OnChannelData
<1>1. PICK e : e \notin {"Connected", "Disconnected"} /\ (enqueue_event(e) \/ Quiet)
  OBVIOUS
<1> QED BY <1>1, OtherEventStep, Zenon DEF ReceiveAcl, Receive

LEMMA FailSteps ==
    LinkInv /\ (ProtocolViolation \/ StrayAcl \/ BondStoreFails \/ SourceTerminated) => LinkInv'
<1> SUFFICES ASSUME LinkInv, NEW e \in {"ProtocolViolation", "StrayAcl", "InvalidBondStore", "SourceTerminated"},
                    Fail(e)
             PROVE  LinkInv'
  BY DEF ProtocolViolation, StrayAcl, BondStoreFails, SourceTerminated
<1>1. ~Active'
  BY DEF Fail, Active, NoError
<1> QED BY <1>1, TerminalStep DEF Fail, hostVars

LEMMA ControllerSteps == LinkInv /\ Controller => LinkInv'
<1> SUFFICES ASSUME LinkInv, NEW m, Emit(m) PROVE LinkInv'
  BY Zenon DEF Controller, PeerPages, PeerAsksSco, RequestEnds, PageEnds, AttemptEnds, SecurityStep,
         PeerSendsAcl, LinkEnds
<1> QED BY ElsewhereStep DEF Emit, session, hostVars

-----------------------------------------------------------------------------
(* Channels *)

LEMMA InitChanInv == Init => ChanInv
  BY DEF Init, ChanInv, AdoptedChannels, InterruptAfterControl

\* Steps that leave the channels alone, forget the adopted ones, or forget all.
LEMMA SameChannels ==
    ASSUME ChanInv, UNCHANGED chans, UNCHANGED <<control, interrupt>> \/ ResetProtocols
    PROVE  ChanInv'
  BY DEF ChanInv, AdoptedChannels, InterruptAfterControl, ResetProtocols

LEMMA NoChannels == chans' = <<>> /\ ResetProtocols => ChanInv'
  BY DEF ChanInv, AdoptedChannels, InterruptAfterControl, ResetProtocols

\* cs has the channels of chans, of which some moved on, and maybe more, none of
\* them an interrupt channel that waits.
Extends(cs) ==
    /\ cs \in Seq(Channel) /\ Len(cs) >= Len(chans)
    /\ \A i \in 1..Len(chans) :
        /\ cs[i].psm = chans[i].psm
        /\ cs[i].state = "opening" <=> (chans[i].state = "opening" /\ cs[i] = chans[i])
    /\ \A i \in 1..Len(cs) : i > Len(chans) => cs[i] # Opening("interrupt")

LEMMA ExtendsKeeps ==
    ASSUME ChanInv, NEW cs, Extends(cs)
    PROVE  /\ \A c \in control : c.cid \in 1..Len(cs) /\ cs[c.cid].psm = "control"
           /\ \A c \in interrupt : c.cid \in 1..Len(cs) /\ cs[c.cid].psm = "interrupt"
           /\ (\E i \in 1..Len(cs) : cs[i] = Opening("interrupt")) =>
                  \E i \in 1..Len(cs) : cs[i].psm = "control" /\ cs[i].state # "opening"
<1>1. Len(cs) \in Nat /\ Len(chans) \in Nat /\ Len(cs) >= Len(chans)
  BY DEF Extends, ChanInv
<1>2. \A i \in 1..Len(chans) : i \in 1..Len(cs) /\ cs[i].psm = chans[i].psm
  BY <1>1 DEF Extends
<1>3. /\ \A c \in control : c.cid \in 1..Len(cs) /\ cs[c.cid].psm = "control"
      /\ \A c \in interrupt : c.cid \in 1..Len(cs) /\ cs[c.cid].psm = "interrupt"
  BY <1>2 DEF ChanInv, AdoptedChannels
<1>4. ASSUME NEW i \in 1..Len(cs), cs[i] = Opening("interrupt")
      PROVE  \E j \in 1..Len(cs) : cs[j].psm = "control" /\ cs[j].state # "opening"
  <2>1. i \in 1..Len(chans)
    BY <1>1, <1>4 DEF Extends
  <2>2. chans[i] = Opening("interrupt")
    BY <1>4, <2>1 DEF Extends, Opening
  <2>3. PICK j \in 1..Len(chans) : chans[j].psm = "control" /\ chans[j].state # "opening"
    BY <2>1, <2>2 DEF ChanInv, InterruptAfterControl
  <2> QED BY <1>2, <2>3 DEF Extends
<1> QED BY <1>3, <1>4

LEMMA OpenedStep ==
    ASSUME ChanInv, NEW cs, Extends(cs), NEW psm \in PSMs, NEW cid \in 1..Len(cs),
           cs[cid] = [psm |-> psm, state |-> "open"], on_channel_opened(psm, cid, cs)
    PROVE  ChanInv'
<1>1. cs \in Seq(Channel) /\ Opening("interrupt") \in Channel /\ Len(cs) \in Nat
  BY DEF Extends, Opening, Channel, PSMs
<1>2. CASE chans' = cs
  <2>1. ~(psm = "control" /\ active_reconnect /\ interrupt = {})
    <3> SUFFICES ASSUME chans' = Append(cs, Opening("interrupt")) PROVE FALSE
      BY DEF on_channel_opened
    <3>1. Len(chans') = Len(cs) + 1
      BY <1>1
    <3> QED BY <1>1, <1>2, <3>1
  <2>2. \A c \in control' : c \in control \/ (psm = "control" /\ c.cid = cid)
    BY DEF on_channel_opened, Adopted
  <2>3. \A c \in interrupt' : c \in interrupt \/ (psm = "interrupt" /\ c.cid = cid)
    BY <2>1 DEF on_channel_opened, Adopted
  <2>4. AdoptedChannels'
    BY <1>2, <2>2, <2>3, ExtendsKeeps DEF AdoptedChannels
  <2> QED BY <1>1, <1>2, <2>4, ExtendsKeeps, Zenon DEF ChanInv, InterruptAfterControl
<1>3. CASE chans' # cs
  <2>1. psm = "control" /\ chans' = Append(cs, Opening("interrupt"))
        /\ interrupt' = Adopted(Len(cs) + 1, FALSE)
    BY <1>3, ZenonT(40) DEF on_channel_opened
  <2>2. /\ chans' \in Seq(Channel) /\ Len(chans') = Len(cs) + 1
        /\ \A i \in 1..Len(cs) : i \in 1..Len(chans') /\ chans'[i] = cs[i]
        /\ chans'[Len(cs) + 1] = Opening("interrupt")
    BY <1>1, <2>1
  <2>3. \A c \in control' : c \in control \/ c.cid = cid
    BY DEF on_channel_opened, Adopted
  <2>4. \A c \in control' : c.cid \in 1..Len(cs) /\ cs[c.cid].psm = "control"
    BY <2>1, <2>3, ExtendsKeeps
  <2>5. \A c \in interrupt' : c.cid = Len(cs) + 1
    BY <2>1 DEF Adopted
  <2>6. AdoptedChannels'
    <3>1. \A c \in control' : c.cid \in 1..Len(chans') /\ chans'[c.cid].psm = "control"
      BY <2>2, <2>4, Zenon
    <3>2. Len(cs) + 1 \in 1..Len(chans') /\ chans'[Len(cs) + 1].psm = "interrupt"
      BY <1>1, <2>2 DEF Opening
    <3> QED BY <2>5, <3>1, <3>2 DEF AdoptedChannels
  <2>7. InterruptAfterControl'
    <3>1. cid \in 1..Len(chans') /\ chans'[cid].psm = "control" /\ chans'[cid].state # "opening"
      BY <2>1, <2>2
    <3> QED BY <3>1 DEF InterruptAfterControl
  <2> QED BY <2>2, <2>6, <2>7 DEF ChanInv
<1> QED BY <1>2, <1>3

\* A channel that moves on from its state.
LEMMA MovedExtends ==
    ASSUME ChanInv, NEW cid \in 1..Len(chans), NEW s \in {"open", "closed"}
    PROVE  LET cs == [chans EXCEPT ![cid].state = s]
           IN  Extends(cs) /\ Len(cs) = Len(chans) /\ cs[cid] = [psm |-> chans[cid].psm, state |-> s]
<1> DEFINE cs == [chans EXCEPT ![cid].state = s]
<1>1. chans \in Seq(Channel) /\ Len(chans) \in Nat /\ DOMAIN chans = 1..Len(chans)
  BY DEF ChanInv
<1>2. chans[cid] \in Channel
  BY <1>1
<1>3. [chans[cid] EXCEPT !.state = s] = [psm |-> chans[cid].psm, state |-> s]
  BY <1>2 DEF Channel
<1>4. [psm |-> chans[cid].psm, state |-> s] \in Channel
  BY <1>2 DEF Channel
<1>5. cs = [chans EXCEPT ![cid] = [psm |-> chans[cid].psm, state |-> s]]
  BY <1>3, Zenon
<1> HIDE DEF cs
<1>6. cs \in Seq(Channel) /\ Len(cs) = Len(chans)
  BY <1>1, <1>4, <1>5
<1>7. \A i \in 1..Len(chans) : cs[i] = IF i = cid THEN [psm |-> chans[cid].psm, state |-> s] ELSE chans[i]
  BY <1>1, <1>5
<1>8. Extends(cs)
  BY <1>1, <1>6, <1>7 DEF Extends
<1> QED BY <1>6, <1>7, <1>8 DEF cs

LEMMA ChannelChanInv ==
    ChanInv /\ (OnEncryptionChange \/ OnIncomingChannel \/ OnOutgoingChannel \/ OnChannelClosed
                \/ OnChannelData) => ChanInv'
<1> USE DEF ReceiveAcl
<1>1. ASSUME ChanInv, OnEncryptionChange PROVE ChanInv'
  <2>1. CASE UNCHANGED <<chans, control>>
    BY <1>1, <2>1, SameChannels DEF OnEncryptionChange
  <2>2. CASE chans' = Append(chans, Opening("control")) /\ control' = Adopted(Len(chans) + 1, FALSE)
    <3> DEFINE cs == Append(chans, Opening("control"))
    <3>1. chans \in Seq(Channel) /\ Opening("control") \in Channel /\ Len(chans) \in Nat
      BY <1>1 DEF ChanInv, Opening, Channel, PSMs
    <3>2. /\ cs \in Seq(Channel) /\ Len(cs) = Len(chans) + 1 /\ cs[Len(chans) + 1] = Opening("control")
          /\ \A i \in 1..Len(chans) : cs[i] = chans[i]
      BY <3>1
    <3> HIDE DEF cs
    <3>3. Extends(cs)
      BY <3>1, <3>2 DEF Extends, Opening
    <3>4. chans' = cs /\ interrupt' = interrupt
      BY <1>1, <2>2, Zenon DEF cs, OnEncryptionChange
    <3>5. AdoptedChannels'
      BY <1>1, <2>2, <3>1, <3>2, <3>3, <3>4, ExtendsKeeps DEF AdoptedChannels, Adopted, Opening
    <3> QED BY <1>1, <3>2, <3>3, <3>4, <3>5, ExtendsKeeps, Zenon DEF ChanInv, InterruptAfterControl
  <2> QED BY <1>1, <2>1, <2>2, ZenonT(40) DEF OnEncryptionChange
<1>2. ASSUME ChanInv, OnIncomingChannel PROVE ChanInv'
  <2>1. PICK psm \in PSMs :
          on_channel_opened(psm, Len(chans) + 1, Append(chans, [psm |-> psm, state |-> "open"]))
    BY <1>2 DEF OnIncomingChannel
  <2> DEFINE new == [psm |-> psm, state |-> "open"]
             cs == Append(chans, new)
  <2>2. chans \in Seq(Channel) /\ new \in Channel /\ Len(chans) \in Nat
    BY <1>2 DEF ChanInv, Channel
  <2>3. /\ cs \in Seq(Channel) /\ Len(cs) = Len(chans) + 1 /\ cs[Len(chans) + 1] = new
        /\ \A i \in 1..Len(chans) : cs[i] = chans[i]
    BY <2>2
  <2>4. on_channel_opened(psm, Len(chans) + 1, cs)
    BY <2>1
  <2> HIDE DEF cs
  <2>5. Extends(cs)
    BY <2>2, <2>3 DEF Extends, Opening
  <2>6. Len(chans) + 1 \in 1..Len(cs)
    BY <2>2, <2>3
  <2> QED BY <1>2, <2>3, <2>4, <2>5, <2>6, OpenedStep
<1>3. ASSUME ChanInv, OnOutgoingChannel PROVE ChanInv'
  <2>1. PICK cid \in 1..Len(chans) :
          LET cs == [chans EXCEPT ![cid].state = "open"]
          IN  \/ on_channel_opened(chans[cid].psm, cid, cs)
              \/ chans' = cs /\ UNCHANGED <<control, interrupt>>
    BY <1>3, Zenon DEF OnOutgoingChannel
  <2> DEFINE cs == [chans EXCEPT ![cid].state = "open"]
  <2>2. Extends(cs) /\ Len(cs) = Len(chans) /\ cs[cid] = [psm |-> chans[cid].psm, state |-> "open"]
    BY <1>3, MovedExtends, ZenonT(40)
  <2>3. chans[cid] \in Channel
    BY <1>3 DEF ChanInv
  <2>4. chans[cid].psm \in PSMs
    BY <2>3 DEF Channel
  <2>5. on_channel_opened(chans[cid].psm, cid, cs) \/ (chans' = cs /\ UNCHANGED <<control, interrupt>>)
    BY <2>1
  <2> HIDE DEF cs
  <2>6. CASE on_channel_opened(chans[cid].psm, cid, cs)
    BY <1>3, <2>2, <2>4, <2>6, OpenedStep
  <2>7. CASE chans' = cs /\ UNCHANGED <<control, interrupt>>
    <3>1. chans' \in Seq(Channel)
      BY <2>2, <2>7 DEF Extends
    <3>2. AdoptedChannels'
      BY <1>3, <2>2, <2>7, ExtendsKeeps, Zenon DEF AdoptedChannels
    <3>3. InterruptAfterControl'
      BY <1>3, <2>2, <2>7, ExtendsKeeps, Zenon DEF InterruptAfterControl
    <3> QED BY <3>1, <3>2, <3>3, Zenon DEF ChanInv
  <2> QED BY <2>5, <2>6, <2>7
<1>4. ASSUME ChanInv, OnChannelClosed PROVE ChanInv'
  <2>1. PICK cid \in 1..Len(chans) : chans' = [chans EXCEPT ![cid].state = "closed"]
    BY <1>4, Zenon DEF OnChannelClosed
  <2>2. Extends(chans')
    BY <1>4, <2>1, MovedExtends, Zenon
  <2>3. UNCHANGED <<control, interrupt>>
    BY <1>4, Zenon DEF OnChannelClosed
  <2>4. AdoptedChannels' /\ InterruptAfterControl'
    BY <1>4, <2>2, <2>3, ExtendsKeeps, Zenon DEF AdoptedChannels, InterruptAfterControl
  <2> QED BY <2>2, <2>4 DEF ChanInv, Extends
<1>5. ASSUME ChanInv, OnChannelData PROVE ChanInv'
  BY <1>5, SameChannels DEF OnChannelData
<1> QED BY <1>1, <1>2, <1>3, <1>4, <1>5

-----------------------------------------------------------------------------
(* The invariant and its consequences *)

IInv == LinkInv /\ ChanInv

LEMMA NextIInv == IInv /\ [Next]_vars => IInv'
<1> SUFFICES ASSUME IInv, [Next]_vars PROVE IInv'
  OBVIOUS
<1> USE DEF IInv
<1>1. CASE Application
  <2>1. LinkInv'
    BY <1>1, StartSteps, DisconnectSteps, PollCloseSteps DEF Application
  <2>2. UNCHANGED chans /\ (UNCHANGED <<control, interrupt>> \/ ResetProtocols)
    BY <1>1, ZenonT(40) DEF Application, start_pairing, start_reconnect, StartFails, disconnect, DisconnectFails,
                poll, close, hostVars, session
  <2> QED BY <2>1, <2>2, SameChannels
<1>2. CASE OnConnectionRequest \/ OnUnexpectedConnection \/ OnLinkKeyRequest
           \/ OnLinkKeyNotification \/ OnAuthenticationComplete
  <2>1. UNCHANGED <<chans, control, interrupt>>
    BY <1>2 DEF OnConnectionRequest, OnUnexpectedConnection, OnLinkKeyRequest, OnLinkKeyNotification,
                OnAuthenticationComplete, hostVars
  <2> QED BY <1>2, <2>1, RequestSteps, SameChannels, Zenon
<1>3. CASE OnConnected
  BY <1>3, ConnectedStep, NoChannels DEF OnConnected
<1>4. CASE OnConnectionFailed
  BY <1>4, FailedStep, SameChannels DEF OnConnectionFailed
<1>5. CASE OnDisconnectionComplete
  <2>1. UNCHANGED <<chans, control, interrupt>> \/ (chans' = <<>> /\ ResetProtocols)
    BY <1>5 DEF OnDisconnectionComplete, hostVars
  <2> QED BY <1>5, <2>1, DisconnectionStep, SameChannels, NoChannels
<1>6. CASE OnEncryptionChange \/ OnIncomingChannel \/ OnOutgoingChannel \/ OnChannelClosed \/ OnChannelData
  BY <1>6, EncryptionStep, ChannelSteps, ChannelChanInv
<1>7. CASE ProtocolViolation \/ StrayAcl \/ BondStoreFails \/ SourceTerminated
  <2>1. UNCHANGED <<chans, control, interrupt>>
    BY <1>7 DEF ProtocolViolation, StrayAcl, BondStoreFails, SourceTerminated, Fail, hostVars
  <2> QED BY <1>7, <2>1, FailSteps, SameChannels, Zenon
<1>8. CASE Controller
  <2>1. UNCHANGED <<chans, control, interrupt>>
    BY <1>8, ZenonT(40) DEF Controller, PeerPages, PeerAsksSco, RequestEnds, PageEnds, AttemptEnds, SecurityStep,
                PeerSendsAcl, LinkEnds, Emit, session, hostVars
  <2> QED BY <1>8, <2>1, ControllerSteps, SameChannels
<1>9. CASE UNCHANGED vars
  BY <1>9, ElsewhereStep, SameChannels DEF vars, session, hostVars, controller
<1> QED BY <1>1, <1>2, <1>3, <1>4, <1>5, <1>6, <1>7, <1>8, <1>9 DEF Next, HandlePacket

LEMMA Invariance == Spec => []IInv
<1>1. Init => IInv
  BY InitLinkInv, InitChanInv DEF IInv
<1> QED BY <1>1, NextIInv, PTL DEF Spec

\* The session's record of the link and the host's agree, through every order
\* of calls, events and half-failed disconnects.
THEOREM LinkRecordsAgree == Spec => []LinkAgreement
<1>1. IInv => LinkAgreement
  BY DEF IInv, LinkInv
<1> QED BY <1>1, Invariance, PTL

\* Whatever ended before it, an open window has the scan mode it needs.
THEOREM OpenWindowsScan == Spec => []WindowScans
<1>1. IInv => WindowScans
  BY DEF IInv, LinkInv
<1> QED BY <1>1, Invariance, PTL

\* Outside a window the adapter accepts no pages, unless windows overlapped or a
\* call failed half-way.
THEOREM ScanningEnds == Spec => []ScanOnlyInWindow
<1>1. IInv => ScanOnlyInWindow
  BY DEF IInv, LinkInv
<1> QED BY <1>1, Invariance, PTL

\* No Disconnected event is lost: a full queue ends the session instead.
THEOREM DisconnectIsTold == Spec => []NoLostDisconnect
<1>1. IInv => NoLostDisconnect
  BY DEF IInv, LinkInv
<1> QED BY <1>1, Invariance, PTL

\* Channels of our own are opened only for a reconnect.
THEOREM ReconnectOnly == Spec => []ActiveReconnect
<1>1. IInv => ActiveReconnect
  BY DEF IInv, LinkInv
<1> QED BY <1>1, Invariance, PTL

\* The control and interrupt CIDs the session holds are channels of the current
\* link, of their PSM.
THEOREM ChannelsAreCurrent == Spec => []AdoptedChannels
<1>1. IInv => AdoptedChannels
  BY DEF IInv, ChanInv
<1> QED BY <1>1, Invariance, PTL

\* The interrupt channel is requested after a control channel left its set-up.
THEOREM ControlComesFirst == Spec => []InterruptAfterControl
<1>1. IInv => InterruptAfterControl
  BY DEF IInv, ChanInv
<1> QED BY <1>1, Invariance, PTL

-----------------------------------------------------------------------------
(* The order of events *)

Phases == {"new", "auth", "asked", "unpaired", "keyed", "authenticated", "encrypting", "open", "closing"}
Types == {"ConnectionRequest", "ConnectionComplete", "DisconnectionComplete", "LinkKeyRequest",
          "LinkKeyNotification", "AuthenticationComplete", "EncryptionChange", "Acl"}
Links == [peer : Peers, phase : Phases]
Packets == [type : Types, handle : Handles \cup {AnyHandle}, peer : Peers, ok : BOOLEAN, acl : BOOLEAN]

\* The controller's variables have their types.
ControllerType ==
    /\ acl \in [Handles -> SUBSET Links] /\ page \subseteq Peers /\ pipe \in Seq(Packets)

\* What a packet says of the link h: that it begins, something about it, that it
\* ends. Requests for a link key name the peer and data is not an event, so
\* neither counts.
Begins(m, h) == m.type = "ConnectionComplete" /\ m.ok /\ m.handle = h
Tells(m, h) == m.type \in {"AuthenticationComplete", "EncryptionChange", "DisconnectionComplete"} /\ m.handle = h
Ends(m, h) == m.type = "DisconnectionComplete" /\ m.handle = h

HasBegin(q, h) == \E i \in 1..Len(q) : Begins(q[i], h)
HasEnd(q, h) == \E i \in 1..Len(q) : Ends(q[i], h)

\* The packets q tell the life of the link h in order, from where the session
\* knows it (known, a set of handles) to where the controller has it (live): at
\* most one beginning, before everything else; at most one end, after everything
\* else; nothing of a link that has not begun; and the link the session will know
\* after q is the one the controller has, or had before it ended.
Orderly(q, h, known, live) ==
    /\ \A i \in 1..Len(q) : Begins(q[i], h) =>
            h \notin known /\ \A j \in 1..(i - 1) : ~Begins(q[j], h) /\ ~Tells(q[j], h)
    /\ \A i \in 1..Len(q) : Ends(q[i], h) =>
            h \notin live /\ \A j \in (i + 1)..Len(q) : ~Begins(q[j], h) /\ ~Tells(q[j], h)
    /\ \A i \in 1..Len(q) : Tells(q[i], h) => h \in known \/ \E j \in 1..(i - 1) : Begins(q[j], h)
    /\ (h \in known \/ HasBegin(q, h)) <=> (h \in live \/ HasEnd(q, h))

\* The session knows a link as the host's, or as one it rejected.
Known == {h \in Handles : HostHandle(h) \/ h \in rejected}
Live == {h \in Handles : acl[h] # {}}

\* The host has one link, which is not a rejected one.
OneLink ==
    /\ \A l, m \in link : l = m
    /\ \A h \in Handles : ~(HostHandle(h) /\ h \in rejected)

\* The packets that tell of a link name a handle.
Names(m) == Begins(m, m.handle) \/ Tells(m, m.handle) => m.handle \in Handles
Named == \A i \in 1..Len(pipe) : Names(pipe[i])

\* As long as no window was opened on an unsettled session, every link is told of
\* in order.
EventsInOrder ==
    Active /\ ~overlapped => Named /\ OneLink /\ \A h \in Handles : Orderly(pipe, h, Known, Live)

-----------------------------------------------------------------------------
(* Packets leave the pipe at its head, and enter it behind all of their kind *)

LEMMA ConcatProperties ==
  ASSUME NEW S, NEW s1 \in Seq(S), NEW s2 \in Seq(S)
  PROVE  /\ s1 \o s2 \in Seq(S)
         /\ Len(s1 \o s2) = Len(s1) + Len(s2)
         /\ \A i \in 1..(Len(s1) + Len(s2)) : (s1 \o s2)[i] =
                     IF i <= Len(s1) THEN s1[i] ELSE s2[i - Len(s1)]
  OBVIOUS

LEMMA HeadTailProperties ==
   ASSUME NEW S,
          NEW seq \in Seq(S), seq # <<>>
   PROVE  /\ Head(seq) \in S
          /\ Tail(seq) \in Seq(S)
          /\ Len(Tail(seq)) = Len(seq) - 1
          /\ \A i \in 1..Len(Tail(seq)) : Tail(seq)[i] = seq[i + 1]
  OBVIOUS

LEMMA SubSeqProperties ==
  ASSUME NEW S, NEW s, NEW m \in Int, NEW n \in Int,
         \A i \in m..n : s[i] \in S
   PROVE /\ SubSeq(s, m, n) \in Seq(S)
         /\ Len(SubSeq(s, m, n)) = IF m <= n THEN n - m + 1 ELSE 0
         /\ \A i \in 1..(n - m + 1) : SubSeq(s, m, n)[i] = s[m + i - 1]
  OBVIOUS

LEMMA TailFacts ==
    ASSUME NEW q \in Seq(Packets), q # <<>>
    PROVE  /\ Tail(q) \in Seq(Packets) /\ Len(q) \in Nat /\ Len(q) > 0 /\ Len(Tail(q)) = Len(q) - 1
           /\ q[1] = Head(q) /\ \A i \in 1..(Len(q) - 1) : Tail(q)[i] = q[i + 1]
  BY HeadTailProperties

\* What ends a link is still the last of it behind a packet that has left.
LEMMA TailAfterEnd ==
    ASSUME NEW q, NEW t, NEW h, NEW K, NEW L, Orderly(q, h, K, L),
           Len(q) \in Nat, Len(q) > 0, Len(t) = Len(q) - 1, \A i \in 1..(Len(q) - 1) : t[i] = q[i + 1],
           NEW i \in 1..Len(t), Ends(t[i], h)
    PROVE  h \notin L /\ \A j \in (i + 1)..Len(t) : ~Begins(t[j], h) /\ ~Tells(t[j], h)
<1>1. i + 1 \in 1..Len(q) /\ t[i] = q[i + 1]
  OBVIOUS
<1>2. h \notin L /\ \A j \in ((i + 1) + 1)..Len(q) : ~Begins(q[j], h) /\ ~Tells(q[j], h)
  BY <1>1, Zenon DEF Orderly
<1>3. \A j \in (i + 1)..Len(t) : j + 1 \in ((i + 1) + 1)..Len(q) /\ t[j] = q[j + 1]
  OBVIOUS
<1> QED BY <1>2, <1>3, Zenon

\* A packet that says nothing of h.
LEMMA TailOther ==
    ASSUME NEW q \in Seq(Packets), q # <<>>, NEW h, NEW K, NEW L,
           Orderly(q, h, K, L), ~Begins(Head(q), h), ~Tells(Head(q), h)
    PROVE  Orderly(Tail(q), h, K, L)
<1> DEFINE t == Tail(q)
<1>1. Len(q) \in Nat /\ Len(q) > 0 /\ Len(t) = Len(q) - 1 /\ q[1] = Head(q) /\ \A i \in 1..(Len(q) - 1) : t[i] = q[i + 1]
  BY TailFacts
<1>0. ~Ends(Head(q), h)
  BY DEF Tells, Ends
<1> HIDE DEF t
<1>2. ASSUME NEW i \in 1..Len(t), Begins(t[i], h)
      PROVE  h \notin K /\ \A j \in 1..(i - 1) : ~Begins(t[j], h) /\ ~Tells(t[j], h)
  BY <1>1, <1>2, SMTT(30) DEF Orderly
<1>3. ASSUME NEW i \in 1..Len(t), Ends(t[i], h)
      PROVE  h \notin L /\ \A j \in (i + 1)..Len(t) : ~Begins(t[j], h) /\ ~Tells(t[j], h)
  BY <1>1, <1>3, TailAfterEnd, Zenon
<1>4. ASSUME NEW i \in 1..Len(t), Tells(t[i], h)
      PROVE  h \in K \/ \E j \in 1..(i - 1) : Begins(t[j], h)
  <2>1. i + 1 \in 1..Len(q) /\ t[i] = q[i + 1]
    BY <1>1
  <2>2. CASE h \notin K
    <3>1. PICK j \in 1..i : Begins(q[j], h)
      BY <1>4, <2>1, <2>2 DEF Orderly
    <3>2. j # 1 /\ j - 1 \in 1..(i - 1) /\ t[j - 1] = q[j]
      BY <1>1, <3>1
    <3> QED BY <3>1, <3>2
  <2> QED BY <2>2
<1>5. HasBegin(t, h) <=> HasBegin(q, h)
  <2>1. ASSUME NEW i \in 1..Len(t), Begins(t[i], h) PROVE HasBegin(q, h)
    BY <1>1, <2>1 DEF HasBegin
  <2>2. ASSUME NEW i \in 1..Len(q), Begins(q[i], h) PROVE HasBegin(t, h)
    <3>1. i # 1 /\ i - 1 \in 1..Len(t) /\ t[i - 1] = q[i]
      BY <1>1, <2>2
    <3> QED BY <2>2, <3>1, Zenon DEF HasBegin
  <2> QED BY <2>1, <2>2 DEF HasBegin
<1>6. HasEnd(t, h) <=> HasEnd(q, h)
  <2>1. ASSUME NEW i \in 1..Len(t), Ends(t[i], h) PROVE HasEnd(q, h)
    BY <1>1, <2>1 DEF HasEnd
  <2>2. ASSUME NEW i \in 1..Len(q), Ends(q[i], h) PROVE HasEnd(t, h)
    <3>1. i # 1 /\ i - 1 \in 1..Len(t) /\ t[i - 1] = q[i]
      BY <1>0, <1>1, <2>2
    <3> QED BY <2>2, <3>1, Zenon DEF HasEnd
  <2> QED BY <2>1, <2>2 DEF HasEnd
<1>7. Orderly(t, h, K, L)
  BY <1>2, <1>3, <1>4, <1>5, <1>6 DEF Orderly
<1> QED BY <1>7 DEF t

\* The link h begins: nobody knew it, and from now on the session does.
LEMMA TailBegins ==
    ASSUME NEW q \in Seq(Packets), q # <<>>, NEW h, NEW K, NEW L, NEW K2, h \in K2,
           Orderly(q, h, K, L), Begins(Head(q), h)
    PROVE  h \notin K /\ Orderly(Tail(q), h, K2, L)
<1> DEFINE t == Tail(q)
<1>1. Len(q) \in Nat /\ Len(q) > 0 /\ Len(t) = Len(q) - 1 /\ q[1] = Head(q) /\ \A i \in 1..(Len(q) - 1) : t[i] = q[i + 1]
  BY TailFacts
<1>0. ~Ends(Head(q), h)
  BY Zenon DEF Begins, Ends
<1> HIDE DEF t
<1>2. h \notin K /\ \A i \in 1..Len(t) : ~Begins(t[i], h)
  BY <1>1 DEF Orderly
<1>3. ASSUME NEW i \in 1..Len(t), Ends(t[i], h)
      PROVE  h \notin L /\ \A j \in (i + 1)..Len(t) : ~Begins(t[j], h) /\ ~Tells(t[j], h)
  BY <1>1, <1>3, TailAfterEnd, Zenon
<1>4. h \in L \/ HasEnd(t, h)
  <2>1. h \in L \/ \E i \in 1..Len(q) : Ends(q[i], h)
    BY <1>1 DEF Orderly, HasBegin, HasEnd
  <2>2. ASSUME NEW i \in 1..Len(q), Ends(q[i], h) PROVE HasEnd(t, h)
    <3>1. i # 1 /\ i - 1 \in 1..Len(t) /\ t[i - 1] = q[i]
      BY <1>0, <1>1, <2>2
    <3> QED BY <2>2, <3>1 DEF HasEnd
  <2> QED BY <2>1, <2>2
<1>7. Orderly(t, h, K2, L)
  BY <1>2, <1>3, <1>4 DEF Orderly
<1> QED BY <1>2, <1>7 DEF t

\* Something of the link h that does not end it: the session knows the link.
LEMMA TailTells ==
    ASSUME NEW q \in Seq(Packets), q # <<>>, NEW h, NEW K, NEW L,
           Orderly(q, h, K, L), Tells(Head(q), h), ~Ends(Head(q), h)
    PROVE  h \in K /\ Orderly(Tail(q), h, K, L)
<1> DEFINE t == Tail(q)
<1>1. Len(q) \in Nat /\ Len(q) > 0 /\ Len(t) = Len(q) - 1 /\ q[1] = Head(q) /\ \A i \in 1..(Len(q) - 1) : t[i] = q[i + 1]
  BY TailFacts
<1> HIDE DEF t
<1>2. h \in K
  BY <1>1 DEF Orderly
<1>3. \A i \in 1..Len(t) : ~Begins(t[i], h)
  BY <1>1, <1>2 DEF Orderly
<1>4. ASSUME NEW i \in 1..Len(t), Ends(t[i], h)
      PROVE  h \notin L /\ \A j \in (i + 1)..Len(t) : ~Begins(t[j], h) /\ ~Tells(t[j], h)
  BY <1>1, <1>4, TailAfterEnd, Zenon
<1>5. h \in L \/ HasEnd(t, h)
  <2>1. h \in L \/ \E i \in 1..Len(q) : Ends(q[i], h)
    BY <1>1, <1>2 DEF Orderly, HasBegin, HasEnd
  <2>2. ASSUME NEW i \in 1..Len(q), Ends(q[i], h) PROVE HasEnd(t, h)
    <3>1. i # 1 /\ i - 1 \in 1..Len(t) /\ t[i - 1] = q[i]
      BY <1>1, <2>2
    <3> QED BY <2>2, <3>1 DEF HasEnd
  <2> QED BY <2>1, <2>2
<1>7. Orderly(t, h, K, L)
  BY <1>2, <1>3, <1>4, <1>5 DEF Orderly
<1> QED BY <1>2, <1>7 DEF t

\* The end of the link h: the session knew it, the controller had it no more, and
\* nothing of it is left.
LEMMA TailEnds ==
    ASSUME NEW q \in Seq(Packets), q # <<>>, NEW h, NEW K, NEW L, NEW K2, h \notin K2,
           Orderly(q, h, K, L), Ends(Head(q), h)
    PROVE  h \in K /\ Orderly(Tail(q), h, K2, L)
<1> DEFINE t == Tail(q)
<1>1. Len(q) \in Nat /\ Len(q) > 0 /\ Len(t) = Len(q) - 1 /\ q[1] = Head(q) /\ \A i \in 1..(Len(q) - 1) : t[i] = q[i + 1]
  BY TailFacts
<1>0. Tells(Head(q), h)
  BY Zenon DEF Tells, Ends
<1> HIDE DEF t
<1>2. h \in K /\ h \notin L
  BY <1>0, <1>1 DEF Orderly
<1>3. \A i \in 1..Len(t) : ~Begins(t[i], h) /\ ~Tells(t[i], h)
  BY <1>1, SMTT(30) DEF Orderly
<1>4. \A i \in 1..Len(t) : ~Ends(t[i], h)
  BY <1>3 DEF Tells, Ends
<1>7. Orderly(t, h, K2, L)
  BY <1>2, <1>3, <1>4 DEF Orderly, HasBegin, HasEnd
<1> QED BY <1>2, <1>7, Zenon DEF t

\* r is q with the packet m at i, behind all packets of its kind.
Inserted(q, r, i, m) ==
    /\ Len(q) \in Nat /\ Len(r) = Len(q) + 1 /\ i \in 1..Len(r) /\ r[i] = m
    /\ \A n \in 1..Len(r) : n < i => n \in 1..Len(q) /\ r[n] = q[n]
    /\ \A n \in 1..Len(r) : n > i => n - 1 \in 1..Len(q) /\ r[n] = q[n - 1]
    /\ \A j \in 1..Len(q) : j < i => j \in 1..Len(r) /\ r[j] = q[j]
    /\ \A j \in 1..Len(q) : ~(j < i) => j + 1 \in 1..Len(r) /\ r[j + 1] = q[j]
    /\ m.type # "Acl" => \A n \in 1..Len(r) : n > i => r[n].type = "Acl"

Splice(q, i, m) == SubSeq(q, 1, i - 1) \o <<m>> \o SubSeq(q, i, Len(q))

LEMMA Joining ==
    \A x, y \in Seq(Packets) :
        /\ x \o y \in Seq(Packets) /\ Len(x \o y) = Len(x) + Len(y)
        /\ \A j \in 1..(Len(x) + Len(y)) : (x \o y)[j] = IF j <= Len(x) THEN x[j] ELSE y[j - Len(x)]
  BY ConcatProperties, Zenon

LEMMA InsertFacts ==
    ASSUME NEW q \in Seq(Packets), NEW m \in Packets, NEW i \in 1..(Len(q) + 1),
           \A j \in i..Len(q) : (q[j].type = "Acl") # (m.type = "Acl")
    PROVE  Splice(q, i, m) \in Seq(Packets) /\ Inserted(q, Splice(q, i, m), i, m)
<1> DEFINE a == SubSeq(q, 1, i - 1)
           b == SubSeq(q, i, Len(q))
           r == (a \o <<m>>) \o b
<1>1. Splice(q, i, m) = r
  BY DEF Splice
<1>2. Len(q) \in Nat
  OBVIOUS
<1>3. a \in Seq(Packets) /\ Len(a) = i - 1 /\ \A j \in 1..(i - 1) : a[j] = q[j]
  BY <1>2, SubSeqProperties
<1>4. b \in Seq(Packets) /\ Len(b) = Len(q) - i + 1 /\ \A j \in 1..(Len(q) - i + 1) : b[j] = q[i + j - 1]
  BY <1>2, SubSeqProperties
<1>5. <<m>> \in Seq(Packets) /\ Len(<<m>>) = 1 /\ <<m>>[1] = m
  OBVIOUS
<1> HIDE DEF a, b
<1>6. /\ a \o <<m>> \in Seq(Packets) /\ Len(a \o <<m>>) = i
      /\ \A j \in 1..i : (a \o <<m>>)[j] = IF j <= i - 1 THEN a[j] ELSE <<m>>[j - (i - 1)]
  <2>1. /\ a \o <<m>> \in Seq(Packets) /\ Len(a \o <<m>>) = Len(a) + Len(<<m>>)
        /\ \A j \in 1..(Len(a) + Len(<<m>>)) :
              (a \o <<m>>)[j] = IF j <= Len(a) THEN a[j] ELSE <<m>>[j - Len(a)]
    BY <1>3, <1>5, Joining, Zenon
  <2>2. Len(a) + Len(<<m>>) = i /\ Len(a) = i - 1
    BY <1>2, <1>3, <1>5
  <2> QED BY <2>1, <2>2
<1> DEFINE c == a \o <<m>>
<1> HIDE DEF c
<1>7. c \in Seq(Packets) /\ Len(c) = i /\ c[i] = m /\ \A j \in 1..(i - 1) : c[j] = q[j]
  BY <1>2, <1>3, <1>5, <1>6 DEF c
<1>8. /\ c \o b \in Seq(Packets) /\ Len(c \o b) = Len(q) + 1
      /\ \A j \in 1..(Len(q) + 1) : (c \o b)[j] = IF j <= i THEN c[j] ELSE b[j - i]
  <2>1. /\ c \o b \in Seq(Packets) /\ Len(c \o b) = Len(c) + Len(b)
        /\ \A j \in 1..(Len(c) + Len(b)) : (c \o b)[j] = IF j <= Len(c) THEN c[j] ELSE b[j - Len(c)]
    BY <1>4, <1>7, Joining, Zenon
  <2>2. Len(c) + Len(b) = Len(q) + 1 /\ Len(c) = i
    BY <1>2, <1>4, <1>7
  <2> QED BY <2>1, <2>2
<1>9. \A j \in 1..(i - 1) : (c \o b)[j] = q[j]
  BY <1>2, <1>7, <1>8
<1>10. ASSUME NEW j \in i..Len(q) PROVE (c \o b)[j + 1] = q[j]
  <2>1. j + 1 \in 1..(Len(q) + 1) /\ ~(j + 1 <= i) /\ (j + 1) - i \in 1..(Len(q) - i + 1) /\ i + ((j + 1) - i) - 1 = j
    BY <1>2
  <2> QED BY <1>4, <1>8, <2>1
<1>11. (c \o b)[i] = m
  BY <1>2, <1>7, <1>8
<1> DEFINE e == c \o b
<1> HIDE DEF e
<1>12. Len(e) = Len(q) + 1 /\ i \in 1..Len(e) /\ e[i] = m
  BY <1>2, <1>8, <1>11 DEF e
<1>13. ASSUME NEW n \in 1..Len(e), n < i PROVE n \in 1..Len(q) /\ e[n] = q[n]
  BY <1>2, <1>9, <1>12, <1>13 DEF e
<1>14. ASSUME NEW n \in 1..Len(e), n > i
       PROVE  n - 1 \in 1..Len(q) /\ e[n] = q[n - 1] /\ (m.type # "Acl" => e[n].type = "Acl")
  <2>1. n - 1 \in i..Len(q) /\ n - 1 \in 1..Len(q) /\ (n - 1) + 1 = n
    BY <1>2, <1>12, <1>14
  <2>2. e[n] = q[n - 1]
    BY <1>10, <2>1, Zenon DEF e
  <2>3. (q[n - 1].type = "Acl") # (m.type = "Acl")
    BY <2>1, Zenon
  <2>4. m.type # "Acl" => q[n - 1].type = "Acl"
    BY <2>3, Zenon
  <2> QED BY <2>1, <2>2, <2>4, Zenon
<1>15. ASSUME NEW j \in 1..Len(q)
       PROVE  /\ j < i => j \in 1..Len(e) /\ e[j] = q[j]
              /\ ~(j < i) => j + 1 \in 1..Len(e) /\ e[j + 1] = q[j]
  <2>1. CASE j < i
    BY <1>2, <1>9, <1>12, <2>1 DEF e
  <2>2. CASE ~(j < i)
    <3>1. j \in i..Len(q) /\ j + 1 \in 1..Len(e)
      BY <1>2, <1>12, <2>2
    <3> QED BY <1>10, <2>2, <3>1, Zenon DEF e
  <2> QED BY <2>1, <2>2, Zenon
<1>16. Inserted(q, e, i, m)
  BY <1>2, <1>12, <1>13, <1>14, <1>15, Zenon DEF Inserted
<1> QED BY <1>1, <1>8, <1>16, Zenon DEF c, e

\* A packet that says nothing of h.
LEMMA InsertOther ==
    ASSUME NEW q, NEW r, NEW m, NEW i, Inserted(q, r, i, m),
           NEW h, NEW K, NEW L, Orderly(q, h, K, L), ~Begins(m, h), ~Tells(m, h)
    PROVE  Orderly(r, h, K, L)
<1>0. ~Ends(m, h)
  BY Zenon DEF Tells, Ends
<1>1. /\ Len(q) \in Nat /\ Len(r) = Len(q) + 1 /\ i \in 1..Len(r) /\ r[i] = m
      /\ \A n \in 1..Len(r) : n < i => n \in 1..Len(q) /\ r[n] = q[n]
      /\ \A n \in 1..Len(r) : n > i => n - 1 \in 1..Len(q) /\ r[n] = q[n - 1]
  BY Zenon DEF Inserted
<1>a. /\ \A j \in 1..Len(q) : j < i => j \in 1..Len(r) /\ r[j] = q[j]
      /\ \A j \in 1..Len(q) : ~(j < i) => j + 1 \in 1..Len(r) /\ r[j + 1] = q[j]
  BY Zenon DEF Inserted
<1>b. ASSUME NEW n \in 1..Len(r), NEW o \in 1..Len(r), n # i, o # i, o < n
      PROVE  \E j \in 1..Len(q), p \in 1..Len(q) : r[n] = q[j] /\ r[o] = q[p] /\ p < j
  <2>1. PICK j \in 1..Len(q) : r[n] = q[j] /\ j = IF n < i THEN n ELSE n - 1
    BY <1>1, <1>b
  <2>2. PICK p \in 1..Len(q) : r[o] = q[p] /\ p = IF o < i THEN o ELSE o - 1
    BY <1>1, <1>b
  <2>3. p < j
    BY <1>1, <1>b, <2>1, <2>2
  <2> QED BY <2>1, <2>2, <2>3, Zenon
<1>c. \A n \in 1..Len(r) : n # i => \E j \in 1..Len(q) : r[n] = q[j]
  <2>1. Len(q) \in Nat /\ Len(r) = Len(q) + 1 /\ i \in 1..Len(r)
    BY <1>1, Zenon
  <2>2. \A n \in 1..Len(r) : n < i \/ n = i \/ n > i
    BY <2>1
  <2> QED BY <1>1, <2>2, Zenon
<1>2. ASSUME NEW n \in 1..Len(r), Begins(r[n], h)
      PROVE  h \notin K /\ \A o \in 1..(n - 1) : ~Begins(r[o], h) /\ ~Tells(r[o], h)
  <2>1. n # i /\ h \notin K
    BY <1>1, <1>2, <1>c, Zenon DEF Orderly
  <2>2. ASSUME NEW o \in 1..(n - 1), o # i PROVE ~Begins(r[o], h) /\ ~Tells(r[o], h)
    <3>1. o \in 1..Len(r) /\ o < n
      BY <1>1
    <3>2. PICK j \in 1..Len(q), p \in 1..Len(q) : r[n] = q[j] /\ r[o] = q[p] /\ p < j
      BY <1>b, <2>1, <2>2, <3>1, Zenon
    <3>3. p \in 1..(j - 1)
      BY <1>1, <3>2
    <3> QED BY <1>2, <3>2, <3>3, Zenon DEF Orderly
  <2> QED BY <1>1, <2>1, <2>2, Zenon
<1>3. ASSUME NEW n \in 1..Len(r), Ends(r[n], h)
      PROVE  h \notin L /\ \A o \in (n + 1)..Len(r) : ~Begins(r[o], h) /\ ~Tells(r[o], h)
  <2>1. n # i /\ h \notin L
    BY <1>0, <1>1, <1>3, <1>c, Zenon DEF Orderly
  <2>2. ASSUME NEW o \in (n + 1)..Len(r), o # i PROVE ~Begins(r[o], h) /\ ~Tells(r[o], h)
    <3>1. o \in 1..Len(r) /\ n < o
      BY <1>1
    <3>2. PICK j \in 1..Len(q), p \in 1..Len(q) : r[o] = q[j] /\ r[n] = q[p] /\ p < j
      BY <1>b, <2>1, <2>2, <3>1, Zenon
    <3>3. j \in (p + 1)..Len(q)
      BY <1>1, <3>2
    <3> QED BY <1>3, <3>2, <3>3, Zenon DEF Orderly
  <2> QED BY <1>1, <2>1, <2>2, Zenon
<1>4. ASSUME NEW n \in 1..Len(r), Tells(r[n], h)
      PROVE  h \in K \/ \E o \in 1..(n - 1) : Begins(r[o], h)
  <2>1. n # i
    BY <1>1, <1>4, Zenon
  <2>2. PICK j \in 1..Len(q) : r[n] = q[j] /\ j = IF n < i THEN n ELSE n - 1
    BY <1>1, <2>1
  <2>3. CASE h \notin K
    <3>1. PICK p \in 1..(j - 1) : Begins(q[p], h)
      BY <1>4, <2>2, <2>3, Zenon DEF Orderly
    <3>2. p \in 1..Len(q) /\ p < j /\ p \in Int
      BY <1>1
    <3>3. PICK o \in 1..Len(r) : r[o] = q[p] /\ o = IF p < i THEN p ELSE p + 1
      BY <1>a, <3>2, Zenon
    <3>4. o \in 1..(n - 1)
      BY <1>1, <2>2, <3>2, <3>3, SMTT(30)
    <3> QED BY <3>1, <3>3, <3>4, Zenon
  <2> QED BY <2>3, Zenon
<1>5. HasBegin(r, h) <=> HasBegin(q, h)
  <2>1. ASSUME NEW n \in 1..Len(r), Begins(r[n], h) PROVE \E j \in 1..Len(q) : Begins(q[j], h)
    BY <1>1, <1>c, <2>1, Zenon
  <2>2. ASSUME NEW j \in 1..Len(q), Begins(q[j], h) PROVE \E n \in 1..Len(r) : Begins(r[n], h)
    BY <1>1, <1>a, <2>2, Zenon
  <2> QED BY <2>1, <2>2, Zenon DEF HasBegin
<1>6. HasEnd(r, h) <=> HasEnd(q, h)
  <2>1. ASSUME NEW n \in 1..Len(r), Ends(r[n], h) PROVE \E j \in 1..Len(q) : Ends(q[j], h)
    BY <1>0, <1>1, <1>c, <2>1, Zenon
  <2>2. ASSUME NEW j \in 1..Len(q), Ends(q[j], h) PROVE \E n \in 1..Len(r) : Ends(r[n], h)
    BY <1>1, <1>a, <2>2, Zenon
  <2> QED BY <2>1, <2>2 DEF HasEnd
<1> QED BY <1>2, <1>3, <1>4, <1>5, <1>6 DEF Orderly

\* The first packet of a link h that has just come up.
LEMMA InsertBegins ==
    ASSUME NEW q, NEW r, NEW m, NEW i, Inserted(q, r, i, m),
           NEW h, NEW K, NEW L, NEW L2, h \notin L, h \in L2, Orderly(q, h, K, L), Begins(m, h), \A j \in 1..Len(q) : q[j].handle # h
    PROVE  Orderly(r, h, K, L2)
<1>1. /\ Len(q) \in Nat /\ Len(r) = Len(q) + 1 /\ i \in 1..Len(r) /\ r[i] = m
      /\ \A n \in 1..Len(r) : n < i => n \in 1..Len(q) /\ r[n] = q[n]
      /\ \A n \in 1..Len(r) : n > i => n - 1 \in 1..Len(q) /\ r[n] = q[n - 1]
  BY Zenon DEF Inserted
<1>a. \A n \in 1..Len(r) : n # i => \E j \in 1..Len(q) : r[n] = q[j]
  <2>1. Len(q) \in Nat /\ Len(r) = Len(q) + 1 /\ i \in 1..Len(r)
    BY <1>1, Zenon
  <2>2. \A n \in 1..Len(r) : n < i \/ n = i \/ n > i
    BY <2>1
  <2> QED BY <1>1, <2>2, Zenon
<1>2. \A j \in 1..Len(q) : ~Begins(q[j], h) /\ ~Tells(q[j], h) /\ ~Ends(q[j], h)
  BY DEF Begins, Tells, Ends
<1>3. ~Tells(m, h) /\ ~Ends(m, h)
  BY DEF Begins, Tells, Ends
<1>4. \A n \in 1..Len(r) : ~Tells(r[n], h) /\ ~Ends(r[n], h) /\ (Begins(r[n], h) => n = i)
  BY <1>1, <1>2, <1>3, <1>a, Zenon
<1>5. h \notin K
  BY <1>2, Zenon DEF Orderly, HasEnd
<1>6. HasBegin(r, h)
  BY <1>1, Zenon DEF HasBegin
<1>7. ASSUME NEW n \in 1..Len(r), Begins(r[n], h)
      PROVE  \A o \in 1..(n - 1) : ~Begins(r[o], h) /\ ~Tells(r[o], h)
  BY <1>1, <1>4, <1>7
<1> QED BY <1>4, <1>5, <1>6, <1>7, Zenon DEF Orderly

\* A packet of a link the controller has.
LEMMA InsertTells ==
    ASSUME NEW q, NEW r, NEW m, NEW i, Inserted(q, r, i, m),
           NEW h, NEW K, NEW L, NEW L2, h \in L, Orderly(q, h, K, L), Tells(m, h),
           h \in L2 <=> ~Ends(m, h)
    PROVE  Orderly(r, h, K, L2)
<1>1. /\ Len(q) \in Nat /\ Len(r) = Len(q) + 1 /\ i \in 1..Len(r) /\ r[i] = m
      /\ \A n \in 1..Len(r) : n < i => n \in 1..Len(q) /\ r[n] = q[n]
      /\ \A n \in 1..Len(r) : n > i => n - 1 \in 1..Len(q) /\ r[n] = q[n - 1]
  BY DEF Inserted
<1>a. /\ \A j \in 1..Len(q) : j < i => j \in 1..Len(r) /\ r[j] = q[j]
      /\ \A j \in 1..Len(q) : ~(j < i) => j + 1 \in 1..Len(r) /\ r[j + 1] = q[j]
  BY Zenon DEF Inserted
<1>b. \A n \in 1..Len(r) : n > i /\ m.type # "Acl" => r[n].type = "Acl"
  BY Zenon DEF Inserted
<1>e. Len(q) \in Nat /\ Len(r) = Len(q) + 1 /\ i \in 1..Len(r)
  BY <1>1, Zenon
<1>c. /\ \A n \in 1..Len(r) : n # i => \E j \in 1..Len(q) : r[n] = q[j]
      /\ \A n \in 1..Len(r) : n < i \/ n = i \/ n > i
      /\ \A o \in 1..(i - 1) : o \in 1..Len(r)
  <2>2. /\ \A n \in 1..Len(r) : n < i \/ n = i \/ n > i
        /\ \A o \in 1..(i - 1) : o \in 1..Len(r)
    BY <1>e
  <2> QED BY <1>1, <2>2, Zenon
<1>d. ASSUME NEW n \in 1..Len(r), n < i, NEW o \in 1..(n - 1)
      PROVE  o \in 1..Len(r) /\ o \in 1..Len(q) /\ r[o] = q[o]
  BY <1>1, <1>d
<1>2. \A p : Begins(p, h) \/ Tells(p, h) => p.type # "Acl"
  BY DEF Begins, Tells
<1>3. ~Begins(m, h) /\ m.type # "Acl"
  BY DEF Begins, Tells
<1>4. \A n \in 1..Len(r) : n > i => ~Begins(r[n], h) /\ ~Tells(r[n], h)
  BY <1>b, <1>2, <1>3, Zenon
<1>5. \A j \in 1..Len(q) : ~Ends(q[j], h)
  BY Zenon DEF Orderly
<1>6. \A n \in 1..Len(r) : Ends(r[n], h) => n = i
  BY <1>5, <1>c, Zenon
<1>7. ASSUME NEW n \in 1..Len(r), Begins(r[n], h)
      PROVE  h \notin K /\ \A o \in 1..(n - 1) : ~Begins(r[o], h) /\ ~Tells(r[o], h)
  <2>1. n < i
    BY <1>1, <1>3, <1>4, <1>7, <1>c, Zenon
  <2> QED BY <1>1, <1>7, <1>d, <2>1, Zenon DEF Orderly
<1>8. ASSUME NEW n \in 1..Len(r), Ends(r[n], h)
      PROVE  h \notin L2 /\ \A o \in (n + 1)..Len(r) : ~Begins(r[o], h) /\ ~Tells(r[o], h)
  <2>1. n = i /\ h \notin L2
    BY <1>1, <1>6, <1>8, Zenon
  <2>2. \A o \in (i + 1)..Len(r) : o \in 1..Len(r) /\ o > i
    BY <1>e
  <2> QED BY <1>4, <2>1, <2>2, Zenon
<1>9. h \in K \/ \E o \in 1..(i - 1) : Begins(r[o], h)
  <2>1. CASE h \notin K
    <3>1. PICK j \in 1..Len(q) : Begins(q[j], h)
      BY <2>1 DEF Orderly, HasBegin
    <3>2. PICK o \in 1..Len(r) : r[o] = q[j]
      BY <1>a, Zenon
    <3>3. o < i
      BY <1>1, <1>3, <1>4, <1>c, <3>1, <3>2, Zenon
    <3>4. o \in 1..(i - 1)
      BY <1>e, <3>3
    <3> QED BY <3>1, <3>2, <3>4, Zenon
  <2> QED BY <2>1, Zenon
<1>10. ASSUME NEW n \in 1..Len(r), Tells(r[n], h)
       PROVE  h \in K \/ \E o \in 1..(n - 1) : Begins(r[o], h)
  <2>1. n = i \/ n < i
    BY <1>4, <1>10, <1>c, Zenon
  <2>2. CASE n < i
    BY <1>1, <1>10, <1>d, <2>2, Zenon DEF Orderly
  <2> QED BY <1>9, <2>1, <2>2, Zenon
<1>11. h \in K \/ HasBegin(r, h)
  BY <1>9, <1>c, Zenon DEF HasBegin
<1>12. h \in L2 \/ HasEnd(r, h)
  BY <1>1, Zenon DEF HasEnd
<1> QED BY <1>7, <1>8, <1>10, <1>11, <1>12, Zenon DEF Orderly

LEMMA SameOrderly ==
    ASSUME NEW q, NEW h, NEW K, NEW L, NEW K2, NEW L2, Orderly(q, h, K, L),
           h \in K2 <=> h \in K, h \in L2 <=> h \in L
    PROVE  Orderly(q, h, K2, L2)
  BY Zenon DEF Orderly

-----------------------------------------------------------------------------
(* Commands to the controller keep its links *)

LEMMA PhaseFacts ==
    ASSUME ControllerType, NEW h, NEW phase \in Phases
    PROVE  /\ SetPhase(h, phase) \in [Handles -> SUBSET Links]
           /\ \A g \in Handles : SetPhase(h, phase)[g] = {} <=> acl[g] = {}
<1> DEFINE F(a) == [a EXCEPT !.phase = IF @ = "closing" THEN @ ELSE phase]
<1>1. acl \in [Handles -> SUBSET Links]
  BY DEF ControllerType
<1>2. ASSUME NEW a \in Links PROVE F(a) \in Links
  BY DEF Links, Phases
<1> HIDE DEF F
<1>3. SetPhase(h, phase) = [acl EXCEPT ![h] = {F(a) : a \in acl[h]}]
  BY DEF SetPhase, F
<1>4. ASSUME NEW g \in Handles PROVE {F(a) : a \in acl[g]} \in SUBSET Links /\ ({F(a) : a \in acl[g]} = {} <=> acl[g] = {})
  BY <1>1, <1>2, Zenon
<1> QED BY <1>1, <1>3, <1>4, Zenon

LEMMA ClosingFacts ==
    ASSUME ControllerType, NEW hs
    PROVE  /\ Closing(hs) \in [Handles -> SUBSET Links]
           /\ \A g \in Handles : Closing(hs)[g] = {} <=> acl[g] = {}
<1>1. acl \in [Handles -> SUBSET Links] /\ "closing" \in Phases
  BY DEF ControllerType, Phases
<1>2. ASSUME NEW h \in Handles
      PROVE SetPhase(h, "closing")[h] \in SUBSET Links /\ (SetPhase(h, "closing")[h] = {} <=> acl[h] = {})
  BY <1>1, PhaseFacts
<1> QED BY <1>1, <1>2 DEF Closing

LEMMA ReplyFacts ==
    ASSUME ControllerType, OnLinkKeyRequest
    PROVE  acl' \in [Handles -> SUBSET Links] /\ \A g \in Handles : acl'[g] = {} <=> acl[g] = {}
<1> DEFINE p == packet.peer
           reply == IF packet.peer \in bonds THEN "keyed" ELSE "unpaired"
           F(a) == IF a.peer = p /\ a.phase = "asked" THEN [a EXCEPT !.phase = reply] ELSE a
<1>0. reply \in Phases
  BY DEF Phases
<1>1. acl \in [Handles -> SUBSET Links]
  BY DEF ControllerType
<1> HIDE DEF p, reply
<1>2. ASSUME NEW a \in Links PROVE F(a) \in Links
  BY <1>0 DEF Links
<1>3. acl' = [h \in Handles |-> {F(a) : a \in acl[h]}]
  BY Zenon DEF OnLinkKeyRequest, p, reply
<1> HIDE DEF F
<1> QED BY <1>1, <1>2, <1>3

-----------------------------------------------------------------------------
(* What keeps the events in order *)

LEMMA SameEvents ==
    ASSUME EventsInOrder, UNCHANGED <<pipe, link, rejected>>, Active' /\ ~overlapped' => Active /\ ~overlapped,
           \A h \in Handles : acl'[h] = {} <=> acl[h] = {}
    PROVE  EventsInOrder'
<1> SUFFICES ASSUME Active', ~overlapped' PROVE (Named /\ OneLink /\ \A h \in Handles : Orderly(pipe, h, Known, Live))'
  BY Zenon DEF EventsInOrder
<1>1. Named /\ OneLink /\ \A h \in Handles : Orderly(pipe, h, Known, Live)
  BY Zenon DEF EventsInOrder
<1>2. Known' = Known /\ Live' = Live
  BY DEF Known, Live, HostHandle
<1> QED BY <1>1, <1>2, Zenon DEF Named, OneLink, HostHandle

\* What the first packet tells of its link.
LEMMA HeadFacts ==
    ASSUME ControllerType, EventsInOrder, Active, ~overlapped, pipe # <<>>
    PROVE  /\ Names(packet)
           /\ \A h \in Handles : Begins(packet, h) => h \notin Known
           /\ \A h \in Handles : Tells(packet, h) => h \in Known
<1>1. pipe \in Seq(Packets) /\ pipe[1] = packet /\ 1 \in 1..Len(pipe)
  BY TailFacts DEF ControllerType, packet
<1>2. Named /\ \A h \in Handles : Orderly(pipe, h, Known, Live)
  BY DEF EventsInOrder
<1> HIDE DEF packet
<1>3. Names(packet)
  BY <1>1, <1>2, Zenon DEF Named
<1>4. ASSUME NEW h \in Handles, Begins(packet, h) PROVE h \notin Known
  BY <1>1, <1>2, <1>4 DEF Orderly
<1>5. ASSUME NEW h \in Handles, Tells(packet, h) PROVE h \in Known
  <2>1. h \in Known \/ \E j \in 1..(1 - 1) : Begins(pipe[j], h)
    BY <1>1, <1>2, <1>5, ZenonT(40) DEF Orderly
  <2> QED BY <2>1
<1> QED BY <1>3, <1>4, <1>5

\* The first packet is handled: the session knows a link from its beginning to
\* its end.
LEMMA ReceivedInOrder ==
    ASSUME ControllerType, EventsInOrder, Active, pipe # <<>>, pipe' = Tail(pipe), overlapped' = overlapped,
           \A h \in Handles : acl'[h] = {} <=> acl[h] = {},
           ~overlapped => OneLink',
           ~overlapped => \A h \in Handles : h \in Known' <=> Begins(packet, h) \/ (h \in Known /\ ~Ends(packet, h))
    PROVE  EventsInOrder'
<1> SUFFICES ASSUME ~overlapped PROVE Named' /\ OneLink' /\ \A h \in Handles : Orderly(pipe', h, Known', Live')
  BY DEF EventsInOrder
<1>1. /\ pipe \in Seq(Packets) /\ Len(pipe) \in Nat /\ Len(Tail(pipe)) = Len(pipe) - 1
      /\ \A i \in 1..(Len(pipe) - 1) : Tail(pipe)[i] = pipe[i + 1]
  BY TailFacts, Zenon DEF ControllerType
<1>2. Named /\ \A h \in Handles : Orderly(pipe, h, Known, Live)
  BY Zenon DEF EventsInOrder
<1>3. ASSUME NEW i \in 1..Len(pipe') PROVE Names(pipe'[i])
  <2>1. i + 1 \in 1..Len(pipe) /\ pipe'[i] = pipe[i + 1]
    BY <1>1
  <2> QED BY <1>2, <2>1, Zenon DEF Named
<1>4. Live' = Live
  BY Zenon DEF Live
<1>5. ASSUME NEW h \in Handles PROVE Orderly(pipe', h, Known', Live')
  <2>1. Orderly(pipe, h, Known, Live) /\ packet = Head(pipe)
    BY <1>2, Zenon DEF packet
  <2>2. h \in Known' <=> Begins(packet, h) \/ (h \in Known /\ ~Ends(packet, h))
    BY Zenon
  <2> HIDE DEF Live, Known, packet
  <2>3. CASE Begins(packet, h)
    BY <1>1, <1>4, <2>1, <2>2, <2>3, TailBegins, Zenon
  <2>4. CASE Ends(packet, h)
    <3>1. ~Begins(packet, h)
      BY <2>4, Zenon DEF Begins, Ends
    <3> QED BY <1>1, <1>4, <2>1, <2>2, <2>4, <3>1, TailEnds, Zenon
  <2>5. CASE ~Begins(packet, h) /\ ~Ends(packet, h)
    <3>1. Orderly(Tail(pipe), h, Known, Live)
      BY <1>1, <2>1, <2>5, TailOther, TailTells, Zenon
    <3> QED BY <1>4, <2>2, <2>5, <3>1, SameOrderly, Zenon
  <2> QED BY <2>3, <2>4, <2>5, Zenon
<1> QED BY <1>3, <1>5, Zenon DEF Named

\* A packet is sent, and what it tells is what the controller does.
LEMMA EmittedInOrder ==
    ASSUME ControllerType, EventsInOrder, NEW m \in Packets, Emit(m), Names(m),
           \A h \in Handles :
              \/ ~Begins(m, h) /\ ~Tells(m, h) /\ (h \in Live' <=> h \in Live)
              \/ Begins(m, h) /\ h \notin Live /\ h \in Live' /\ \A j \in 1..Len(pipe) : pipe[j].handle # h
              \/ Tells(m, h) /\ h \in Live /\ (h \in Live' <=> ~Ends(m, h))
    PROVE  pipe' \in Seq(Packets) /\ EventsInOrder'
<1>1. PICK i \in 1..(Len(pipe) + 1) :
         /\ \A j \in i..Len(pipe) : (pipe[j].type = "Acl") # (m.type = "Acl")
         /\ pipe' = Splice(pipe, i, m)
  BY Zenon DEF Emit, Splice
<1>2. pipe \in Seq(Packets)
  BY Zenon DEF ControllerType
<1>3. pipe' \in Seq(Packets) /\ Inserted(pipe, pipe', i, m)
  BY <1>1, <1>2, InsertFacts
<1>4. UNCHANGED <<link, rejected, overlapped>> /\ Active
  BY Zenon DEF Emit, session, hostVars
<1>5. Known' = Known /\ (OneLink => OneLink')
  BY <1>4, Zenon DEF Known, OneLink, HostHandle
<1>6. SUFFICES ASSUME ~overlapped PROVE Named' /\ OneLink' /\ \A h \in Handles : Orderly(pipe', h, Known', Live')
  BY <1>3, <1>4, Zenon DEF EventsInOrder
<1>7. Named /\ OneLink /\ \A h \in Handles : Orderly(pipe, h, Known, Live)
  BY <1>4, <1>6, Zenon DEF EventsInOrder
<1>8. ASSUME NEW n \in 1..Len(pipe') PROVE Names(pipe'[n])
  <2>1. \/ n = i /\ pipe'[n] = m
        \/ n \in 1..Len(pipe) /\ pipe'[n] = pipe[n]
        \/ n - 1 \in 1..Len(pipe) /\ pipe'[n] = pipe[n - 1]
    BY <1>3 DEF Inserted
  <2> QED BY <1>7, <2>1, Zenon DEF Named
<1>9. ASSUME NEW h \in Handles PROVE Orderly(pipe', h, Known', Live')
  <2> HIDE DEF Live, Known
  <2>1. CASE ~Begins(m, h) /\ ~Tells(m, h) /\ (h \in Live' <=> h \in Live)
    <3>1. Orderly(pipe', h, Known, Live)
      BY <1>3, <1>7, <2>1, InsertOther
    <3> QED BY <1>5, <2>1, <3>1, SameOrderly
  <2>2. CASE Begins(m, h) /\ h \notin Live /\ h \in Live' /\ \A j \in 1..Len(pipe) : pipe[j].handle # h
    BY <1>3, <1>5, <1>7, <2>2, InsertBegins
  <2>3. CASE Tells(m, h) /\ h \in Live /\ (h \in Live' <=> ~Ends(m, h))
    BY <1>3, <1>5, <1>7, <2>3, InsertTells, Zenon
  <2> QED BY <2>1, <2>2, <2>3
<1> QED BY <1>5, <1>7, <1>8, <1>9 DEF Named

EventInv == ControllerType /\ EventsInOrder

LEMMA InitEventInv == Init => EventInv
<1> SUFFICES ASSUME Init PROVE EventInv
  OBVIOUS
<1>1. ControllerType
  BY DEF Init, ControllerType
<1>2. pipe = <<>> /\ link = {} /\ rejected = {} /\ Known = {} /\ Live = {}
  BY DEF Init, Known, Live, HostHandle
<1>3. Named /\ OneLink
  BY <1>2 DEF Named, OneLink
<1>4. ASSUME NEW h \in Handles PROVE Orderly(pipe, h, Known, Live)
  BY <1>2 DEF Orderly, HasBegin, HasEnd
<1> QED BY <1>1, <1>3, <1>4, Zenon DEF EventInv, EventsInOrder

\* The session ends, and the controller is forgotten.
LEMMA EventEnd ==
    ASSUME Detached, ~Active'
    PROVE  EventInv'
  BY DEF Detached, EventInv, ControllerType, EventsInOrder

\* A call of the application.
LEMMA EventCall ==
    ASSUME EventInv, UNCHANGED <<pipe, link, rejected>>, Active' /\ ~overlapped' => Active /\ ~overlapped,
           page' \subseteq Peers, acl' = acl \/ \E hs : acl' = Closing(hs)
    PROVE  EventInv'
<1>1. acl' \in [Handles -> SUBSET Links] /\ \A h \in Handles : acl'[h] = {} <=> acl[h] = {}
  BY ClosingFacts DEF EventInv, ControllerType
<1> QED BY <1>1, SameEvents, Zenon DEF EventInv, ControllerType

LEMMA ApplicationEvents == EventInv /\ Application => EventInv'
<1> SUFFICES ASSUME EventInv, Application PROVE EventInv'
  OBVIOUS
<1>0. page \subseteq Peers
  BY DEF EventInv, ControllerType
<1>1. CASE start_pairing \/ StartFails \/ poll
  <2>1. UNCHANGED <<pipe, link, rejected, page, acl, terminal, closed>>
    BY <1>1, Zenon DEF start_pairing, StartFails, poll, session, hostVars, controller
  <2>2. ~overlapped' => ~overlapped
    BY <1>1, Zenon DEF start_pairing, StartFails, poll
  <2> QED BY <1>0, <2>1, <2>2, EventCall DEF Active
<1>2. CASE start_reconnect
  <2>1. page' \subseteq Peers
    BY <1>0, <1>2, Zenon DEF start_reconnect, HciCreateConnection
  <2> QED BY <1>2, <2>1, EventCall, ZenonT(40) DEF start_reconnect, hostVars, Active
<1>3. CASE disconnect \/ DisconnectFails
  BY <1>0, <1>3, EventCall DEF disconnect, DisconnectFails, hostVars, Active
<1>4. CASE close
  BY <1>4, EventEnd, Zenon DEF close, Active
<1> QED BY <1>1, <1>2, <1>3, <1>4 DEF Application

\* A packet that tells nothing of the beginning or the end of a link.
LEMMA EventReceived ==
    ASSUME EventInv, NEW t, Receive(t), UNCHANGED <<link, rejected, page>>,
           acl' \in [Handles -> SUBSET Links], \A h \in Handles : acl'[h] = {} <=> acl[h] = {},
           packet.type # "DisconnectionComplete", packet.type = "ConnectionComplete" => ~packet.ok
    PROVE  EventInv'
<1>1. Active /\ pipe # <<>> /\ pipe' = Tail(pipe) /\ overlapped' = overlapped
  BY Zenon DEF Receive
<1>2. ControllerType /\ EventsInOrder /\ Tail(pipe) \in Seq(Packets)
  BY <1>1, TailFacts, Zenon DEF EventInv, ControllerType
<1>3. ControllerType'
  BY <1>1, <1>2, Zenon DEF ControllerType
<1>4. \A h : ~Begins(packet, h) /\ ~Ends(packet, h)
  BY Zenon DEF Begins, Ends
<1>5. Known' = Known /\ (OneLink => OneLink')
  BY Zenon DEF Known, OneLink, HostHandle
<1>6. ~overlapped => OneLink
  BY <1>1, <1>2, Zenon DEF EventsInOrder
<1>7. EventsInOrder'
  BY <1>1, <1>2, <1>4, <1>5, <1>6, ReceivedInOrder, Zenon
<1> QED BY <1>3, <1>7, Zenon DEF EventInv

LEMMA OtherPacketEvents ==
    EventInv /\ (OnConnectionRequest \/ OnConnectionFailed \/ OnLinkKeyRequest \/ OnLinkKeyNotification
                 \/ OnAuthenticationComplete \/ OnEncryptionChange \/ OnIncomingChannel
                 \/ OnOutgoingChannel \/ OnChannelClosed \/ OnChannelData) => EventInv'
<1> SUFFICES ASSUME EventInv PROVE
      (OnConnectionRequest \/ OnConnectionFailed \/ OnLinkKeyRequest \/ OnLinkKeyNotification
       \/ OnAuthenticationComplete \/ OnEncryptionChange \/ OnIncomingChannel
       \/ OnOutgoingChannel \/ OnChannelClosed \/ OnChannelData) => EventInv'
  OBVIOUS
<1>0. ControllerType /\ acl \in [Handles -> SUBSET Links]
  BY DEF EventInv, ControllerType
<1>1. ASSUME OnConnectionRequest PROVE EventInv'
  BY <1>0, <1>1, EventReceived, Zenon DEF OnConnectionRequest, Receive, packet
<1>2. ASSUME OnConnectionFailed PROVE EventInv'
  BY <1>0, <1>2, EventReceived, Zenon DEF OnConnectionFailed, Receive, packet
<1>3. ASSUME OnLinkKeyRequest PROVE EventInv'
  <2>1. acl' \in [Handles -> SUBSET Links] /\ \A g \in Handles : acl'[g] = {} <=> acl[g] = {}
    BY <1>0, <1>3, ReplyFacts, Zenon
  <2> QED BY <1>3, <2>1, EventReceived, Zenon DEF OnLinkKeyRequest, Receive, packet, hostVars
<1>4. ASSUME OnLinkKeyNotification PROVE EventInv'
  BY <1>0, <1>4, EventReceived, Zenon DEF OnLinkKeyNotification, Receive, packet
<1>5. ASSUME OnAuthenticationComplete PROVE EventInv'
  <2>1. acl' = acl \/ acl' = SetPhase(packet.handle, "encrypting")
    BY <1>5, Zenon DEF OnAuthenticationComplete
  <2>2. acl' \in [Handles -> SUBSET Links] /\ \A g \in Handles : acl'[g] = {} <=> acl[g] = {}
    BY <1>0, <2>1, PhaseFacts DEF Phases
  <2> QED BY <1>5, <2>2, EventReceived, Zenon DEF OnAuthenticationComplete, Receive, packet, hostVars
<1>6. ASSUME OnEncryptionChange PROVE EventInv'
  BY <1>0, <1>6, EventReceived, Zenon DEF OnEncryptionChange, Receive, packet
<1>7. ASSUME ReceiveAcl PROVE EventInv'
  BY <1>0, <1>7, EventReceived, Zenon DEF ReceiveAcl, Receive, packet
<1> QED BY <1>1, <1>2, <1>3, <1>4, <1>5, <1>6, <1>7, Zenon DEF OnIncomingChannel, OnOutgoingChannel, OnChannelClosed, OnChannelData

\* A link the session does not want is known as rejected.
LEMMA RejectedEvents == EventInv /\ OnUnexpectedConnection => EventInv'
<1> SUFFICES ASSUME EventInv, OnUnexpectedConnection PROVE EventInv'
  OBVIOUS
<1>1. /\ Active /\ pipe # <<>> /\ pipe' = Tail(pipe) /\ UNCHANGED <<overlapped, link, page>>
      /\ packet.type = "ConnectionComplete" /\ packet.ok
      /\ acl' = Closing({packet.handle}) /\ rejected' = rejected \cup {packet.handle}
  BY Zenon DEF OnUnexpectedConnection, Receive, packet, hostVars
<1>2. ControllerType /\ EventsInOrder /\ Tail(pipe) \in Seq(Packets)
  BY <1>1, TailFacts, Zenon DEF EventInv, ControllerType
<1>3. acl' \in [Handles -> SUBSET Links] /\ \A h \in Handles : acl'[h] = {} <=> acl[h] = {}
  BY <1>1, <1>2, ClosingFacts, Zenon
<1>4. ControllerType'
  BY <1>1, <1>2, <1>3, Zenon DEF ControllerType
<1>5. Begins(packet, packet.handle) /\ \A h : ~Ends(packet, h) /\ (Begins(packet, h) => h = packet.handle)
  BY <1>1 DEF Begins, Ends
<1>6. ASSUME ~overlapped PROVE packet.handle \in Handles /\ packet.handle \notin Known /\ OneLink
  <2>1. packet.handle \in Handles
    BY <1>1, <1>2, <1>5, <1>6, HeadFacts, Zenon DEF Names
  <2> QED BY <1>1, <1>2, <1>5, <1>6, <2>1, HeadFacts, Zenon DEF EventsInOrder
<1>7. ASSUME ~overlapped PROVE OneLink' /\ \A h \in Handles : h \in Known' <=> Begins(packet, h) \/ (h \in Known /\ ~Ends(packet, h))
  <2>1. \A h \in Handles : h \in Known' <=> h = packet.handle \/ h \in Known
    BY <1>1, Zenon DEF Known, HostHandle
  <2>2. OneLink'
    BY <1>1, <1>6, <1>7 DEF OneLink, Known, HostHandle
  <2> QED BY <1>5, <2>1, <2>2, Zenon
<1>8. EventsInOrder'
  BY <1>1, <1>2, <1>3, <1>7, ReceivedInOrder, ZenonT(40)
<1> QED BY <1>4, <1>8, Zenon DEF EventInv

\* The expected link: the host has no other, because the window was opened on a
\* settled session.
LEMMA ConnectedEvents == IInv /\ EventInv /\ OnConnected => EventInv'
<1> SUFFICES ASSUME IInv, EventInv, OnConnected PROVE EventInv'
  BY Zenon
<1>1. /\ Active /\ pipe # <<>> /\ pipe' = Tail(pipe) /\ UNCHANGED <<overlapped, rejected, page>>
      /\ packet.type = "ConnectionComplete" /\ packet.ok /\ Expected = {packet.peer}
      /\ link' = {[handle |-> packet.handle, peer |-> packet.peer]} /\ acl' = SetPhase(packet.handle, "auth")
  BY Zenon DEF OnConnected, Receive, packet
<1>2. ControllerType /\ EventsInOrder /\ Tail(pipe) \in Seq(Packets)
  BY <1>1, TailFacts DEF EventInv, ControllerType
<1>3. acl' \in [Handles -> SUBSET Links] /\ \A h \in Handles : acl'[h] = {} <=> acl[h] = {}
  BY <1>1, <1>2, PhaseFacts, ZenonT(40) DEF Phases
<1>4. ControllerType'
  BY <1>1, <1>2, <1>3, Zenon DEF ControllerType
<1>5. Begins(packet, packet.handle) /\ \A h : ~Ends(packet, h) /\ (Begins(packet, h) => h = packet.handle)
  BY <1>1, Zenon DEF Begins, Ends
<1>6. ASSUME ~overlapped PROVE packet.handle \in Handles /\ packet.handle \notin Known /\ OneLink /\ link = {}
  <2>1. packet.handle \in Handles
    BY <1>1, <1>2, <1>5, <1>6, HeadFacts, Zenon DEF Names
  <2>2. window.kind \in {"Pairing", "Reconnecting"}
    BY <1>1, Zenon DEF Expected
  <2>3. link = {}
    BY <1>1, <1>6, <2>2 DEF IInv, LinkInv, WindowAlone
  <2> QED BY <1>1, <1>2, <1>5, <1>6, <2>1, <2>3, HeadFacts, Zenon DEF EventsInOrder
<1>7. ASSUME ~overlapped PROVE OneLink' /\ \A h \in Handles : h \in Known' <=> Begins(packet, h) \/ (h \in Known /\ ~Ends(packet, h))
  <2>0. \A h : HostHandle(h)' <=> h = packet.handle
    BY <1>1, SMTT(30) DEF HostHandle
  <2>1. \A h \in Handles : h \in Known' <=> h = packet.handle \/ h \in Known
    BY <1>1, <1>6, <1>7, <2>0, Zenon DEF Known, HostHandle
  <2>2. OneLink'
    BY <1>1, <1>6, <1>7, <2>0, Zenon DEF OneLink, Known
  <2> QED BY <1>5, <2>1, <2>2, Zenon
<1>8. EventsInOrder'
  BY <1>1, <1>2, <1>3, <1>7, ReceivedInOrder, Zenon
<1> QED BY <1>4, <1>8 DEF EventInv

LEMMA DisconnectionEvents == EventInv /\ OnDisconnectionComplete => EventInv'
<1> SUFFICES ASSUME EventInv, OnDisconnectionComplete PROVE EventInv'
  OBVIOUS
<1>1. /\ Active /\ pipe # <<>> /\ pipe' = Tail(pipe) /\ UNCHANGED <<overlapped, page, acl>>
      /\ packet.type = "DisconnectionComplete"
      /\ \/ packet.handle \in rejected /\ rejected' = rejected \ {packet.handle} /\ link' = link
         \/ packet.handle \notin rejected /\ HostHandle(packet.handle) /\ rejected' = rejected /\ link' = {}
  BY Zenon DEF OnDisconnectionComplete, Receive, packet, hostVars
<1>2. ControllerType /\ EventsInOrder /\ Tail(pipe) \in Seq(Packets)
  BY <1>1, TailFacts, Zenon DEF EventInv, ControllerType
<1>4. ControllerType'
  BY <1>1, <1>2, Zenon DEF ControllerType
<1>5. Ends(packet, packet.handle) /\ \A h : ~Begins(packet, h) /\ (Ends(packet, h) => h = packet.handle)
  BY <1>1, Zenon DEF Begins, Ends
<1>6. ASSUME ~overlapped PROVE OneLink
  BY <1>1, <1>2, <1>6, Zenon DEF EventsInOrder
<1>7. ASSUME ~overlapped PROVE OneLink' /\ \A h \in Handles : h \in Known' <=> h \in Known /\ h # packet.handle
  <2>1. CASE packet.handle \in rejected /\ rejected' = rejected \ {packet.handle} /\ link' = link
    BY <1>6, <1>7, <2>1, Zenon DEF OneLink, Known, HostHandle
  <2>2. CASE packet.handle \notin rejected /\ HostHandle(packet.handle) /\ rejected' = rejected /\ link' = {}
    <3>1. \A h : HostHandle(h) => h = packet.handle
      BY <1>6, <1>7, <2>2, Zenon DEF OneLink, HostHandle
    <3>2. \A h : ~HostHandle(h)'
      BY <2>2 DEF HostHandle
    <3>3. OneLink'
      BY <2>2, <3>2, Zenon DEF OneLink
    <3> QED BY <2>2, <3>1, <3>2, <3>3, Zenon DEF Known
  <2> QED BY <1>1, <2>1, <2>2, Zenon
<1>8. EventsInOrder'
  BY <1>1, <1>2, <1>5, <1>7, ReceivedInOrder, Zenon
<1> QED BY <1>4, <1>8, SMTT(30) DEF EventInv

\* A packet of the controller that begins and ends no link.
LEMMA EventEmitted ==
    ASSUME EventInv, NEW m \in Packets, m.type \notin {"ConnectionComplete", "DisconnectionComplete"}, Emit(m),
           m.type \in {"AuthenticationComplete", "EncryptionChange"} => m.handle \in Handles /\ acl[m.handle] # {},
           page' \subseteq Peers,
           acl' \in [Handles -> SUBSET Links], \A g \in Handles : acl'[g] = {} <=> acl[g] = {}
    PROVE  EventInv'
<1>2. \A g : ~Begins(m, g) /\ ~Ends(m, g)
  BY Zenon DEF Begins, Ends
<1>3. Live' = Live
  BY Zenon DEF Live
<1>4. \A g : Tells(m, g) => g = m.handle /\ g \in Handles /\ acl[g] # {}
  BY Zenon DEF Tells
<1>5. Names(m) /\ \A g \in Handles : Tells(m, g) => g \in Live
  BY <1>2, <1>4 DEF Names, Live
<1>7. ControllerType /\ EventsInOrder
  BY Zenon DEF EventInv
<1>8. pipe' \in Seq(Packets) /\ EventsInOrder'
  BY <1>2, <1>3, <1>5, <1>7, EmittedInOrder, Zenon
<1> QED BY <1>8, Zenon DEF EventInv, ControllerType

\* An attempt ends: in a link on a handle nobody tells of, or in none.
LEMMA AttemptEvents ==
    ASSUME EventInv, NEW p \in Peers, NEW ok \in BOOLEAN, AttemptEnds(p, ok), page' \subseteq Peers
    PROVE  EventInv'
<1>0. ControllerType /\ EventsInOrder /\ acl \in [Handles -> SUBSET Links]
  BY Zenon DEF EventInv, ControllerType
<1>1. CASE ok
  <2> DEFINE h == FreeHandle
             m == Msg("ConnectionComplete", h, p, TRUE)
  <2>1. SomeFree /\ acl' = [acl EXCEPT ![h] = {[peer |-> p, phase |-> "new"]}] /\ Emit(m)
    BY <1>1, Zenon DEF AttemptEnds
  <2>2. h \in Handles /\ Free(h)
    BY <2>1, Zenon DEF SomeFree, FreeHandle
  <2>3. m \in Packets /\ m.type = "ConnectionComplete" /\ m.handle = h /\ m.ok = TRUE
    BY <2>2, Zenon DEF Msg, Packets, Types
  <2> HIDE DEF m, h
  <2>4. Begins(m, h) /\ \A g : ~Tells(m, g) /\ (Begins(m, g) => g = h)
    BY <2>3, Zenon DEF Begins, Tells
  <2>5. [peer |-> p, phase |-> "new"] \in Links
    BY Zenon DEF Links, Phases
  <2>6. acl' \in [Handles -> SUBSET Links] /\ acl'[h] # {} /\ \A g \in Handles : g # h => acl'[g] = acl[g]
    BY <1>0, <2>1, <2>2, <2>5, Zenon
  <2>7. h \notin Live /\ h \in Live' /\ \A g \in Handles : g # h => (g \in Live' <=> g \in Live)
    BY <2>2, <2>6, Zenon DEF Live, Free
  <2>8. Names(m) /\ \A j \in 1..Len(pipe) : pipe[j].handle # h
    BY <2>2, <2>3, Zenon DEF Names, Free
  <2>9. \A g \in Handles :
              \/ ~Begins(m, g) /\ ~Tells(m, g) /\ (g \in Live' <=> g \in Live)
              \/ Begins(m, g) /\ g \notin Live /\ g \in Live' /\ \A j \in 1..Len(pipe) : pipe[j].handle # g
    BY <2>4, <2>7, <2>8
  <2>10. pipe' \in Seq(Packets) /\ EventsInOrder'
    BY <1>0, <2>1, <2>3, <2>8, <2>9, EmittedInOrder, ZenonT(40)
  <2> QED BY <2>6, <2>10 DEF EventInv, ControllerType
<1>2. CASE ~ok
  <2> DEFINE m == Msg("ConnectionComplete", AnyHandle, p, FALSE)
  <2>1. acl' = acl /\ Emit(m)
    BY <1>2, ZenonT(40) DEF AttemptEnds
  <2>2. m \in Packets /\ m.type = "ConnectionComplete" /\ m.ok = FALSE
    BY DEF Msg, Packets, Types
  <2> HIDE DEF m
  <2>3. Names(m) /\ \A g : ~Begins(m, g) /\ ~Tells(m, g)
    BY <2>2 DEF Names, Begins, Tells
  <2>4. Live' = Live
    BY <2>1, Zenon DEF Live
  <2>5. pipe' \in Seq(Packets) /\ EventsInOrder'
    BY <1>0, <2>1, <2>2, <2>3, <2>4, EmittedInOrder, Zenon
  <2> QED BY <1>0, <2>1, <2>5 DEF EventInv, ControllerType
<1> QED BY <1>1, <1>2, Zenon

LEMMA LinkEndEvents ==
    ASSUME EventInv, NEW h \in Handles, LinkEnds(h)
    PROVE  EventInv'
<1>0. ControllerType /\ EventsInOrder /\ acl \in [Handles -> SUBSET Links]
  BY DEF EventInv, ControllerType
<1>1. PICK a \in acl[h] : /\ Emit(Msg("DisconnectionComplete", h, a.peer, TRUE))
                          /\ acl' = [acl EXCEPT ![h] = {}] /\ page' = page
  BY Zenon DEF LinkEnds
<1>2. a.peer \in Peers
  BY <1>0 DEF Links
<1> DEFINE m == Msg("DisconnectionComplete", h, a.peer, TRUE)
<1>3. m \in Packets /\ m.type = "DisconnectionComplete" /\ m.handle = h
  BY <1>2 DEF Msg, Packets, Types
<1>4. Emit(m)
  BY <1>1, ZenonT(40)
<1> HIDE DEF m
<1>5. Ends(m, h) /\ Tells(m, h) /\ \A g : ~Begins(m, g) /\ (Tells(m, g) => g = h)
  BY <1>3, Zenon DEF Begins, Ends, Tells
<1>6. acl' \in [Handles -> SUBSET Links] /\ acl'[h] = {} /\ \A g \in Handles : g # h => acl'[g] = acl[g]
  BY <1>0, <1>1, Zenon
<1>7. h \in Live /\ h \notin Live' /\ \A g \in Handles : g # h => (g \in Live' <=> g \in Live)
  BY <1>1, <1>6, Zenon DEF Live
<1>8. Names(m)
  BY <1>3, Zenon DEF Names
<1>9. pipe' \in Seq(Packets) /\ EventsInOrder'
  BY <1>0, <1>3, <1>4, <1>5, <1>7, <1>8, EmittedInOrder, Zenon
<1> QED BY <1>0, <1>1, <1>6, <1>9, Zenon DEF EventInv, ControllerType

LEMMA ControllerEvents == EventInv /\ Controller => EventInv'
<1> SUFFICES ASSUME EventInv PROVE Controller => EventInv'
  OBVIOUS
<1>0. ControllerType /\ acl \in [Handles -> SUBSET Links] /\ page \subseteq Peers
  BY Zenon DEF EventInv, ControllerType
<1>1. ASSUME PeerPages PROVE EventInv'
  <2>1. PICK p \in Peers : Emit(Msg("ConnectionRequest", AnyHandle, p, TRUE)) /\ UNCHANGED <<page, acl>>
    BY <1>1, Zenon DEF PeerPages
  <2> DEFINE m == Msg("ConnectionRequest", AnyHandle, p, TRUE)
  <2>2. m \in Packets /\ m.type = "ConnectionRequest"
    BY DEF Msg, Packets, Types
  <2> HIDE DEF m
  <2>3. Emit(m)
    BY <2>1, ZenonT(40) DEF m
  <2> QED BY <1>0, <2>1, <2>2, <2>3, EventEmitted, Zenon
<1>2. ASSUME PeerAsksSco PROVE EventInv'
  <2>0. PICK h \in Handles : \E a \in acl[h] : Emit(ScoRequest(h, a.peer)) /\ UNCHANGED <<page, acl>>
    BY <1>2, Zenon DEF PeerAsksSco
  <2>1. PICK a \in acl[h] : Emit(ScoRequest(h, a.peer)) /\ UNCHANGED <<page, acl>>
    BY <2>0
  <2>2. a.peer \in Peers
    BY <1>0 DEF Links
  <2> DEFINE m == ScoRequest(h, a.peer)
  <2>3. m \in Packets /\ m.type = "ConnectionRequest"
    BY <2>2, ZenonT(40) DEF ScoRequest, Msg, Packets, Types
  <2> HIDE DEF m
  <2>4. Emit(m)
    BY <2>1 DEF m
  <2> QED BY <1>0, <2>1, <2>3, <2>4, EventEmitted, Zenon
<1>3. ASSUME RequestEnds \/ PageEnds PROVE EventInv'
  <2>1. PICK p \in Peers, ok \in BOOLEAN : AttemptEnds(p, ok) /\ page' \subseteq Peers
    BY <1>0, <1>3, ZenonT(40) DEF RequestEnds, PageEnds
  <2> QED BY <2>1, AttemptEvents
<1>4. ASSUME SecurityStep PROVE EventInv'
  <2>0. PICK h \in Handles : \E a \in acl[h], m \in SecurityMoves :
           Emit(Msg(m[2], h, a.peer, m[3])) /\ acl' = SetPhase(h, m[4]) /\ UNCHANGED page
    BY <1>4, Zenon DEF SecurityStep
  <2>1. PICK a \in acl[h], m \in SecurityMoves :
           Emit(Msg(m[2], h, a.peer, m[3])) /\ acl' = SetPhase(h, m[4]) /\ UNCHANGED page
    BY <2>0, Zenon
  <2>2. /\ m[2] \in Types \ {"ConnectionComplete", "DisconnectionComplete"} /\ m[3] \in BOOLEAN
        /\ m[4] \in Phases
    <3>1. \E x \in Phases, y \in Types \ {"ConnectionComplete", "DisconnectionComplete"}, b \in BOOLEAN, z \in Phases :
             m = <<x, y, b, z>>
      BY Zenon DEF SecurityMoves, Types, Phases
    <3> QED BY <3>1
  <2>3. a.peer \in Peers
    BY <1>0, ZenonT(30) DEF Links
  <2>4. acl' \in [Handles -> SUBSET Links] /\ \A g \in Handles : acl'[g] = {} <=> acl[g] = {}
    BY <1>0, <2>1, <2>2, PhaseFacts, SMTT(30)
  <2> DEFINE e == Msg(m[2], h, a.peer, m[3])
  <2>5. e \in Packets /\ e.type = m[2] /\ e.handle = h
    BY <2>2, <2>3, Zenon DEF Msg, Packets
  <2> HIDE DEF e
  <2>6. Emit(e)
    BY <2>1, Zenon DEF e
  <2> QED BY <1>0, <2>1, <2>2, <2>4, <2>5, <2>6, EventEmitted, Zenon
<1>5. ASSUME PeerSendsAcl PROVE EventInv'
  <2>0. PICK h \in Handles : \E a \in acl[h] : Emit(Msg("Acl", h, a.peer, TRUE)) /\ UNCHANGED <<page, acl>>
    BY <1>5, Zenon DEF PeerSendsAcl
  <2>1. PICK a \in acl[h] : Emit(Msg("Acl", h, a.peer, TRUE)) /\ UNCHANGED <<page, acl>>
    BY <2>0, ZenonT(40)
  <2>2. a.peer \in Peers
    BY <1>0 DEF Links
  <2> DEFINE m == Msg("Acl", h, a.peer, TRUE)
  <2>3. m \in Packets /\ m.type = "Acl"
    BY <2>2 DEF Msg, Packets, Types
  <2> HIDE DEF m
  <2>4. Emit(m)
    BY <2>1, Zenon DEF m
  <2> QED BY <1>0, <2>1, <2>3, <2>4, EventEmitted, Zenon
<1>6. ASSUME NEW h \in Handles, LinkEnds(h) PROVE EventInv'
  BY <1>6, LinkEndEvents
<1> QED BY <1>1, <1>2, <1>3, <1>4, <1>5, <1>6, Zenon DEF Controller

-----------------------------------------------------------------------------
(* What ends a session as a protocol violation *)

LEMMA NextEventInv == IInv /\ EventInv /\ [Next]_vars => EventInv'
<1> SUFFICES ASSUME IInv, EventInv, [Next]_vars PROVE EventInv'
  OBVIOUS
<1>1. CASE ProtocolViolation \/ StrayAcl \/ BondStoreFails \/ SourceTerminated
  <2>1. Detached /\ terminal' # NoError
    BY <1>1, Zenon DEF ProtocolViolation, StrayAcl, BondStoreFails, SourceTerminated, Fail, NoError
  <2> QED BY <2>1, EventEnd, Zenon DEF Active
<1>2. CASE UNCHANGED vars
  <2>1. UNCHANGED <<pipe, link, rejected, overlapped, page, acl, terminal, closed>>
    BY <1>2, Zenon DEF vars, session, hostVars, controller
  <2>2. page \subseteq Peers
    BY DEF EventInv, ControllerType
  <2> QED BY <2>1, <2>2, EventCall DEF Active
<1> QED BY <1>1, <1>2, ApplicationEvents, ControllerEvents, OtherPacketEvents, RejectedEvents, ConnectedEvents,
           DisconnectionEvents, ZenonT(40) DEF Next, HandlePacket

\* A session that has ended takes no step but close.
LEMMA EndedStep ==
    ASSUME Next, ~Active
    PROVE  close
<1>1. ~(start_pairing \/ start_reconnect \/ StartFails \/ disconnect \/ DisconnectFails \/ poll)
  BY Zenon DEF start_pairing, start_reconnect, StartFails, disconnect, DisconnectFails, poll
<1>2. ~HandlePacket
  BY Zenon DEF HandlePacket, Receive, ReceiveAcl, OnConnectionRequest, OnUnexpectedConnection, OnConnected,
        OnConnectionFailed, OnDisconnectionComplete, OnLinkKeyRequest, OnLinkKeyNotification,
        OnAuthenticationComplete, OnEncryptionChange, ProtocolViolation, StrayAcl, BondStoreFails,
        OnIncomingChannel, OnOutgoingChannel, OnChannelClosed, OnChannelData
<1>3. ~SourceTerminated
  BY Zenon DEF SourceTerminated
<1>4. ~Controller
  BY ZenonT(40) DEF Controller, PeerPages, PeerAsksSco, RequestEnds, PageEnds, SecurityStep, PeerSendsAcl, LinkEnds,
        AttemptEnds, Emit
<1> QED BY <1>1, <1>2, <1>3, <1>4, ZenonT(40) DEF Next, Application

\* What happens to the terminal error of an active session.
LEMMA ActiveStep ==
    ASSUME Next, Active
    PROVE  ProtocolViolation \/ closed' \/ terminal' # "ProtocolViolation"
<1> USE DEF Active, NoError
<1>1. CASE Application
  BY <1>1 DEF Application, start_pairing, start_reconnect, StartFails, disconnect, DisconnectFails, poll, close, session
<1>2. ASSUME NEW e, enqueue_event(e) \/ Quiet PROVE terminal' # "ProtocolViolation"
  BY <1>2 DEF enqueue_event, Quiet
<1>3. CASE OnConnectionRequest \/ OnUnexpectedConnection \/ OnConnected \/ OnConnectionFailed
           \/ OnDisconnectionComplete \/ OnLinkKeyRequest \/ OnLinkKeyNotification \/ OnAuthenticationComplete
           \/ OnEncryptionChange
  BY <1>2, <1>3, ZenonT(40) DEF OnConnectionRequest, OnUnexpectedConnection, OnConnected, OnConnectionFailed,
        OnDisconnectionComplete, OnLinkKeyRequest, OnLinkKeyNotification, OnAuthenticationComplete,
        OnEncryptionChange
<1>4. CASE OnIncomingChannel \/ OnOutgoingChannel \/ OnChannelClosed \/ OnChannelData
  BY <1>2, <1>4, ZenonT(40) DEF OnIncomingChannel, OnOutgoingChannel, OnChannelClosed, OnChannelData,
        on_channel_opened, apply_hidp_events
<1>5. CASE StrayAcl \/ BondStoreFails \/ SourceTerminated
  BY <1>5 DEF StrayAcl, BondStoreFails, SourceTerminated, Fail
<1>6. CASE Controller
  <2>1. UNCHANGED terminal
    BY <1>6, ZenonT(40) DEF Controller, PeerPages, PeerAsksSco, RequestEnds, PageEnds, SecurityStep, PeerSendsAcl,
          LinkEnds, AttemptEnds, Emit, session
  <2> QED BY <2>1
<1> QED BY <1>1, <1>3, <1>4, <1>5, <1>6, Zenon DEF Next, HandlePacket

\* While the session is active there is nothing to explain, and once it has ended
\* its state is kept until it is closed.
LEMMA NextViolation == EventInv /\ ViolationCauses /\ [Next]_vars => ViolationCauses'
<1> SUFFICES ASSUME EventInv, ViolationCauses, [Next]_vars, ~closed', terminal' = "ProtocolViolation"
             PROVE  overlapped' \/ rejected' # {} \/ pending_peer' # {}
  BY Zenon DEF ViolationCauses
<1>1. CASE UNCHANGED vars
  BY <1>1, Zenon DEF ViolationCauses, vars, session, hostVars
<1>2. CASE ProtocolViolation
  <2>1. UNCHANGED <<overlapped, rejected, pending_peer>> /\ Active /\ pipe # <<>>
    BY <1>2, Zenon DEF ProtocolViolation, Fail, hostVars
  <2>2. CASE ~(pending_peer \subseteq {packet.peer})
    BY <2>1, <2>2, Zenon
  <2>3. CASE Tells(packet, packet.handle) /\ ~HostHandle(packet.handle)
    <3>1. CASE ~overlapped
      <4>1. packet.handle \in Known
        BY <2>1, <2>3, <3>1, HeadFacts, Zenon DEF EventInv, Names
      <4> QED BY <2>1, <2>3, <4>1, Zenon DEF Known
    <3> QED BY <2>1, <3>1, Zenon
  <2> QED BY <1>2, <2>2, <2>3, Zenon DEF ProtocolViolation, Tells
<1>3. CASE Next /\ ~ProtocolViolation
  <2>1. ~close
    BY DEF close
  <2>2. Active
    BY <1>3, <2>1, EndedStep
  <2> QED BY <1>3, <2>2, ActiveStep, Zenon
<1> QED BY <1>1, <1>2, <1>3, Zenon

LEMMA EventInvariance == Spec => [](EventInv /\ ViolationCauses)
<1>1. Init => ViolationCauses
  BY DEF Init, ViolationCauses, NoError
<1>2. (EventInv /\ ViolationCauses) /\ IInv /\ [Next]_vars => (EventInv /\ ViolationCauses)'
  BY NextEventInv, NextViolation
<1> QED BY <1>1, <1>2, InitEventInv, Invariance, PTL DEF Spec

\* With a conforming controller the order of its events alone never ends the
\* session as a protocol violation: a rejected link, a peer still waited for or
\* overlapping windows must have come before.
THEOREM ViolationsExplained == Spec => []ViolationCauses
  BY EventInvariance, PTL

=============================================================================
