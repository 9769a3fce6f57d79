------------------------------- MODULE Opening -------------------------------
(***************************************************************************)
(* Session::open (session.rs): the optional rewrite of the adapter's        *)
(* address (identity.rs prepare_adapter_identity over UsbIdentitySession),  *)
(* the final USB open, initialize_controller and the comparison of the      *)
(* address with the requested one, against an adapter that may be slow,     *)
(* refuse a command, disappear, lose power or ignore the write.             *)
(*                                                                         *)
(* The checks of the arguments (the selector's syntax, the kind of address)  *)
(* fail before anything happens and are left out.                           *)
(* The application may call open again after an error, or after closing     *)
(* the session: what an abandoned call left in the adapter is still there.  *)
(***************************************************************************)
EXTENDS Integers, Sequences

CONSTANTS Addresses,   \* public addresses
          Zero,        \* the unusable address
          Default,     \* LocalIdentity::AdapterDefault
          Timeout,     \* reenumeration_timeout, in poll intervals
          MaxOpens,    \* bound: calls of Session::open
          MaxFaults    \* bound: failures of the adapter, of USB and of the store

ASSUME NamesAssumption == Zero \notin Addresses /\ Default \notin Addresses \cup {Zero}
ASSUME BoundsAssumption == Timeout \in Nat /\ MaxOpens \in Nat /\ MaxFaults \in Nat

VARIABLES
    step,      \* where open is
    waiting,   \* the command of this step is sent and its answer awaited
    next,      \* which command of initialize_controller
    target,    \* the requested local identity
    prep,      \* the AdapterIdentityPreparation so far
    seen,      \* the address read last
    polls,     \* poll intervals since the warm reset
    wrote,     \* this call handed the vendor write to USB
    result,    \* how the call ended
    handle,    \* the USB handle: none, live, or gone with its device
    adapter,   \* the device
    cmds,      \* commands the adapter has not processed
    events,    \* answers and other events not yet received
    opens, faults

host == <<step, waiting, next, target, prep, seen, polls, wrote, result>>
device == <<adapter, cmds>>
vars == <<host, handle, device, events, opens, faults>>

\* The commands of initialize_controller and identity_commands, in their order.
Initialization ==
    <<"Reset", "SupportedCommands", "Version", "Features", "EventMask", "LeEventMask",
      "BufferSize", "Address", "LocalName", "ClassOfDevice", "SimplePairing",
      "InquiryResponse", "LinkPolicy", "ScanEnable">>

\* The commands whose answer the code takes apart.
Parsed == {"SupportedCommands", "Version", "Features", "BufferSize", "Address", "Write"}

Opens == {"Open1", "Reopen", "Open"}
BeforeWrite == {"Version1", "Address1"}
AfterWrite == {"Write", "Version2", "Address2"}
Exchanges == BeforeWrite \cup AfterWrite \cup {"Initialize"}
Steps == {"Idle", "Done", "WarmReset", "Close1", "Close2", "Select"} \cup Opens \cup Exchanges
Noise == "Noise"

\* The command the current step sends.
Opcode == CASE step \in {"Version1", "Version2"} -> "Version"
            [] step \in {"Address1", "Address2"} -> "Address"
            [] step = "Write" -> "Write"
            [] OTHER -> Initialization[next]

Fault == faults < MaxFaults /\ faults' = faults + 1
NoFault == UNCHANGED faults

Init ==
    /\ step = "Idle" /\ waiting = FALSE /\ next = 1 /\ target = Default /\ prep = "None"
    /\ seen = Zero /\ polls = 0 /\ wrote = FALSE /\ result = "none" /\ handle = "none"
    /\ \E a \in Addresses \cup {Zero}, csr \in BOOLEAN, capable \in BOOLEAN :
          adapter = [factory |-> a, stored |-> a, active |-> a, csr |-> csr,
                     capable |-> capable, present |-> TRUE]
    /\ cmds = <<>> /\ events = <<>> /\ opens = 0 /\ faults = 0

-----------------------------------------------------------------------------
(* Ends of the call and of a USB handle *)

\* The handle is closed or dropped: its channel goes, and what the reader had
\* not taken from the device stays there.
Release(left) ==
    /\ handle' = "none"
    /\ CASE handle = "gone" -> events' = <<>>
         [] handle = "none" -> UNCHANGED events
         [] OTHER -> \E n \in 0..Len(left) : events' = SubSeq(left, n + 1, Len(left))

Goto(s) == step' = s /\ waiting' = FALSE
Stay == UNCHANGED <<target, wrote, result>>

\* open returns an error; whatever handle it holds is released.
FailWith(kind, left) ==
    /\ Goto("Done") /\ result' = kind /\ Release(left)
    /\ UNCHANGED <<next, target, prep, seen, polls, wrote>>
Fail(kind) == FailWith(kind, events)
Reject(kind) == FailWith(kind, Tail(events))

\* map_identity_error around the steps of prepare_adapter_identity; the errors
\* of initialize_controller pass unchanged.
BugMapped(kind) == IF step \in BeforeWrite \cup AfterWrite THEN "OpenFailed" ELSE kind
Mapped(kind) ==
    IF step \in BeforeWrite THEN "OpenFailed"
    ELSE IF step \in AfterWrite THEN "RecoveryRequired"
    ELSE kind

\* identity_mismatch_kind
identity_mismatch_kind == IF prep = "Rewritten" THEN "RecoveryRequired" ELSE "IdentityMismatch"

-----------------------------------------------------------------------------
(* Session::open *)

Call ==
    /\ step \in {"Idle", "Done"} /\ handle = "none" /\ opens < MaxOpens
    /\ opens' = opens + 1
    /\ \E t \in Addresses \cup {Default} :
          target' = t /\ Goto(IF t = Default THEN "Open" ELSE "Open1")
    /\ next' = 1 /\ prep' = "None" /\ seen' = Zero /\ polls' = 0 /\ wrote' = FALSE
    /\ result' = "none"
    /\ UNCHANGED <<handle, device, events, faults>>

\* The application closes the session it was given.
CloseSession ==
    /\ step = "Done" /\ result = "Opened" /\ Release(events) /\ Goto("Idle")
    /\ UNCHANGED <<next, target, prep, seen, polls, wrote, result, device, opens, faults>>

\* usb::open, in each of its three places.
UsbOpen ==
    /\ step \in Opens /\ adapter.present
    /\ handle' = "live"
    /\ Goto(CASE step = "Open1" -> "Version1" [] step = "Reopen" -> "Version2"
              [] OTHER -> "Initialize")
    /\ UNCHANGED <<next, prep, seen, polls, device, events, opens, faults>> /\ Stay

UsbOpenFails ==
    /\ step \in {"Open1", "Open"} /\ (adapter.present => Fault) /\ (~adapter.present => NoFault)
    /\ Fail("OpenFailed") /\ UNCHANGED <<device, opens>>

\* open_reenumerated_session: sleep, try, and again until the deadline.
BugReopenForever == UNCHANGED <<host, handle, events>>
ReopenAgain ==
    \/ /\ polls < Timeout /\ polls' = polls + 1
       /\ UNCHANGED <<step, waiting, next, target, prep, seen, wrote, result, handle, events>>
    \/ /\ polls >= Timeout /\ Fail("RecoveryRequired")
ReopenFails ==
    /\ step = "Reopen" /\ (adapter.present => Fault) /\ (~adapter.present => NoFault)
    /\ ReopenAgain /\ UNCHANGED <<device, opens>>

\* io.send: the command reaches the adapter.
Send ==
    /\ step \in Exchanges /\ ~waiting /\ handle = "live"
    /\ cmds' = Append(cmds, [op |-> Opcode, address |-> target])
    /\ waiting' = TRUE /\ wrote' = (wrote \/ step = "Write")
    /\ UNCHANGED <<step, next, target, prep, seen, polls, result, handle, adapter, events,
                   opens, faults>>

\* io.send reports an error, after which the command may be there all the same.
SendFails ==
    /\ step \in Exchanges /\ ~waiting
    /\ IF handle = "live"
       THEN /\ Fault
            /\ \/ UNCHANGED cmds
               \/ cmds' = Append(cmds, [op |-> Opcode, address |-> target])
       ELSE NoFault /\ UNCHANGED cmds
    /\ Goto("Done") /\ result' = Mapped("SourceTerminated") /\ Release(events)
    /\ wrote' = (wrote \/ step = "Write")
    /\ UNCHANGED <<next, target, prep, seen, polls, adapter, opens>>

\* The steps after an answer with status 0 and the right length: the checks of
\* prepare_adapter_identity and of initialize_controller.
AfterVersion1 ==
    \/ adapter.csr /\ Goto("Address1") /\ Stay
       /\ UNCHANGED <<next, prep, seen, polls, handle>> /\ events' = Tail(events)
    \/ ~adapter.csr /\ Reject("UnsupportedController")

AfterVersion2 ==
    \/ adapter.csr /\ Goto("Address2") /\ Stay
       /\ UNCHANGED <<next, prep, seen, polls, handle>> /\ events' = Tail(events)
    \/ ~adapter.csr /\ Reject("RecoveryRequired")

AfterAddress(address) ==
    /\ seen' = address
    /\ Goto(IF step = "Address2" THEN "Close2" ELSE IF address = target THEN "Close1" ELSE "Write")
    /\ Stay /\ UNCHANGED <<next, prep, polls, handle>> /\ events' = Tail(events)

AfterInitialization(op, address) ==
    LET bad == \/ op \in {"Features", "BufferSize"} /\ ~adapter.capable
               \/ op = "Address" /\ address = Zero
    IN  \/ /\ bad
           /\ Reject(IF op = "Address" THEN "InvalidControllerIdentity" ELSE "UnsupportedController")
        \/ /\ ~bad
           /\ seen' = IF op = "Address" THEN address ELSE seen
           /\ \/ next < Len(Initialization) /\ next' = next + 1 /\ Goto("Initialize")
              \/ next = Len(Initialization) /\ next' = next /\ Goto("Select")
           /\ Stay /\ UNCHANGED <<prep, polls, handle>> /\ events' = Tail(events)

Answered(answer) ==
    CASE step = "Version1" -> AfterVersion1
      [] step = "Version2" -> AfterVersion2
      [] step \in {"Address1", "Address2"} -> AfterAddress(answer.address)
      [] step = "Write" -> /\ Goto("WarmReset") /\ events' = Tail(events) /\ Stay
                           /\ UNCHANGED <<next, prep, seen, polls, handle>>
      [] OTHER -> AfterInitialization(Opcode, answer.address)

\* send_complete and send_vendor_command: an answer to another command, or any
\* other packet, is skipped, and the wait starts over.
matches_csr_vendor_response(event) == event.op = "Write"
Matches(event) ==
    IF step = "Write" THEN matches_csr_vendor_response(event) ELSE event.op = Opcode

Receive ==
    /\ waiting /\ events # <<>>
    /\ LET event == Head(events)
           wrong == event.status = "length" /\ Opcode \in Parsed IN
       \/ /\ event.status = "short" /\ Reject(Mapped("ProtocolViolation"))
       \/ /\ event.status # "short" /\ ~Matches(event)
          /\ events' = Tail(events) /\ UNCHANGED <<host, handle>>
       \/ /\ Matches(event) /\ event.status = "refused" /\ Reject(Mapped("OpenFailed"))
       \/ /\ Matches(event) /\ wrong /\ Reject(Mapped("ProtocolViolation"))
       \/ /\ Matches(event) /\ event.status # "refused" /\ ~wrong /\ Answered(event)
    /\ UNCHANGED <<device, opens, faults>>

\* recv_timeout returns nothing, or the reader's end.
ReceiveNothing ==
    /\ waiting /\ events = <<>>
    /\ Fail(Mapped(IF handle = "gone" THEN "SourceTerminated" ELSE "OpenFailed"))
    /\ UNCHANGED <<device, opens, faults>>

\* The warm reset is sent and the handle closed; neither result is looked at.
WarmReset ==
    /\ step = "WarmReset" /\ Goto("Reopen") /\ polls' = 0 /\ Release(events)
    /\ \/ /\ handle = "live" /\ NoFault
          /\ cmds' = Append(cmds, [op |-> "WarmReset", address |-> target])
       \/ /\ (handle = "live" => Fault) /\ (handle # "live" => NoFault) /\ UNCHANGED cmds
    /\ UNCHANGED <<next, target, prep, seen, wrote, result, adapter, opens>>

\* The close at the end of the preparation and the comparison that follows it.
BugReadKeepsHandle ==
    /\ Goto("Open") /\ prep' = (IF step = "Close1" THEN "AlreadyActive" ELSE "Rewritten")
    /\ Stay /\ UNCHANGED <<next, seen, polls, handle, events>>
Read ==
    \/ step = "Close1" /\ Goto("Open") /\ prep' = "AlreadyActive" /\ Release(events) /\ Stay
       /\ UNCHANGED <<next, seen, polls>>
    \/ step = "Close2" /\ seen = target /\ Goto("Open") /\ prep' = "Rewritten" /\ Release(events)
       /\ Stay /\ UNCHANGED <<next, seen, polls>>
    \/ step = "Close2" /\ seen # target /\ Fail("RecoveryRequired")
ClosePrepared ==
    /\ step \in {"Close1", "Close2"}
    /\ \/ Read /\ NoFault
       \/ Fault /\ Fail(IF step = "Close1" THEN "OpenFailed" ELSE "RecoveryRequired")
    /\ UNCHANGED <<device, opens>>

\* BackendSession::initialize selects the bonds; open compares the addresses.
BugConfirmed == TRUE
Confirmed == target = Default \/ seen = target
Select ==
    /\ step = "Select"
    /\ \/ /\ Confirmed /\ NoFault /\ Goto("Done") /\ result' = "Opened"
          /\ UNCHANGED <<next, target, prep, seen, polls, wrote, handle, events>>
       \/ /\ ~Confirmed /\ NoFault /\ Fail(identity_mismatch_kind)
       \/ /\ Fault /\ Fail("InvalidBondStore")
    /\ UNCHANGED <<device, opens>>

Host == \/ UsbOpen \/ UsbOpenFails \/ ReopenFails \/ Send \/ SendFails \/ Receive
        \/ ReceiveNothing \/ WarmReset \/ ClosePrepared \/ Select

-----------------------------------------------------------------------------
(* The adapter *)

\* The device leaves the bus: the commands are lost, and of its events those
\* the reader had not taken.
Leaves ==
    /\ handle' = IF handle = "live" THEN "gone" ELSE handle
    /\ cmds' = <<>>
    /\ \E n \in 0..Len(events) :
          events' = IF handle = "none" THEN <<>> ELSE SubSeq(events, 1, n)

Answer(op, status) ==
    events' = Append(events, [op |-> op, status |-> status, address |-> adapter.active])

\* One command is carried out and answered; the answer may be a refusal or have
\* the wrong length, and a write may be acknowledged without effect.
Process ==
    /\ adapter.present /\ cmds # <<>> /\ Head(cmds).op # "WarmReset"
    /\ \/ NoFault /\ Answer(Head(cmds).op, "ok")
          /\ adapter' = IF Head(cmds).op = "Write"
                        THEN [adapter EXCEPT !.stored = Head(cmds).address] ELSE adapter
       \/ \E status \in {"ok", "refused", "length"} :
             Fault /\ Answer(Head(cmds).op, status) /\ UNCHANGED adapter
    /\ cmds' = Tail(cmds)
    /\ UNCHANGED <<host, handle, opens>>

\* The warm reset makes the volatile address the active one.
ProcessReset ==
    /\ adapter.present /\ cmds # <<>> /\ Head(cmds).op = "WarmReset"
    /\ adapter' = [adapter EXCEPT !.active = adapter.stored, !.present = FALSE]
    /\ Leaves /\ UNCHANGED <<host, opens, faults>>

PowerCycle ==
    /\ Fault
    /\ adapter' = [adapter EXCEPT !.stored = adapter.factory, !.active = adapter.factory,
                                  !.present = FALSE]
    /\ Leaves /\ UNCHANGED <<host, opens>>

Reenumerate ==
    /\ ~adapter.present /\ adapter' = [adapter EXCEPT !.present = TRUE]
    /\ UNCHANGED <<host, handle, cmds, events, opens, faults>>

\* A packet nobody asked for, well formed or too short.
OtherPacket ==
    /\ adapter.present /\ handle # "gone" /\ Fault
    /\ \E status \in {"ok", "short"} : Answer(Noise, status)
    /\ UNCHANGED <<host, handle, device, opens>>

Adapter == Process \/ ProcessReset \/ PowerCycle \/ Reenumerate \/ OtherPacket

Next == Call \/ CloseSession \/ Host \/ Adapter

Spec == Init /\ [][Next]_vars

\* open's thread runs; the adapter and the application owe nothing.
FairSpec == Spec /\ WF_vars(Host)

-----------------------------------------------------------------------------
(* Properties *)

\* A session that open returns for an explicit identity runs on an adapter whose
\* active address is that identity (the comparison that ends Session::open),
\* whatever the adapter and earlier calls did in between.
OpenedHasIdentity ==
    result = "Opened" /\ handle = "live" /\ target # Default => adapter.active = target

\* AdapterIdentityRecoveryRequired is returned exactly when it must be: never by
\* a call that wrote nothing, and once a call has handed the write to USB, any
\* other result means that the adapter is known to have the requested address
\* or has been power cycled since (identity.rs "fail-closed").
RecoveryBoundary ==
    /\ result = "RecoveryRequired" => wrote
    /\ wrote /\ result \notin {"none", "RecoveryRequired"} =>
          adapter.active \in {target, adapter.factory}

\* No USB handle outlives the step that gives it up: open never tries to claim
\* the interface while it holds it, and an error leaves the adapter free.
HandleReleased ==
    step \in Opens \/ (step = "Done" /\ result # "Opened") => handle = "none"

\* Session::open returns, whether or not the adapter ever comes back after the
\* warm reset (open_reenumerated_session's deadline, COMMAND_TIMEOUT).
OpenReturns == []<>(step \in {"Idle", "Done"})
=============================================================================
