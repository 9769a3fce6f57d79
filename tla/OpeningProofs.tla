---------------------------- MODULE OpeningProofs ----------------------------
(***************************************************************************)
(* What Session::open promises about the adapter's address, the recovery     *)
(* error and the USB handle, for any addresses, deadline and bounds, and an  *)
(* adapter that fails as it likes.                                           *)
(***************************************************************************)
EXTENDS Opening, SequenceTheorems, TLAPS

Any == Addresses \cup {Zero, Default}
\* Commands that leave the address alone, and all that the host sends.
Harmless == {"Reset", "SupportedCommands", "Version", "Features", "EventMask", "LeEventMask",
             "BufferSize", "Address", "LocalName", "ClassOfDevice", "SimplePairing",
             "InquiryResponse", "LinkPolicy", "ScanEnable"}
Names == Harmless \cup {"Write", "WarmReset"}
Statuses == {"ok", "refused", "length", "short"}

Event(A) == [op : Names \cup {Noise}, status : Statuses, address : A]
EventsFrom(A) == Seq(Event(A))
Commands(ops) == Seq([op : ops, address : Any])

Rewriting == {"WarmReset", "Reopen", "Version2", "Address2", "Close2"}
Prepared == {"Open", "Initialize", "Select", "Done", "Idle"}

\* Events a living handle can still deliver report the address that is active.
Shape ==
    /\ step \in Steps /\ waiting \in BOOLEAN /\ wrote \in BOOLEAN /\ next \in 1..14
    /\ handle \in {"none", "live", "gone"} /\ target \in Any
    /\ adapter \in [factory : Any, stored : Any, active : Any, csr : BOOLEAN,
                    capable : BOOLEAN, present : BOOLEAN]
    /\ cmds \in Commands(Names) /\ events \in EventsFrom(Any)
    /\ handle # "gone" => events \in EventsFrom({adapter.active})
    /\ handle = "gone" => cmds = <<>>

\* Which steps come with which handle, command, result and preparation.
Control ==
    /\ step \in Opens \cup {"Idle"} \/ (step = "Done" /\ result # "Opened") => handle = "none"
    /\ waiting => step \in Exchanges
    /\ step \notin {"Initialize", "Select", "Done", "Idle"} => next = 1
    /\ step \notin {"Done", "Idle"} => result = "none"
    /\ step = "Done" => result # "none"
    /\ step \in {"Open1", "Version1", "Address1", "Close1"} \/ (step = "Write" /\ ~waiting) => ~wrote
    /\ step \in Rewriting \/ (step = "Write" /\ waiting) \/ prep = "Rewritten"
          \/ result = "RecoveryRequired" => wrote
    /\ step \in Prepared /\ wrote => prep = "Rewritten" \/ result = "RecoveryRequired"
    /\ step \notin Prepared => prep = "None"
    /\ step = "Done" /\ result = "Opened" => target = Default \/ seen = target

\* Once initialize_controller has read the address, it is the active one for as
\* long as the handle lives.
Identity ==
    handle = "live" /\ \/ step = "Initialize" /\ next > 8
                       \/ step = "Select"
                       \/ step = "Done" /\ result = "Opened"
        => seen = adapter.active

\* Nothing that was sent can change the address any more.
Clean == adapter.stored = adapter.active /\ cmds \in Commands(Harmless)
Safe == Clean /\ adapter.active \in {target, adapter.factory}

\* Between the vendor write and the check that follows the warm reset, the
\* adapter has the requested address only if it restarted since the write, and a
\* restart forgets every command. So the address that is read there is final,
\* also when the device disappears just after its answer.
Recovery ==
    /\ step = "Write" /\ ~waiting /\ handle = "live" => adapter.active # target
    /\ step = "WarmReset" \/ (step = "Write" /\ waiting) =>
          adapter.active # target \/ (Clean /\ handle # "live")
    /\ step \in {"Reopen", "Version2", "Address2", "Close2"} => adapter.active # target \/ Clean
    /\ step \in {"Version2", "Address2"} /\ handle = "gone" =>
          Safe \/ events \in EventsFrom(Any \ {target})
    /\ (step = "Close2" /\ seen = target) \/ prep = "Rewritten" => Safe

IInv == Shape /\ Control /\ Identity /\ Recovery

-----------------------------------------------------------------------------
(* Commands and events *)

LEMMA CommandNames ==
    /\ Len(Initialization) = 14
    /\ \A n \in 1..14 : Initialization[n] \in Harmless /\ (Initialization[n] = "Address" <=> n = 8)
<1>1. Len(Initialization) = 14
  BY DEF Initialization
<1>2. ASSUME NEW n \in 1..14
      PROVE  Initialization[n] \in Harmless /\ (Initialization[n] = "Address" <=> n = 8)
  <2>1. \/ n = 1 \/ n = 2 \/ n = 3 \/ n = 4 \/ n = 5 \/ n = 6 \/ n = 7 \/ n = 8 \/ n = 9 \/ n = 10
        \/ n = 11 \/ n = 12 \/ n = 13 \/ n = 14
    OBVIOUS
  <2> QED BY <2>1 DEF Initialization, Harmless
<1> QED BY <1>1, <1>2

LEMMA OpcodeNames ==
    ASSUME Shape
    PROVE  /\ Opcode \in Names
           /\ step # "Write" => Opcode \in Harmless
           /\ step = "Initialize" => (Opcode = "Address" <=> next = 8)
<1>1. CASE step \in {"Version1", "Version2", "Address1", "Address2", "Write"}
  BY <1>1 DEF Opcode, Harmless, Names
<1>2. CASE step \notin {"Version1", "Version2", "Address1", "Address2", "Write"}
  <2>1. Opcode = Initialization[next] /\ next \in 1..14
    BY <1>2 DEF Opcode, Shape
  <2>2. \A op \in Harmless : op \in Names
    BY DEF Names
  <2> QED BY <2>1, <2>2, CommandNames
<1> QED BY <1>1, <1>2

LEMMA FewerNames == \A c \in Commands(Harmless) : c \in Commands(Names)
<1>1. [op : Harmless, address : Any] \subseteq [op : Names, address : Any]
  BY DEF Names
<1> QED BY <1>1, SeqMonotonic, Zenon DEF Commands

LEMMA CommandsLeft ==
    ASSUME NEW ops, NEW s \in Commands(ops), s # <<>>
    PROVE  Head(s) \in [op : ops, address : Any] /\ Tail(s) \in Commands(ops)
  BY HeadTailProperties, Zenon DEF Commands

LEMMA EventsWiden ==
    ASSUME NEW A, NEW B, A \subseteq B
    PROVE  \A s \in EventsFrom(A) : s \in EventsFrom(B)
<1>1. Event(A) \subseteq Event(B)
  BY DEF Event
<1> QED BY <1>1, SeqMonotonic DEF EventsFrom

\* Tails, prefixes and suffixes of a sequence of events.
LEMMA EventsLeft ==
    ASSUME NEW A, NEW s \in EventsFrom(A)
    PROVE  /\ s # <<>> => Tail(s) \in EventsFrom(A) /\ Head(s) \in Event(A)
           /\ Len(s) \in Nat
           /\ \A n \in 0..Len(s) : /\ SubSeq(s, 1, n) \in EventsFrom(A)
                                  /\ SubSeq(s, n + 1, Len(s)) \in EventsFrom(A)
<1> USE DEF EventsFrom
<1>1. Len(s) \in Nat /\ (s # <<>> => Tail(s) \in EventsFrom(A) /\ Head(s) \in Event(A))
  OBVIOUS
<1>2. ASSUME NEW n \in 0..Len(s)
      PROVE  SubSeq(s, 1, n) \in EventsFrom(A) /\ SubSeq(s, n + 1, Len(s)) \in EventsFrom(A)
  <2>1. \A i \in 1..Len(s) : s[i] \in Event(A)
    OBVIOUS
  <2>2. \A i \in 1..n : s[i] \in Event(A)
    BY <1>1, <2>1
  <2>3. \A i \in (n + 1)..Len(s) : s[i] \in Event(A)
    BY <1>1, <2>1
  <2> QED BY <1>1, <2>2, <2>3, SubSeqProperties
<1> QED BY <1>1, <1>2

\* What a step of the host does to the events: some are taken, and the rest go
\* with a handle whose device is gone.
LEMMA ReleasedEvents ==
    ASSUME Shape, NEW left, left = events \/ (events # <<>> /\ left = Tail(events)), Release(left),
           UNCHANGED adapter
    PROVE  handle' = "none" /\ events' \in EventsFrom({adapter.active}) /\ events' \in EventsFrom(Any)
<1>1. handle' = "none"
  BY DEF Release
<1>2. events' \in EventsFrom({adapter.active})
  <2>1. CASE handle = "gone"
    BY <2>1 DEF Release, EventsFrom
  <2>2. CASE handle = "none"
    BY <2>2 DEF Release, Shape
  <2>3. CASE handle = "live"
    <3>1. events \in EventsFrom({adapter.active})
      BY <2>3 DEF Shape
    <3>2. left \in EventsFrom({adapter.active})
      BY <3>1, EventsLeft, Zenon
    <3>3. PICK n \in 0..Len(left) : events' = SubSeq(left, n + 1, Len(left))
      BY <2>3 DEF Release
    <3> QED BY <3>2, <3>3, EventsLeft, Zenon
  <2> QED BY <2>1, <2>2, <2>3 DEF Shape
<1>3. {adapter.active} \subseteq Any
  BY DEF Shape
<1> QED BY <1>1, <1>2, <1>3, EventsWiden

-----------------------------------------------------------------------------
(* The adapter *)

LEMMA InitIInv == Init => IInv
<1> SUFFICES ASSUME Init PROVE IInv
  OBVIOUS
<1>1. Shape
  <2>1. \A A : <<>> \in EventsFrom(A)
    BY DEF EventsFrom
  <2>2. <<>> \in Commands(Names)
    BY DEF Commands
  <2>3. adapter \in [factory : Any, stored : Any, active : Any, csr : BOOLEAN, capable : BOOLEAN,
                     present : BOOLEAN]
    BY DEF Init, Any
  <2>4. /\ step = "Idle" /\ waiting = FALSE /\ wrote = FALSE /\ next = 1
        /\ handle = "none" /\ target = Default /\ events = <<>> /\ cmds = <<>>
    BY DEF Init
  <2>5. step \in Steps /\ target \in Any
    BY <2>4 DEF Steps, Any
  <2>6. waiting \in BOOLEAN /\ wrote \in BOOLEAN
    BY <2>4, Zenon
  <2>8. next \in 1..14
    BY <2>4
  <2>7. events \in EventsFrom(Any) /\ events \in EventsFrom({adapter.active}) /\ cmds \in Commands(Names)
    BY <2>1, <2>2, <2>4
  <2> QED BY <2>3, <2>4, <2>5, <2>6, <2>7, <2>8 DEF Shape
<1>2. Control /\ Identity /\ Recovery
  BY DEF Init, Control, Identity, Recovery, Opens, Exchanges, BeforeWrite, AfterWrite, Rewriting, Prepared
<1> QED BY <1>1, <1>2 DEF IInv

\* A restart makes the stored address the active one and forgets all commands.
LEMMA Restart ==
    ASSUME IInv, Leaves, UNCHANGED host, NEW a \in {adapter.stored, adapter.factory},
           adapter' = [adapter EXCEPT !.stored = a, !.active = a, !.present = FALSE],
           a = adapter.factory \/ cmds \notin Commands(Harmless)
    PROVE  IInv'
<1> USE DEF IInv
<1>1. /\ adapter'.stored = a /\ adapter'.active = a /\ adapter'.factory = adapter.factory
      /\ adapter' \in [factory : Any, stored : Any, active : Any, csr : BOOLEAN,
                       capable : BOOLEAN, present : BOOLEAN]
  BY Zenon DEF Shape
<1>2. /\ handle' = (IF handle = "live" THEN "gone" ELSE handle) /\ cmds' = <<>>
      /\ UNCHANGED <<step, waiting, next, target, prep, seen, wrote, result>>
  BY DEF Leaves, host
<1>3. Clean'
  BY <1>1, <1>2 DEF Clean, Commands
<1>4. PICK n \in 0..Len(events) : events' = IF handle = "none" THEN <<>> ELSE SubSeq(events, 1, n)
  BY DEF Leaves
<1>5. ASSUME NEW A, events \in EventsFrom(A) PROVE events' \in EventsFrom(A)
  <2>1. <<>> \in EventsFrom(A)
    BY DEF EventsFrom
  <2> QED BY <1>4, <1>5, <2>1, EventsLeft, Zenon
<1>6. handle' # "gone" => events' = <<>>
  BY <1>2, <1>4 DEF Shape
<1>7. Shape'
  <2>1. <<>> \in EventsFrom({adapter'.active}) /\ <<>> \in Commands(Names)
    BY DEF EventsFrom, Commands
  <2>2. events' \in EventsFrom(Any)
    BY <1>5 DEF Shape
  <2> QED BY <1>1, <1>2, <1>6, <2>1, <2>2 DEF Shape
<1>8. Control'
  BY <1>2 DEF Control
<1>9. Identity'
  BY <1>2 DEF Identity
<1>10. Safe => Safe'
  BY <1>1, <1>2, <1>3 DEF Safe, Clean
<1>11. step \in {"Version2", "Address2"} /\ handle' = "gone" => Safe' \/ events' \in EventsFrom(Any \ {target})
  <2> SUFFICES ASSUME step \in {"Version2", "Address2"}, handle' = "gone"
               PROVE  Safe' \/ events' \in EventsFrom(Any \ {target})
    OBVIOUS
  <2>1. CASE handle = "gone"
    BY <1>5, <1>10, <2>1 DEF Recovery
  <2>2. CASE handle = "live"
    <3>1. CASE adapter.active = target
      <4>1. Clean
        BY <3>1 DEF Recovery
      <4> QED BY <1>1, <1>2, <1>3, <4>1 DEF Safe, Clean
    <3>2. CASE adapter.active # target
      <4>1. {adapter.active} \subseteq Any \ {target}
        BY <3>2 DEF Shape
      <4>2. events \in EventsFrom(Any \ {target})
        BY <2>2, <4>1, EventsWiden DEF Shape
      <4> QED BY <1>5, <4>2
    <3> QED BY <3>1, <3>2
  <2> QED BY <1>2, <2>1, <2>2 DEF Shape
<1>12. Recovery'
  BY <1>2, <1>3, <1>10, <1>11 DEF Recovery
<1> QED BY <1>7, <1>8, <1>9, <1>12

LEMMA RestartSteps == IInv /\ (ProcessReset \/ PowerCycle) => IInv'
<1>1. ASSUME IInv, PowerCycle PROVE IInv'
  BY <1>1, Restart DEF PowerCycle
<1>2. ASSUME IInv, ProcessReset PROVE IInv'
  <2>1. cmds \notin Commands(Harmless)
    <3> SUFFICES ASSUME cmds \in Commands(Harmless) PROVE FALSE
      OBVIOUS
    <3>1. Head(cmds) \in [op : Harmless, address : Any]
      BY <1>2, CommandsLeft, Zenon DEF ProcessReset
    <3> QED BY <1>2, <3>1 DEF ProcessReset, Harmless
  <2>2. adapter' = [adapter EXCEPT !.stored = adapter.stored, !.active = adapter.stored, !.present = FALSE]
    BY <1>2, Zenon DEF ProcessReset, IInv, Shape
  <2> QED BY <1>2, <2>1, <2>2, Restart DEF ProcessReset
<1> QED BY <1>1, <1>2

\* An answer or another packet is added, with the address that is active; no
\* command is added, and the address is changed only by a write.
LEMMA AnswerStep ==
    ASSUME IInv, UNCHANGED <<host, handle>>, handle # "gone", NEW op \in Names \cup {Noise},
           NEW status \in Statuses, Answer(op, status),
           NEW a \in Any, adapter' = [adapter EXCEPT !.stored = a],
           cmds' = cmds \/ (cmds # <<>> /\ cmds' = Tail(cmds)),
           cmds \in Commands(Harmless) => a = adapter.stored
    PROVE  IInv'
<1> USE DEF IInv
<1>1. /\ adapter'.active = adapter.active /\ adapter'.factory = adapter.factory /\ adapter'.stored = a
      /\ adapter' \in [factory : Any, stored : Any, active : Any, csr : BOOLEAN,
                       capable : BOOLEAN, present : BOOLEAN]
  BY DEF Shape
<1>2. /\ cmds' \in Commands(Names)
      /\ cmds \in Commands(Harmless) => cmds' \in Commands(Harmless)
  <2>1. ASSUME NEW ops, cmds \in Commands(ops) PROVE cmds' \in Commands(ops)
    BY <2>1, CommandsLeft, Zenon
  <2> QED BY <2>1 DEF Shape
<1>3. [op |-> op, status |-> status, address |-> adapter.active] \in Event({adapter.active})
  BY DEF Event
<1>4. events \in EventsFrom({adapter.active})
  BY DEF Shape
<1>5. events' \in EventsFrom({adapter.active})
  BY <1>3, <1>4 DEF Answer, EventsFrom
<1>6. {adapter.active} \subseteq Any
  BY DEF Shape
<1>7. events' \in EventsFrom(Any)
  BY <1>5, <1>6, EventsWiden
<1>8. Shape'
  BY <1>1, <1>2, <1>5, <1>7 DEF Shape, host
<1>9. (Clean => Clean') /\ (Safe => Safe')
  BY <1>1, <1>2 DEF Clean, Safe, host
<1>10. Control' /\ Identity'
  BY <1>1 DEF Control, Identity, host
<1>11. Recovery'
  BY <1>1, <1>9 DEF Recovery, host
<1> QED BY <1>8, <1>10, <1>11

LEMMA AnswerSteps == IInv /\ (Process \/ OtherPacket) => IInv'
<1>1. ASSUME IInv, OtherPacket PROVE IInv'
  <2>1. PICK status \in Statuses : Answer(Noise, status)
    BY <1>1 DEF OtherPacket, Statuses
  <2>2. adapter' = [adapter EXCEPT !.stored = adapter.stored] /\ adapter.stored \in Any
    BY <1>1 DEF OtherPacket, device, IInv, Shape
  <2>3. UNCHANGED <<host, handle, cmds>> /\ handle # "gone"
    BY <1>1 DEF OtherPacket, device
  <2> QED BY <1>1, <2>1, <2>2, <2>3, AnswerStep
<1>2. ASSUME IInv, Process PROVE IInv'
  <2>1. cmds # <<>> /\ cmds' = Tail(cmds) /\ UNCHANGED <<host, handle>> /\ handle # "gone"
    BY <1>2 DEF Process, IInv, Shape
  <2>2. Head(cmds) \in [op : Names, address : Any]
    BY <1>2, <2>1, CommandsLeft, Zenon DEF IInv, Shape
  <2>3. PICK status \in Statuses : Answer(Head(cmds).op, status)
    BY <1>2 DEF Process, Statuses
  <2>4. adapter.stored \in Any /\ adapter = [adapter EXCEPT !.stored = adapter.stored]
    BY <1>2 DEF IInv, Shape
  <2>5. CASE UNCHANGED adapter
    BY <1>2, <2>1, <2>2, <2>3, <2>4, <2>5, AnswerStep
  <2>6. CASE Head(cmds).op = "Write" /\ adapter' = [adapter EXCEPT !.stored = Head(cmds).address]
    <3>1. cmds \notin Commands(Harmless)
      <4> SUFFICES ASSUME cmds \in Commands(Harmless) PROVE FALSE
        OBVIOUS
      <4>1. Head(cmds) \in [op : Harmless, address : Any]
        BY <2>1, CommandsLeft, Zenon
      <4> QED BY <2>6, <4>1 DEF Harmless
    <3>2. Head(cmds).address \in Any /\ Head(cmds).op \in Names
      BY <2>2
    <3> QED BY <1>2, <2>1, <2>3, <2>6, <3>1, <3>2, AnswerStep
  <2> QED BY <1>2, <2>5, <2>6 DEF Process
<1> QED BY <1>1, <1>2

LEMMA ReenumerateStep == IInv /\ Reenumerate => IInv'
<1> SUFFICES ASSUME IInv, Reenumerate PROVE IInv'
  OBVIOUS
<1>1. /\ adapter'.active = adapter.active /\ adapter'.factory = adapter.factory
      /\ adapter'.stored = adapter.stored
      /\ adapter' \in [factory : Any, stored : Any, active : Any, csr : BOOLEAN,
                       capable : BOOLEAN, present : BOOLEAN]
      /\ UNCHANGED <<host, handle, cmds, events>>
  BY Zenon DEF Reenumerate, IInv, Shape
<1> QED BY <1>1 DEF IInv, Shape, Control, Identity, Recovery, Safe, Clean, host

-----------------------------------------------------------------------------
(* Session::open fails *)

\* The errors a call may return where it is: the recovery error exactly when the
\* write was handed over and its success is not established.
MayReturn(kind) ==
    /\ kind \notin {"none", "Opened"}
    /\ kind = "RecoveryRequired" => wrote
    /\ wrote /\ kind # "RecoveryRequired" => prep = "Rewritten"

LEMMA FailStep ==
    ASSUME IInv, NEW kind, MayReturn(kind),
           NEW left, left = events \/ (events # <<>> /\ left = Tail(events)),
           FailWith(kind, left), UNCHANGED <<adapter, cmds>>
    PROVE  IInv'
<1> USE DEF IInv
<1>1. /\ step' = "Done" /\ waiting' = FALSE /\ result' = kind /\ Release(left)
      /\ UNCHANGED <<next, target, prep, seen, wrote>>
  BY DEF FailWith, Goto
<1>2. handle' = "none" /\ events' \in EventsFrom({adapter.active}) /\ events' \in EventsFrom(Any)
  BY <1>1, ReleasedEvents, Zenon
<1>3. waiting' \in BOOLEAN /\ step' \in Steps
  BY <1>1, Zenon DEF Steps
<1>4. Shape'
  BY <1>1, <1>2, <1>3 DEF Shape
<1>5. Control'
  BY <1>1, <1>2 DEF Control, MayReturn, Opens, Exchanges, BeforeWrite, AfterWrite, Rewriting, Prepared
<1>6. Identity'
  BY <1>2 DEF Identity
<1>7. Recovery'
  BY <1>1, <1>2 DEF Recovery, Safe, Clean
<1> QED BY <1>4, <1>5, <1>6, <1>7

\* Errors of a command exchange.
LEMMA MappedMayReturn ==
    ASSUME IInv, step \in Exchanges, waiting, NEW kind, kind \notin {"none", "Opened", "RecoveryRequired"}
    PROVE  MayReturn(Mapped(kind))
<1>1. result = "none"
  BY DEF IInv, Control, Exchanges, BeforeWrite, AfterWrite
<1>2. CASE step \in BeforeWrite
  BY <1>2 DEF IInv, Control, MayReturn, Mapped, BeforeWrite
<1>3. CASE step \in AfterWrite
  <2>1. wrote /\ Mapped(kind) = "RecoveryRequired"
    BY <1>3 DEF IInv, Control, Mapped, BeforeWrite, AfterWrite, Rewriting
  <2> QED BY <2>1 DEF MayReturn
<1>4. CASE step = "Initialize"
  <2>1. Mapped(kind) = kind /\ (wrote => prep = "Rewritten")
    BY <1>1, <1>4 DEF IInv, Control, Mapped, BeforeWrite, AfterWrite, Prepared
  <2> QED BY <2>1 DEF MayReturn
<1> QED BY <1>2, <1>3, <1>4 DEF Exchanges

LEMMA OpenFailSteps == IInv /\ (UsbOpenFails \/ ReopenFails) => IInv'
<1>1. ASSUME IInv, UsbOpenFails PROVE IInv'
  <2>1. MayReturn("OpenFailed")
    BY <1>1 DEF UsbOpenFails, IInv, Control, MayReturn, Prepared
  <2> QED BY <1>1, <2>1, FailStep DEF UsbOpenFails, Fail, device
<1>2. ASSUME IInv, ReopenFails PROVE IInv'
  <2>1. CASE UNCHANGED <<step, waiting, next, target, prep, seen, wrote, result, handle, events>>
    BY <1>2, <2>1 DEF ReopenFails, device, IInv, Shape, Control, Identity, Recovery, Safe, Clean
  <2>2. CASE Fail("RecoveryRequired")
    <3>1. MayReturn("RecoveryRequired")
      BY <1>2 DEF ReopenFails, IInv, Control, MayReturn, Rewriting
    <3> QED BY <1>2, <2>2, <3>1, FailStep DEF ReopenFails, Fail, device
  <2> QED BY <1>2, <2>1, <2>2 DEF ReopenFails, ReopenAgain
<1> QED BY <1>1, <1>2

LEMMA ReceiveNothingStep == IInv /\ ReceiveNothing => IInv'
<1> SUFFICES ASSUME IInv, ReceiveNothing PROVE IInv'
  OBVIOUS
<1>1. step \in Exchanges /\ waiting
  BY DEF ReceiveNothing, IInv, Control
<1>2. PICK kind \in {"SourceTerminated", "OpenFailed"} : Fail(Mapped(kind))
  BY DEF ReceiveNothing
<1>3. kind \notin {"none", "Opened", "RecoveryRequired"}
  OBVIOUS
<1> QED BY <1>1, <1>2, <1>3, MappedMayReturn, FailStep DEF ReceiveNothing, Fail, device

\* A command that reaches the adapter, or may have done so.
LEMMA SentCommand ==
    ASSUME IInv, step \in Exchanges, cmds' = Append(cmds, [op |-> Opcode, address |-> target])
    PROVE  /\ cmds' \in Commands(Names)
           /\ step # "Write" /\ cmds \in Commands(Harmless) => cmds' \in Commands(Harmless)
<1>1. /\ [op |-> Opcode, address |-> target] \in [op : Names, address : Any]
      /\ step # "Write" => [op |-> Opcode, address |-> target] \in [op : Harmless, address : Any]
  BY OpcodeNames DEF IInv, Shape
<1> QED BY <1>1 DEF Commands, IInv, Shape

LEMMA SendStep == IInv /\ Send => IInv'
<1> SUFFICES ASSUME IInv, Send PROVE IInv'
  OBVIOUS
<1> USE DEF IInv
<1>1. /\ step \in Exchanges /\ ~waiting /\ handle = "live" /\ waiting' = TRUE
      /\ wrote' = (wrote \/ step = "Write")
      /\ UNCHANGED <<step, next, target, prep, seen, result, handle, adapter, events>>
  BY DEF Send
<1>2. /\ cmds' \in Commands(Names)
      /\ step # "Write" /\ cmds \in Commands(Harmless) => cmds' \in Commands(Harmless)
  BY <1>1, SentCommand DEF Send
<1>3. waiting' \in BOOLEAN /\ wrote' \in BOOLEAN
  BY <1>1 DEF Shape
<1>4. Shape'
  BY <1>1, <1>2, <1>3 DEF Shape
<1>5. Control'
  BY <1>1, Zenon DEF Control, Exchanges, BeforeWrite, AfterWrite, Rewriting, Prepared, Shape
<1>6. Identity'
  BY <1>1 DEF Identity
<1>7. step # "Write" => (Clean => Clean') /\ (Safe => Safe')
  BY <1>1, <1>2 DEF Clean, Safe
<1>8. step = "Write" => prep # "Rewritten"
  BY DEF Control, Prepared
<1>9. Recovery'
  BY <1>1, <1>7, <1>8 DEF Recovery, Exchanges, BeforeWrite, AfterWrite
<1> QED BY <1>4, <1>5, <1>6, <1>9

LEMMA SendFailsStep == IInv /\ SendFails => IInv'
<1> SUFFICES ASSUME IInv, SendFails PROVE IInv'
  OBVIOUS
<1> USE DEF IInv
<1>1. /\ step \in Exchanges /\ ~waiting /\ step' = "Done" /\ waiting' = FALSE
      /\ result' = Mapped("SourceTerminated") /\ Release(events)
      /\ wrote' = (wrote \/ step = "Write")
      /\ UNCHANGED <<next, target, prep, seen, adapter>>
  BY DEF SendFails, Goto
<1>2. handle' = "none" /\ events' \in EventsFrom({adapter.active}) /\ events' \in EventsFrom(Any)
  BY <1>1, ReleasedEvents, Zenon
<1>3. /\ cmds' \in Commands(Names)
      /\ step # "Write" /\ cmds \in Commands(Harmless) => cmds' \in Commands(Harmless)
  <2>1. CASE UNCHANGED cmds
    BY <2>1 DEF Shape
  <2>2. CASE cmds' = Append(cmds, [op |-> Opcode, address |-> target])
    BY <1>1, <2>2, SentCommand
  <2> QED BY <2>1, <2>2 DEF SendFails
<1>4. step' \in Steps /\ waiting' \in BOOLEAN /\ wrote' \in BOOLEAN
  BY <1>1, Zenon DEF Steps, Shape
<1>5. Shape'
  BY <1>1, <1>2, <1>3, <1>4 DEF Shape
<1>6. /\ result' \notin {"none", "Opened"}
      /\ result' = "RecoveryRequired" => wrote'
      /\ wrote' /\ result' # "RecoveryRequired" => prep = "Rewritten"
  <2>1. CASE step \in BeforeWrite
    BY <1>1, <2>1, Zenon DEF Control, Mapped, BeforeWrite
  <2>2. CASE step \in AfterWrite
    BY <1>1, <2>2, Zenon DEF Control, Mapped, BeforeWrite, AfterWrite, Rewriting
  <2>3. CASE step = "Initialize"
    BY <1>1, <2>3, Zenon DEF Control, Mapped, BeforeWrite, AfterWrite, Prepared
  <2> QED BY <1>1, <2>1, <2>2, <2>3 DEF Exchanges
<1>7. prep = "Rewritten" => wrote /\ step # "Write"
  BY DEF Control, Prepared
<1>8. Control'
  BY <1>1, <1>2, <1>6, <1>7, Zenon DEF Control, Opens, Rewriting, Prepared
<1>9. prep = "Rewritten" => Safe'
  BY <1>1, <1>3, <1>7 DEF Recovery, Safe, Clean
<1>10. Identity' /\ Recovery'
  BY <1>1, <1>2, <1>9 DEF Identity, Recovery
<1> QED BY <1>5, <1>8, <1>10

-----------------------------------------------------------------------------
(* Session::open goes on *)

LEMMA CallSteps == IInv /\ (Call \/ CloseSession) => IInv'
<1> USE DEF IInv
<1>1. ASSUME IInv, Call PROVE IInv'
  <2>1. /\ step' \in {"Open", "Open1"} /\ waiting' = FALSE /\ target' \in Any
        /\ next' = 1 /\ prep' = "None" /\ wrote' = FALSE /\ result' = "none"
        /\ handle = "none" /\ UNCHANGED <<handle, adapter, cmds, events>>
    BY <1>1 DEF Call, Goto, device, Any
  <2>2. step' \in Steps /\ waiting' \in BOOLEAN /\ wrote' \in BOOLEAN
    BY <2>1, Zenon DEF Steps, Opens
  <2>3. next' \in 1..14
    BY <2>1
  <2>4. Shape'
    BY <1>1, <2>1, <2>2, <2>3 DEF Shape
  <2>5. Control'
    BY <2>1 DEF Control, Opens, Rewriting, Prepared
  <2>6. Identity' /\ Recovery'
    BY <2>1 DEF Identity, Recovery
  <2> QED BY <2>4, <2>5, <2>6
<1>2. ASSUME IInv, CloseSession PROVE IInv'
  <2>1. /\ step = "Done" /\ result = "Opened" /\ step' = "Idle" /\ waiting' = FALSE /\ Release(events)
        /\ UNCHANGED <<next, target, prep, seen, wrote, result, adapter, cmds>>
    BY <1>2 DEF CloseSession, Goto, device
  <2>2. handle' = "none" /\ events' \in EventsFrom({adapter.active}) /\ events' \in EventsFrom(Any)
    BY <1>2, <2>1, ReleasedEvents, Zenon
  <2>3. step' \in Steps /\ waiting' \in BOOLEAN
    BY <2>1, Zenon DEF Steps
  <2>4. Shape'
    BY <1>2, <2>1, <2>2, <2>3 DEF Shape
  <2>5. Control'
    BY <1>2, <2>1, <2>2 DEF Control, Opens, Rewriting, Prepared
  <2>6. Identity' /\ Recovery'
    BY <1>2, <2>1, <2>2 DEF Identity, Recovery, Safe, Clean
  <2> QED BY <2>4, <2>5, <2>6
<1> QED BY <1>1, <1>2

LEMMA UsbOpenStep == IInv /\ UsbOpen => IInv'
<1> SUFFICES ASSUME IInv, UsbOpen PROVE IInv'
  OBVIOUS
<1> USE DEF IInv
<1>1. /\ \/ step = "Open1" /\ step' = "Version1"
         \/ step = "Reopen" /\ step' = "Version2"
         \/ step = "Open" /\ step' = "Initialize"
      /\ handle' = "live" /\ waiting' = FALSE
      /\ UNCHANGED <<next, target, prep, seen, wrote, result, adapter, cmds, events>>
  BY DEF UsbOpen, Goto, Stay, Opens, device
<1>2. handle = "none"
  BY <1>1 DEF Control, Opens
<1>3. step' \in Steps /\ waiting' \in BOOLEAN
  BY <1>1, Zenon DEF Steps, Exchanges, BeforeWrite, AfterWrite
<1>4. Shape'
  BY <1>1, <1>2, <1>3 DEF Shape
<1>5. Control'
  BY <1>1 DEF Control, Opens, Rewriting, Prepared
<1>6. next = 1
  BY <1>1 DEF Control
<1>7. Identity'
  BY <1>1, <1>6 DEF Identity
<1>8. Recovery'
  BY <1>1 DEF Recovery, Safe, Clean
<1> QED BY <1>4, <1>5, <1>7, <1>8

\* An event is taken from the queue and open goes on.
Taken ==
    /\ waiting /\ events # <<>> /\ events' = Tail(events)
    /\ UNCHANGED <<handle, adapter, cmds, target, wrote, result, prep>>

LEMMA TakenShape ==
    ASSUME IInv, Taken, step' \in Steps, waiting' \in BOOLEAN, next' \in 1..14
    PROVE  Shape' /\ \A A : events \in EventsFrom(A) => events' \in EventsFrom(A)
<1>1. ASSUME NEW A, events \in EventsFrom(A) PROVE events' \in EventsFrom(A)
  BY <1>1, EventsLeft DEF Taken
<1>2. Shape'
  BY <1>1 DEF IInv, Shape, Taken
<1> QED BY <1>1, <1>2

\* The identity commands: version, address, write, and the check after the reset.
LEMMA IdentityAnswer ==
    ASSUME IInv, Taken, waiting' = FALSE, UNCHANGED next,
           \/ step = "Version1" /\ step' = "Address1" /\ UNCHANGED seen
           \/ step = "Version2" /\ step' = "Address2" /\ UNCHANGED seen
           \/ step = "Write" /\ step' = "WarmReset" /\ UNCHANGED seen
           \/ /\ step = "Address1" /\ seen' = Head(events).address
              /\ step' = IF Head(events).address = target THEN "Close1" ELSE "Write"
           \/ step = "Address2" /\ step' = "Close2" /\ seen' = Head(events).address
    PROVE  IInv'
<1> USE DEF IInv
<1>1. step' \in Steps /\ waiting' \in BOOLEAN
  BY Zenon DEF Steps, Exchanges, BeforeWrite, AfterWrite
<1>2. next' \in 1..14
  BY DEF Shape
<1>3. Shape' /\ \A A : events \in EventsFrom(A) => events' \in EventsFrom(A)
  BY <1>1, <1>2, TakenShape
<1>4. Control'
  BY DEF Control, Taken, Opens, Rewriting, Prepared
<1>5. Identity'
  BY DEF Identity
<1>6. prep = "None" /\ prep' = "None"
  BY DEF Control, Prepared, Taken
<1>7. handle # "gone" => Head(events).address = adapter.active
  <2> SUFFICES ASSUME handle # "gone" PROVE Head(events).address = adapter.active
    OBVIOUS
  <2>1. Head(events) \in Event({adapter.active})
    BY EventsLeft DEF Shape, Taken
  <2> QED BY <2>1 DEF Event
<1>8. handle = "gone" /\ step = "Address2" /\ Head(events).address = target => Safe
  <2> SUFFICES ASSUME handle = "gone", step = "Address2", Head(events).address = target,
                      events \in EventsFrom(Any \ {target})
               PROVE  FALSE
    BY DEF Recovery
  <2>1. Head(events) \in Event(Any \ {target})
    BY EventsLeft DEF Taken
  <2> QED BY <2>1 DEF Event
<1>9. (Clean <=> Clean') /\ (Safe <=> Safe')
  BY DEF Clean, Safe, Taken
<1>10. CASE step \in {"Version1", "Address1", "Write"}
  BY <1>3, <1>4, <1>5, <1>6, <1>7, <1>9, <1>10 DEF Recovery, Taken
<1>11. CASE step = "Version2"
  <2>1. handle = "gone" => Safe \/ events' \in EventsFrom(Any \ {target})
    BY <1>3, <1>11 DEF Recovery
  <2> QED BY <1>3, <1>4, <1>5, <1>6, <1>9, <1>11, <2>1 DEF Recovery, Taken
<1>12. CASE step = "Address2"
  <2>1. Head(events).address = target => Safe
    BY <1>7, <1>8, <1>12 DEF Recovery, Safe
  <2> QED BY <1>3, <1>4, <1>5, <1>6, <1>9, <1>12, <2>1, SMTT(30) DEF Recovery, Taken
<1> QED BY <1>3, <1>4, <1>5, <1>10, <1>11, <1>12

\* The commands of initialize_controller.
LEMMA InitializeAnswer ==
    ASSUME IInv, Taken, waiting' = FALSE, step = "Initialize", next' \in 1..14,
           seen' = IF Opcode = "Address" THEN Head(events).address ELSE seen,
           \/ next' = next + 1 /\ step' = "Initialize"
           \/ next = 14 /\ next' = next /\ step' = "Select"
    PROVE  IInv'
<1> USE DEF IInv
<1>1. step' \in Steps /\ waiting' \in BOOLEAN
  BY Zenon DEF Steps, Exchanges
<1>2. Shape'
  BY <1>1, TakenShape
<1>3. Control'
  BY DEF Control, Taken, Opens, Rewriting, Prepared
<1>4. handle = "live" /\ (step' = "Initialize" => next' > 8) => seen' = adapter.active
  <2> SUFFICES ASSUME handle = "live", step' = "Initialize" => next' > 8 PROVE seen' = adapter.active
    OBVIOUS
  <2>1. Head(events) \in Event({adapter.active})
    BY EventsLeft DEF Shape, Taken
  <2>2. Head(events).address = adapter.active
    BY <2>1 DEF Event
  <2>3. next \in 1..14 /\ next >= 8
    BY DEF Shape
  <2>4. CASE next = 8
    BY <2>2, <2>4, OpcodeNames
  <2>5. CASE next > 8
    BY <2>3, <2>5, OpcodeNames DEF Identity
  <2> QED BY <2>3, <2>4, <2>5
<1>5. Identity'
  BY <1>4 DEF Identity, Taken
<1>6. Recovery'
  BY DEF Recovery, Taken, Safe, Clean
<1> QED BY <1>2, <1>3, <1>5, <1>6

LEMMA ReceiveStep == IInv /\ Receive => IInv'
<1> SUFFICES ASSUME IInv, Receive PROVE IInv'
  OBVIOUS
<1>1. waiting /\ events # <<>> /\ step \in Exchanges /\ UNCHANGED <<adapter, cmds>>
  BY DEF Receive, IInv, Control, device
<1>2. ASSUME NEW kind, MayReturn(kind), Reject(kind) PROVE IInv'
  BY <1>1, <1>2, FailStep, Zenon DEF Reject
<1>3. CASE Reject(Mapped("ProtocolViolation")) \/ Reject(Mapped("OpenFailed"))
  <2>1. MayReturn(Mapped("ProtocolViolation")) /\ MayReturn(Mapped("OpenFailed"))
    BY <1>1, MappedMayReturn
  <2> QED BY <1>2, <1>3, <2>1
<1>4. CASE events' = Tail(events) /\ UNCHANGED <<host, handle>>
  <2>1. Taken /\ UNCHANGED <<step, waiting, next, seen>>
    BY <1>1, <1>4 DEF Taken, host
  <2>2. step' \in Steps /\ waiting' \in BOOLEAN /\ next' \in 1..14
    BY <2>1 DEF IInv, Shape
  <2>3. Shape' /\ \A A : events \in EventsFrom(A) => events' \in EventsFrom(A)
    BY <2>1, <2>2, TakenShape
  <2>4. Control' /\ Identity'
    BY <2>1 DEF IInv, Control, Identity, Taken
  <2>5. (Clean <=> Clean') /\ (Safe <=> Safe')
    BY <2>1 DEF Clean, Safe, Taken
  <2>6. Recovery'
    BY <2>1, <2>3, <2>5 DEF IInv, Recovery, Taken
  <2> QED BY <2>3, <2>4, <2>6 DEF IInv
<1>5. CASE Answered(Head(events))
  <2>1. CASE step = "Version1"
    <3>1. AfterVersion1
      BY <1>5, <2>1 DEF Answered
    <3>2. CASE Reject("UnsupportedController")
      <4>1. MayReturn("UnsupportedController")
        BY <2>1 DEF MayReturn, IInv, Control
      <4> QED BY <1>2, <3>2, <4>1
    <3>3. CASE Goto("Address1") /\ Stay /\ UNCHANGED <<next, prep, seen, polls, handle>> /\ events' = Tail(events)
      <4>1. Taken /\ waiting' = FALSE /\ step' = "Address1" /\ UNCHANGED <<next, seen>>
        BY <1>1, <3>3 DEF Taken, Goto, Stay
      <4> QED BY <2>1, <4>1, IdentityAnswer, Zenon
    <3> QED BY <3>1, <3>2, <3>3 DEF AfterVersion1
  <2>2. CASE step = "Version2"
    <3>1. AfterVersion2
      BY <1>5, <2>2 DEF Answered
    <3>2. CASE Reject("RecoveryRequired")
      <4>1. MayReturn("RecoveryRequired")
        BY <2>2 DEF MayReturn, IInv, Control, Rewriting
      <4> QED BY <1>2, <3>2, <4>1
    <3>3. CASE Goto("Address2") /\ Stay /\ UNCHANGED <<next, prep, seen, polls, handle>> /\ events' = Tail(events)
      <4>1. Taken /\ waiting' = FALSE /\ step' = "Address2" /\ UNCHANGED <<next, seen>>
        BY <1>1, <3>3 DEF Taken, Goto, Stay
      <4> QED BY <2>2, <4>1, IdentityAnswer, Zenon
    <3> QED BY <3>1, <3>2, <3>3 DEF AfterVersion2
  <2>3. CASE step \in {"Address1", "Address2"}
    <3>1. AfterAddress(Head(events).address)
      BY <1>5, <2>3 DEF Answered
    <3>2. Taken /\ waiting' = FALSE /\ seen' = Head(events).address /\ UNCHANGED next
      BY <1>1, <3>1 DEF AfterAddress, Taken, Goto, Stay
    <3>3. \/ step = "Address2" /\ step' = "Close2"
          \/ /\ step = "Address1"
             /\ step' = IF Head(events).address = target THEN "Close1" ELSE "Write"
      BY <2>3, <3>1 DEF AfterAddress, Goto
    <3> QED BY <3>2, <3>3, IdentityAnswer, Zenon
  <2>4. CASE step = "Write"
    <3>1. Taken /\ waiting' = FALSE /\ step' = "WarmReset" /\ UNCHANGED <<next, seen>>
      BY <1>1, <1>5, <2>4 DEF Answered, Taken, Goto, Stay
    <3> QED BY <2>4, <3>1, IdentityAnswer, Zenon
  <2>5. CASE step = "Initialize"
    <3>1. AfterInitialization(Opcode, Head(events).address)
      BY <1>5, <2>5 DEF Answered
    <3>2. CASE Reject("InvalidControllerIdentity") \/ Reject("UnsupportedController")
      <4>1. MayReturn("InvalidControllerIdentity") /\ MayReturn("UnsupportedController")
        BY <2>5 DEF MayReturn, IInv, Control, Prepared
      <4> QED BY <1>2, <3>2, <4>1
    <3>3. CASE ~Reject("InvalidControllerIdentity") /\ ~Reject("UnsupportedController")
      <4>1. /\ seen' = IF Opcode = "Address" THEN Head(events).address ELSE seen
            /\ \/ next < 14 /\ next' = next + 1 /\ Goto("Initialize")
               \/ next = 14 /\ next' = next /\ Goto("Select")
            /\ Stay /\ UNCHANGED <<prep, polls, handle>> /\ events' = Tail(events)
        BY <3>1, <3>3, CommandNames DEF AfterInitialization
      <4>2. Taken /\ waiting' = FALSE
        BY <1>1, <4>1 DEF Taken, Goto, Stay
      <4>3. next' \in 1..14
        BY <4>1 DEF IInv, Shape
      <4> QED BY <2>5, <4>1, <4>2, <4>3, InitializeAnswer, Zenon DEF Goto
    <3> QED BY <3>2, <3>3
  <2> QED BY <1>1, <2>1, <2>2, <2>3, <2>4, <2>5 DEF Exchanges, BeforeWrite, AfterWrite
<1> QED BY <1>3, <1>4, <1>5 DEF Receive

LEMMA WarmResetStep == IInv /\ WarmReset => IInv'
<1> SUFFICES ASSUME IInv, WarmReset PROVE IInv'
  OBVIOUS
<1> USE DEF IInv
<1>1. /\ step = "WarmReset" /\ step' = "Reopen" /\ waiting' = FALSE /\ Release(events)
      /\ UNCHANGED <<next, target, prep, seen, wrote, result, adapter>>
  BY DEF WarmReset, Goto
<1>2. handle' = "none" /\ events' \in EventsFrom({adapter.active}) /\ events' \in EventsFrom(Any)
  BY <1>1, ReleasedEvents
<1>3. cmds' \in Commands(Names) /\ (handle # "live" => UNCHANGED cmds)
  <2>1. [op |-> "WarmReset", address |-> target] \in [op : Names, address : Any]
    BY DEF Names, Shape
  <2>2. Append(cmds, [op |-> "WarmReset", address |-> target]) \in Commands(Names)
    BY <2>1 DEF Commands, Shape
  <2> QED BY <2>2, Zenon DEF WarmReset, Shape
<1>4. step' \in Steps /\ waiting' \in BOOLEAN
  BY <1>1, Zenon DEF Steps, Opens
<1>5. Shape'
  BY <1>1, <1>2, <1>3, <1>4 DEF Shape
<1>6. Control'
  BY <1>1, <1>2 DEF Control, Opens, Rewriting, Prepared
<1>7. Identity'
  BY <1>1, SMTT(30) DEF Identity
<1>8. prep = "None" /\ (adapter.active # target \/ Clean')
  BY <1>1, <1>3 DEF Control, Prepared, Recovery, Clean
<1>9. Recovery'
  BY <1>1, <1>8 DEF Recovery
<1> QED BY <1>5, <1>6, <1>7, <1>9

LEMMA ClosePreparedStep == IInv /\ ClosePrepared => IInv'
<1> SUFFICES ASSUME IInv, ClosePrepared PROVE IInv'
  OBVIOUS
<1> USE DEF IInv
<1>1. step \in {"Close1", "Close2"} /\ UNCHANGED <<adapter, cmds>>
  BY DEF ClosePrepared, device
<1>2. CASE Fail("OpenFailed") /\ step = "Close1"
  <2>1. MayReturn("OpenFailed")
    BY <1>2 DEF MayReturn, Control
  <2> QED BY <1>1, <1>2, <2>1, FailStep DEF Fail
<1>3. CASE Fail("RecoveryRequired") /\ step = "Close2"
  <2>1. MayReturn("RecoveryRequired")
    BY <1>3 DEF MayReturn, Control, Rewriting
  <2> QED BY <1>1, <1>3, <2>1, FailStep DEF Fail
<1>4. CASE /\ step' = "Open" /\ waiting' = FALSE /\ Release(events)
           /\ UNCHANGED <<next, seen, target, wrote, result>>
           /\ \/ step = "Close1" /\ prep' = "AlreadyActive"
              \/ step = "Close2" /\ seen = target /\ prep' = "Rewritten"
  <2>1. handle' = "none" /\ events' \in EventsFrom({adapter.active}) /\ events' \in EventsFrom(Any)
    BY <1>1, <1>4, ReleasedEvents, Zenon
  <2>2. step' \in Steps /\ waiting' \in BOOLEAN
    BY <1>4, Zenon DEF Steps, Opens
  <2>3. Shape'
    BY <1>1, <1>4, <2>1, <2>2 DEF Shape
  <2>4. Control'
    BY <1>1, <1>4, <2>1, SMTT(30) DEF Control, Opens, Rewriting, Prepared
  <2>5. prep' = "Rewritten" => Safe'
    BY <1>1, <1>4 DEF Recovery, Safe, Clean
  <2>6. Identity' /\ Recovery'
    BY <1>4, <2>1, <2>5 DEF Identity, Recovery
  <2> QED BY <2>3, <2>4, <2>6
<1> QED BY <1>1, <1>2, <1>3, <1>4, Zenon DEF ClosePrepared, Read, Goto, Stay

LEMMA SelectStep == IInv /\ Select => IInv'
<1> SUFFICES ASSUME IInv, Select PROVE IInv'
  OBVIOUS
<1> USE DEF IInv
<1>1. step = "Select" /\ result = "none" /\ UNCHANGED <<adapter, cmds>>
  BY DEF Select, device, Control
<1>2. CASE \E kind \in {identity_mismatch_kind, "InvalidBondStore"} : Fail(kind)
  <2>1. MayReturn(identity_mismatch_kind) /\ MayReturn("InvalidBondStore")
    BY <1>1 DEF MayReturn, identity_mismatch_kind, Control, Prepared
  <2> QED BY <1>1, <1>2, <2>1, FailStep DEF Fail
<1>3. CASE /\ Confirmed /\ step' = "Done" /\ waiting' = FALSE /\ result' = "Opened"
           /\ UNCHANGED <<next, target, prep, seen, wrote, handle, events>>
  <2>1. step' \in Steps /\ waiting' \in BOOLEAN
    BY <1>3, Zenon DEF Steps
  <2>2. Shape'
    BY <1>1, <1>3, <2>1 DEF Shape
  <2>3. Control'
    BY <1>1, <1>3 DEF Control, Confirmed, Opens, Rewriting, Prepared
  <2>4. Identity' /\ Recovery'
    BY <1>1, <1>3 DEF Identity, Recovery, Safe, Clean
  <2> QED BY <2>2, <2>3, <2>4
<1> QED BY <1>2, <1>3, Zenon DEF Select, Goto

-----------------------------------------------------------------------------
(* The invariant and its consequences *)

LEMMA NextIInv == IInv /\ [Next]_vars => IInv'
<1> SUFFICES ASSUME IInv, [Next]_vars PROVE IInv'
  OBVIOUS
<1>1. CASE Call \/ CloseSession
  BY <1>1, CallSteps
<1>2. CASE Host
  BY <1>2, UsbOpenStep, OpenFailSteps, SendStep, SendFailsStep, ReceiveStep, ReceiveNothingStep,
     WarmResetStep, ClosePreparedStep, SelectStep DEF Host
<1>3. CASE Adapter
  BY <1>3, RestartSteps, AnswerSteps, ReenumerateStep DEF Adapter
<1>4. CASE UNCHANGED vars
  <2> USE <1>4 DEF vars, host, device, IInv
  <2>1. Shape'
    BY SMTT(30) DEF Shape
  <2>2. Control' /\ Identity'
    BY SMTT(30) DEF Control, Identity
  <2>3. Recovery'
    BY DEF Recovery, Safe, Clean
  <2> QED BY <2>1, <2>2, <2>3
<1> QED BY <1>1, <1>2, <1>3, <1>4 DEF Next

LEMMA Invariance == Spec => []IInv
  BY InitIInv, NextIInv, PTL DEF Spec

\* A session opened for an explicit address runs on an adapter that has it, for
\* as long as its handle lives.
THEOREM OpenedIdentity == Spec => []OpenedHasIdentity
<1>1. IInv => OpenedHasIdentity
  BY SMTT(30) DEF IInv, Shape, Control, Identity, OpenedHasIdentity, Prepared
<1> QED BY <1>1, Invariance, PTL

\* The recovery error is returned by no call that wrote nothing, and by every
\* call that wrote and did not establish what came of it.
THEOREM RecoveryIsExact == Spec => []RecoveryBoundary
<1>1. IInv => RecoveryBoundary
  <2> SUFFICES ASSUME IInv PROVE RecoveryBoundary
    OBVIOUS
  <2>1. wrote /\ result \notin {"none", "RecoveryRequired"} => prep = "Rewritten"
    BY DEF IInv, Control, Prepared
  <2> QED BY <2>1 DEF IInv, Control, Recovery, Safe, RecoveryBoundary
<1> QED BY <1>1, Invariance, PTL

\* open never claims the interface while it holds it, and no error keeps it.
THEOREM HandlesAreReleased == Spec => []HandleReleased
<1>1. IInv => HandleReleased
  BY DEF IInv, Control, HandleReleased
<1> QED BY <1>1, Invariance, PTL

=============================================================================
