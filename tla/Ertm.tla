-------------------------------- MODULE Ertm --------------------------------
(***************************************************************************)
(* Two ErtmEngines of l2cap/ertm.rs joined by links that keep the order of  *)
(* frames but may lose them. Each method of the engine is an operator from  *)
(* an engine to the engine it leaves; the frames a method pushes onto       *)
(* outbound are read by the other side from there.                          *)
(*                                                                         *)
(* Neither engine ever sends SelectiveReject, a poll or a final bit, so     *)
(* those branches of receive_frame are not reached here. A deadline is      *)
(* armed exactly while tx_window holds frames, and may expire at any time.  *)
(***************************************************************************)
EXTENDS Integers, Sequences

CONSTANTS Modulus,      \* ERTM_SEQUENCE_MODULUS
          Window,       \* tx_window_size
          Limits,       \* max_retransmissions of the channel; 0 is unlimited
          Script,       \* bound: the SDUs each side sends, as their numbers of frames
          MaxFaults     \* bound: losses, early timeouts and busy periods

ASSUME WindowAssumption == Modulus \in Nat /\ Window \in 1..(Modulus - 1)
ASSUME LimitAssumption == Limits \subseteq Nat
ASSUME BoundAssumption == MaxFaults \in Nat

VARIABLES engine,  \* the two engines
          sent,    \* the SDUs given to send_sdu, per side
          limit,   \* max_retransmissions
          losses,  \* frames lost so far
          detours  \* early timeouts and busy periods so far

vars == <<engine, sent, limit, losses, detours>>

Sides == {"a", "b"}
Other(e) == IF e = "a" THEN "b" ELSE "a"

\* send_sdu makes at least one frame of an SDU, even of an empty one.
ASSUME ScriptAssumption == Script \in [Sides -> Seq(Nat \ {0})]

\* An SDU is its number and the number of frames it takes.
Sdus == UNION {{[number |-> i, of |-> Script[e][i]] : i \in 1..Len(Script[e])} : e \in Sides}
Segment(sdu, i) == [sdu |-> sdu, index |-> i]
Segments(sdu) == [i \in 1..sdu.of |-> Segment(sdu, i)]

New == [pending |-> <<>>, tx_window |-> <<>>, outbound |-> <<>>, received |-> <<>>,
        next_tx_seq |-> 0, last_acked_tx_seq |-> 0,
        expected_tx_seq |-> 0, last_acked_rx_seq |-> 0,
        remote_busy |-> FALSE, local_busy |-> FALSE, input_sdu |-> <<>>, error |-> "none"]

sequence_add(seq, n) == (seq + n) % Modulus

BugDistance(from, to) == IF to >= from THEN to - from ELSE from - to
sequence_distance(from, to) == (to + Modulus - from) % Modulus

MinOf(m, n) == IF m <= n THEN m ELSE n
Supervisory(type, req) == [type |-> type, req_seq |-> req]
Information(frame, req) ==
    [type |-> "I", req_seq |-> req, tx_seq |-> frame.tx_seq, segment |-> frame.segment]

Invalid(s) == [s EXCEPT !.error = "InvalidPacket"]

-----------------------------------------------------------------------------
(* Methods of the engine *)

send_supervisory(s, type) ==
    [s EXCEPT !.outbound = Append(@, Supervisory(type, s.expected_tx_seq)),
              !.last_acked_rx_seq = s.expected_tx_seq]

\* Frames put on the link acknowledge what has been received.
Transmit(s, frames) ==
    [s EXCEPT !.outbound = @ \o [i \in 1..Len(frames) |->
                                    Information(frames[i], s.expected_tx_seq)],
              !.last_acked_rx_seq = IF frames = <<>> THEN @ ELSE s.expected_tx_seq]

\* process_output: pending frames fill the window, unless the peer is busy.
process_output(s) ==
    LET n == MinOf(Len(s.pending), Window - Len(s.tx_window))
        frames == SubSeq(s.pending, 1, n)
    IN  IF s.remote_busy
        THEN s
        ELSE [Transmit(s, frames) EXCEPT
                !.pending = SubSeq(@, n + 1, Len(@)),
                !.tx_window = @ \o [i \in 1..n |-> [frames[i] EXCEPT !.transmissions = 1]]]

limit_reached(frame) == limit # 0 /\ frame.transmissions - 1 >= limit

\* Transmissions are counted only where there is a limit to reach.
Again(frame) == [frame EXCEPT !.transmissions = IF limit = 0 THEN @ ELSE @ + 1]

BugRetransmitsLast(s) ==
    IF s.remote_busy \/ s.tx_window = <<>>
    THEN s
    ELSE Transmit(s, <<s.tx_window[Len(s.tx_window)]>>)

\* retransmit_all: the whole window again, or failure at the limit.
retransmit_all(s) ==
    IF s.remote_busy
    THEN s
    ELSE IF \E i \in 1..Len(s.tx_window) : limit_reached(s.tx_window[i])
         THEN [s EXCEPT !.error = "failed"]
         ELSE [Transmit(s, s.tx_window) EXCEPT
                 !.tx_window = [i \in 1..Len(@) |-> Again(@[i])]]

\* send_sdu: segments take their sequence numbers when they are queued.
send_sdu(s, sdu) ==
    process_output(
        [s EXCEPT
           !.pending = @ \o [i \in 1..sdu.of |->
                               [tx_seq |-> sequence_add(s.next_tx_seq, i - 1),
                                segment |-> Segment(sdu, i), transmissions |-> 0]],
           !.next_tx_seq = sequence_add(@, sdu.of)])

\* accept_information: reassembly by the position of the segment in its SDU.
accept_information(s, segment) ==
    LET first == segment.index = 1
        last == segment.index = segment.sdu.of
        input == Append(s.input_sdu, segment)
    IN  IF first # (s.input_sdu = <<>>)
        THEN Invalid(s)
        ELSE IF ~last
             THEN [s EXCEPT !.input_sdu = input]
             ELSE IF Len(input) # input[1].sdu.of
                  THEN Invalid(s)
                  ELSE [s EXCEPT !.received = Append(@, input), !.input_sdu = <<>>]

\* acknowledge: req_seq drops frames from the front of the window.
acknowledge(s, req) ==
    LET count == sequence_distance(s.last_acked_tx_seq, req)
    IN  IF count > Len(s.tx_window)
        THEN Invalid(s)
        ELSE [s EXCEPT !.tx_window = SubSeq(@, count + 1, Len(@)), !.last_acked_tx_seq = req]

BugAnySequence(s, frame) == TRUE
InSequence(s, frame) == frame.tx_seq = s.expected_tx_seq

\* An information frame: refused while busy, rejected out of sequence, else
\* accepted and acknowledged, by data if there is any to send.
receive_information(s, frame) ==
    IF s.local_busy
    THEN send_supervisory(s, "RNR")
    ELSE IF ~InSequence(s, frame)
         THEN send_supervisory(s, "REJ")
         ELSE LET accepted == accept_information(
                                 [s EXCEPT !.expected_tx_seq = sequence_add(@, 1)], frame.segment)
                  answered == process_output(accepted)
              IN  IF accepted.error # "none"
                  THEN accepted
                  ELSE IF answered.last_acked_rx_seq # answered.expected_tx_seq
                       THEN send_supervisory(answered, "RR")
                       ELSE answered

receive_supervisory(s, type) ==
    LET told == [s EXCEPT !.remote_busy = (type = "RNR")]
        repeated == IF type = "REJ" THEN retransmit_all(told) ELSE told
    IN  IF repeated.error # "none" THEN repeated ELSE process_output(repeated)

receive_frame(s, frame) ==
    LET acked == acknowledge(s, frame.req_seq)
    IN  IF acked.error # "none"
        THEN acked
        ELSE IF frame.type = "I"
             THEN receive_information(acked, frame)
             ELSE receive_supervisory(acked, frame.type)

-----------------------------------------------------------------------------
(* Steps of the two sides and of the links *)

Init ==
    /\ engine = [e \in Sides |-> New] /\ sent = [e \in Sides |-> <<>>]
    /\ limit \in Limits
    /\ losses = 0 /\ detours = 0

FaultsLeft == losses + detours < MaxFaults

Ready(e) == engine[e].error = "none"

Send(e) ==
    LET i == Len(sent[e]) + 1
        sdu == [number |-> i, of |-> Script[e][i]]
    IN  /\ Ready(e) /\ i <= Len(Script[e])
        /\ sent' = [sent EXCEPT ![e] = Append(@, sdu)]
        /\ engine' = [engine EXCEPT ![e] = send_sdu(@, sdu)]
        /\ UNCHANGED <<limit, losses, detours>>

\* The next frame of the other side arrives at e.
Receive(e) ==
    LET from == engine[Other(e)].outbound IN
    /\ Ready(e) /\ from # <<>>
    /\ engine' = [engine EXCEPT ![e] = receive_frame(@, Head(from)),
                                ![Other(e)].outbound = Tail(@)]
    /\ UNCHANGED <<sent, limit, losses, detours>>

Lose(e) ==
    /\ engine[e].outbound # <<>> /\ FaultsLeft
    /\ engine' = [engine EXCEPT ![e].outbound = Tail(@)]
    /\ losses' = losses + 1
    /\ UNCHANGED <<sent, limit, detours>>

\* tick: the deadline of an unacknowledged frame passes, perhaps too early.
InFlight == \E e \in Sides : engine[e].outbound # <<>>

Tick(e) ==
    /\ Ready(e) /\ engine[e].tx_window # <<>>
    /\ InFlight => FaultsLeft
    /\ engine' = [engine EXCEPT ![e] = retransmit_all(@)]
    /\ detours' = IF InFlight THEN detours + 1 ELSE detours
    /\ UNCHANGED <<sent, limit, losses>>

SetReceiverBusy(e) ==
    LET now == ~engine[e].local_busy IN
    /\ Ready(e) /\ (now => FaultsLeft)
    /\ engine' = [engine EXCEPT ![e] =
                    send_supervisory([@ EXCEPT !.local_busy = now], IF now THEN "RNR" ELSE "RR")]
    /\ detours' = IF now THEN detours + 1 ELSE detours
    /\ UNCHANGED <<sent, limit, losses>>

Next == \E e \in Sides : Send(e) \/ Receive(e) \/ Lose(e) \/ Tick(e) \/ SetReceiverBusy(e)

\* Frames that are not lost arrive, the clock ticks, and a busy receiver gets
\* ready again.
\* Weak fairness, with the enabling conditions written out.
CanReceive(e) == Ready(e) /\ engine[Other(e)].outbound # <<>>
CanTick(e) ==
    /\ Ready(e) /\ engine[e].tx_window # <<>> /\ ~engine[e].remote_busy
    /\ InFlight => FaultsLeft
CanUnbusy(e) == Ready(e) /\ engine[e].local_busy

Fairness ==
    \A e \in Sides :
        /\ []<>(~CanReceive(e)) \/ []<><<Receive(e)>>_vars
        /\ []<>(~CanTick(e)) \/ []<><<Tick(e)>>_vars
        /\ []<>(~CanUnbusy(e)) \/ []<><<SetReceiverBusy(e)>>_vars

Spec == Init /\ [][Next]_vars /\ Fairness

-----------------------------------------------------------------------------
(* Properties *)

\* Between two engines no frame is ever found invalid, whatever is lost or
\* repeated: an acknowledgement never exceeds the window, and no SDU is
\* interrupted by another or ends at the wrong length.
NoInvalidPacket == \A e \in Sides : engine[e].error # "InvalidPacket"

\* The SDUs that came from side e, each one made of exactly its own segments.
Sdu(segments) ==
    IF segments = Segments(segments[1].sdu) THEN segments[1].sdu ELSE [number |-> 0, of |-> 0]
Delivered ==
    [e \in Sides |-> LET r == engine[Other(e)].received IN [i \in 1..Len(r) |-> Sdu(r[i])]]

Stream == INSTANCE SduStream WITH delivered <- Delivered

\* The two engines implement a reliable stream of SDUs in each direction: over
\* lossy links every SDU is delivered whole, in order and at most once.
ImplementsStream == Stream!Spec

\* Every SDU arrives, unless an engine gave up at its limit or is stuck
\* believing that its peer is busy (the ReceiverReady that would tell it
\* otherwise was lost, and it never polls).
Progress ==
    \A e \in Sides :
        (Len(Delivered[e]) < Len(sent[e]))
            ~> \/ Len(Delivered[e]) = Len(sent[e])
               \/ \E f \in Sides : engine[f].error = "failed"
               \/ engine[e].remote_busy /\ losses > 0

=============================================================================
