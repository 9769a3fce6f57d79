------------------------------ MODULE UsbReader ------------------------------
(***************************************************************************)
(* The packet reader of usb.rs: the worker thread that PacketReader::spawn  *)
(* starts, UsbTransport::poll_packet, which it calls in a loop, and the     *)
(* session's thread, which receives from the channel between them, sleeps   *)
(* until the ActivityNotifier calls it, and closes the reader.              *)
(*                                                                         *)
(* A packet is a sequence of bytes of which the first Header carry its      *)
(* length; USB transfers cut the byte stream of an endpoint anywhere.       *)
(***************************************************************************)
EXTENDS Integers, Sequences, FiniteSets

CONSTANTS Sizes,       \* packet lengths the device uses
          MaxSize,     \* MAX_HCI_PACKET_SIZE: longer ones are refused
          MaxPackets   \* bound: packets the device sends on one endpoint

ASSUME SizeAssumption == Sizes \subseteq Nat \ {0, 1} /\ MaxSize \in Nat
ASSUME BoundAssumption == MaxPackets \in Nat

VARIABLES
    sent,           \* device: packets sent so far, per endpoint
    wire,           \* device: bytes waiting to be read, per endpoint
    next_endpoint,  \* TRUE after the event endpoint was read
    bytes,          \* event_bytes and acl_bytes
    pending,        \* packets framed and not yet returned by poll_packet
    worker,         \* where the worker thread is
    held,           \* the packet the worker is about to send, or <<>>
    channel,        \* the mpsc channel to the session
    activity,       \* the notifier was called since the session last looked
    shutdown,
    app,            \* what the session's thread does
    received        \* what recv_timeout has returned so far

vars == <<sent, wire, next_endpoint, bytes, pending, worker, held, channel, activity,
          shutdown, app, received>>

Endpoints == {"event", "acl"}
Header == 2

\* A length counts the header too.
Octets == [from : Endpoints, packet : Nat, index : Nat, size : {n \in Nat : n >= Header}]

\* The bytes of packet n on endpoint e, all of which remember its length.
Bytes(e, n, size) == [i \in 1..size |-> [from |-> e, packet |-> n, index |-> i, size |-> size]]

\* ReaderEvent; a packet is known by any of its bytes.
Packet(b) == [type |-> "Packet", from |-> b.from, packet |-> b.packet]
Failed == [type |-> "Failed"]
Ended == [type |-> "Ended"]

-----------------------------------------------------------------------------
(* UsbTransport *)

\* frame_packets: whole packets leave the buffer in order, a partial one stays;
\* a length that is too large loses the packets framed by the same call.
frame_packets[b \in Seq(Octets)] ==
    IF Len(b) < Header
    THEN [ok |-> TRUE, packets |-> <<>>, rest |-> b]
    ELSE LET length == b[Header].size IN
         IF length > MaxSize
         THEN [ok |-> FALSE, packets |-> <<>>, rest |-> <<>>]
         ELSE IF Len(b) < length
              THEN [ok |-> TRUE, packets |-> <<>>, rest |-> b]
              ELSE LET more == frame_packets[SubSeq(b, length + 1, Len(b))]
                   IN  [more EXCEPT !.packets = IF more.ok THEN <<Packet(b[1])>> \o @ ELSE @]

BugDropsPartial(b) == [frame_packets[b] EXCEPT !.rest = <<>>]

Frames(b) == frame_packets[b]

BugNeverCancelled == FALSE

\* The flag that close raises, as the worker sees it.
Cancelled == shutdown

BugSameEndpoint == FALSE

\* The endpoint poll_packet reads next: the one it did not read last.
Alternate == ~next_endpoint

Reading == IF next_endpoint THEN "event" ELSE "acl"

\* The top of the worker's loop and of poll_packet: stop on shutdown, return a
\* packet that is pending, or turn to the other endpoint.
Check ==
    /\ worker = "loop"
    /\ \/ /\ Cancelled
          /\ worker' = "end"
          /\ UNCHANGED <<next_endpoint, pending, held>>
       \/ /\ ~Cancelled /\ pending # <<>>
          /\ held' = <<Head(pending)>> /\ pending' = Tail(pending)
          /\ worker' = "send"
          /\ UNCHANGED next_endpoint
       \/ /\ ~Cancelled /\ pending = <<>>
          /\ next_endpoint' = Alternate
          /\ worker' = "read"
          /\ UNCHANGED <<pending, held>>
    /\ UNCHANGED <<sent, wire, bytes, channel, activity, shutdown, app, received>>

\* The transfer returns bytes that the device has ready; they are framed.
ReadBytes ==
    /\ worker = "read"
    /\ \E n \in 1..Len(wire[Reading]) :
        LET frames == Frames(bytes[Reading] \o SubSeq(wire[Reading], 1, n))
        IN  /\ wire' = [wire EXCEPT ![Reading] = SubSeq(@, n + 1, Len(@))]
            /\ bytes' = [bytes EXCEPT ![Reading] = frames.rest]
            /\ \/ /\ ~frames.ok
                  /\ worker' = "fail"
                  /\ UNCHANGED <<held, pending>>
               \/ /\ frames.ok /\ frames.packets = <<>>
                  /\ worker' = "loop"
                  /\ UNCHANGED <<held, pending>>
               \/ /\ frames.ok /\ frames.packets # <<>>
                  /\ held' = <<Head(frames.packets)>> /\ pending' = Tail(frames.packets)
                  /\ worker' = "send"
    /\ UNCHANGED <<sent, next_endpoint, channel, activity, shutdown, app, received>>

\* READ_TIMEOUT expires on an endpoint that has nothing.
ReadTimeout ==
    /\ worker = "read" /\ wire[Reading] = <<>>
    /\ worker' = "loop"
    /\ UNCHANGED <<sent, wire, next_endpoint, bytes, pending, held, channel, activity,
                   shutdown, app, received>>

\* The transfer fails: the device is gone or stalls.
ReadError ==
    /\ worker = "read"
    /\ worker' = "fail"
    /\ UNCHANGED <<sent, wire, next_endpoint, bytes, pending, held, channel, activity,
                   shutdown, app, received>>

-----------------------------------------------------------------------------
(* The worker thread: every send is followed by a notification *)

Send(from, events, to) ==
    /\ worker = from
    /\ channel' = channel \o events
    /\ worker' = to
    /\ UNCHANGED <<sent, wire, next_endpoint, bytes, pending, activity, shutdown, app, received>>

BugSendSilently == Send("send", held, "loop") /\ held' = <<>>
SendPacket == Send("send", held, "notify") /\ held' = <<>>

BugFailedGoesOn == Send("fail", <<Failed>>, "notify") /\ UNCHANGED held
BugFailedVanishes == Send("fail", <<>>, "done") /\ UNCHANGED held
SendFailed == Send("fail", <<Failed>>, "notify_failed") /\ UNCHANGED held

SendEnded == Send("end", <<Ended>>, "notify_ended") /\ UNCHANGED held

After == [notify |-> "loop", notify_failed |-> "end", notify_ended |-> "done"]

Notify ==
    /\ worker \in DOMAIN After
    /\ activity' = TRUE
    /\ worker' = After[worker]
    /\ UNCHANGED <<sent, wire, next_endpoint, bytes, pending, held, channel, shutdown, app,
                   received>>

-----------------------------------------------------------------------------
(* The session's thread, and the device *)

\* The application sleeps until it is notified, then polls.
Wake ==
    /\ app = "idle" /\ activity
    /\ activity' = FALSE /\ app' = "polling"
    /\ UNCHANGED <<sent, wire, next_endpoint, bytes, pending, worker, held, channel,
                   shutdown, received>>

\* recv_timeout inside poll: packets until there is none; Failed and Ended are
\* SourceTerminated, after which the session receives no more.
Recv ==
    /\ app = "polling"
    /\ IF channel = <<>>
       THEN app' = "idle" /\ UNCHANGED <<channel, received>>
       ELSE /\ received' = Append(received, Head(channel))
            /\ channel' = Tail(channel)
            /\ app' = IF Head(channel).type = "Packet" THEN "polling" ELSE "terminated"
    /\ UNCHANGED <<sent, wire, next_endpoint, bytes, pending, worker, held, activity, shutdown>>

\* PacketReader::close: raise the flag, then join the worker.
Close ==
    /\ app \in {"idle", "terminated"}
    /\ shutdown' = TRUE /\ app' = "joining"
    /\ UNCHANGED <<sent, wire, next_endpoint, bytes, pending, worker, held, channel,
                   activity, received>>

Joined ==
    /\ app = "joining" /\ worker = "done"
    /\ app' = "closed"
    /\ UNCHANGED <<sent, wire, next_endpoint, bytes, pending, worker, held, channel,
                   activity, shutdown, received>>

DeviceSends ==
    \E e \in Endpoints, size \in Sizes :
        /\ sent[e] < MaxPackets
        /\ sent' = [sent EXCEPT ![e] = @ + 1]
        /\ wire' = [wire EXCEPT ![e] = @ \o Bytes(e, sent'[e], size)]
        /\ UNCHANGED <<next_endpoint, bytes, pending, worker, held, channel, activity,
                       shutdown, app, received>>

-----------------------------------------------------------------------------

Init ==
    /\ sent = [e \in Endpoints |-> 0] /\ wire = [e \in Endpoints |-> <<>>]
    /\ next_endpoint = FALSE /\ bytes = [e \in Endpoints |-> <<>>]
    /\ pending = <<>> /\ worker = "loop" /\ held = <<>> /\ channel = <<>>
    /\ activity = FALSE /\ shutdown = FALSE /\ app = "idle" /\ received = <<>>

Worker == Check \/ ReadBytes \/ ReadTimeout \/ ReadError \/ SendPacket \/ SendFailed
             \/ SendEnded \/ Notify

Next == Worker \/ Wake \/ Recv \/ Close \/ Joined \/ DeviceSends

\* The threads run, every transfer returns (READ_TIMEOUT) and a notified
\* application polls.
Fairness == WF_vars(Worker) /\ WF_vars(Wake) /\ WF_vars(Recv) /\ WF_vars(Joined)

Spec == Init /\ [][Next]_vars /\ Fairness

-----------------------------------------------------------------------------
(* Properties *)

\* Every packet that was framed, and what else the session is told, oldest first.
Framed == received \o channel \o held \o pending

Places(q, e) == {i \in 1..Len(q) : q[i].type = "Packet" /\ q[i].from = e}

\* q has the first n packets of endpoint e, each of them once and in order.
HasFirst(q, e, n) ==
    /\ {q[i].packet : i \in Places(q, e)} = 1..n
    /\ \A i, j \in Places(q, e) : i < j => q[i].packet < q[j].packet

Stopped == worker \in {"fail", "notify_failed", "end", "notify_ended", "done"}

\* However the transfers cut an endpoint's bytes, its packets are delivered
\* whole, in order and without loss, and the reader resumes where it stopped:
\* what is framed, buffered and still on the wire is what the device sent.
StreamIntact ==
    \A e \in Endpoints : \E n \in 0..sent[e] :
        /\ HasFirst(Framed, e, n)
        /\ LET rest == bytes[e] \o wire[e] IN
           ~Stopped => IF rest = <<>>
                       THEN n = sent[e]
                       ELSE rest[1].packet = n + 1 /\ rest[1].index = 1

\* The channel ends with Ended and nothing follows it; Failed comes only just
\* before it. So the session learns of a failure before it sees the end.
EndIsLast ==
    LET log == received \o channel IN
    \A i \in 1..Len(log) :
        /\ log[i].type = "Ended" => i = Len(log) /\ worker \in {"notify_ended", "done"}
        /\ log[i].type = "Failed" => i >= Len(log) - 1 /\ Stopped

\* No lost wake-up: an application that sleeps until it is notified never
\* sleeps over something in the channel, except until the notification that
\* follows the send.
NoLostWakeup ==
    app = "idle" /\ channel # <<>> => activity \/ worker \in DOMAIN After

\* close returns: the worker notices the flag whatever the device does.
CloseReturns == shutdown ~> app = "closed"

\* Neither endpoint starves the other: what the device has ready is read,
\* unless the reader stops.
EndpointsServed ==
    \A e \in Endpoints : wire[e] # <<>> ~> (wire[e] = <<>> \/ Stopped)

\* The application learns that the reader stopped, unless it is closing it.
EndReported ==
    Stopped ~> app \in {"terminated", "joining", "closed"}

=============================================================================
