------------------------------- MODULE AclFlow -------------------------------
(***************************************************************************)
(* Host-side ACL flow control: struct AclFlow of classic_host.rs, the       *)
(* ClassicHost operations that feed it (flush_channels), return credit to   *)
(* it (NumberOfCompletedPackets) and clear it (DisconnectionComplete), and, *)
(* as an external component, the controller's shared ACL buffers.           *)
(*                                                                         *)
(* The code counts the packets in flight per handle; the model keeps the    *)
(* set of packets behind each count, so that a count is the cardinality of  *)
(* a set and every packet can be traced to the link it was meant for.       *)
(***************************************************************************)
EXTENDS Integers, Sequences, FiniteSets

CONSTANTS Handles,       \* connection handles the controller hands out
          TotalPackets,  \* total_packets: ACL buffers of the controller
          MaxFragments,  \* bound: ACL packets one L2CAP PDU is fragmented into
          MaxPackets,    \* bound: packets queued over a behaviour
          MaxLinks       \* bound: ACL links set up over a behaviour

ASSUME BufferAssumption == TotalPackets \in Nat \ {0}
ASSUME BoundAssumption ==
    MaxFragments \in Nat \ {0} /\ MaxPackets \in Nat /\ MaxLinks \in Nat

VARIABLES connection,  \* ClassicHost.connection: {} or {the current link}
          released,    \* disconnect() took the session's side of the connection
          queued,      \* AclFlow.queued
          in_flight,   \* AclFlow.in_flight: the packets it counts
          failed,      \* the HostError returned, which ends the session
          up,          \* controller: the links that are up
          buffered,    \* controller: packets held in its ACL buffers
          pipe,        \* controller: events on their way to the host
          next_seq,    \* number of packets queued so far
          next_link    \* number of links set up so far

vars == <<connection, released, queued, in_flight, failed,
          up, buffered, pipe, next_seq, next_link>>

\* A link is one life of a handle: handles are reused, link numbers are not.
Links == [handle : Handles, number : Nat]
Packets == [link : Links, seq : Nat]

NoError == "none"
Errors == {NoError, "AclCreditUnderflow", "ConnectionHandleMismatch"}

Connected(l) == [type |-> "Connected", link |-> l, packets |-> {}]
Completed(l, ps) == [type |-> "Completed", link |-> l, packets |-> ps]
Disconnected(l) == [type |-> "Disconnected", link |-> l, packets |-> {}]
EventTypes == {"Connected", "Completed", "Disconnected"}
Events == [type : EventTypes, link : Links, packets : SUBSET Packets]

\* Packets and links are matched by handle, which is all HCI carries.
On(ps, h) == {p \in ps : p.link.handle = h}

\* The packets of ps that have fewer than n older ones in ps.
Oldest(ps, n) == {p \in ps : Cardinality({q \in ps : q.seq < p.seq}) < n}

MinOf(a, b) == IF a <= b THEN a ELSE b

\* The packets of the L2CAP PDU whose first ACL packet has number s.
Fragments(l, s, n) == [i \in 1..n |-> [link |-> l, seq |-> s + i - 1]]

-----------------------------------------------------------------------------
(* AclFlow *)

in_flight_total(f) == Cardinality(f)

BugWindowIgnoresFlight(q, f) == MinOf(Len(q), TotalPackets)
BugWindowTooSmall(q, f) == MinOf(Len(q), (TotalPackets - 1) - in_flight_total(f))

\* How many packets of q AclFlow::flush hands out while f is in flight.
Window(q, f) == MinOf(Len(q), TotalPackets - in_flight_total(f))

\* AclFlow::flush, and the drain of its output: the controller buffers the
\* packets whose handle is up and discards the others.
flush(q, f) ==
    LET n == Window(q, f)
        sent == {q[i] : i \in 1..n}
    IN  /\ queued' = SubSeq(q, n + 1, Len(q))
        /\ in_flight' = f \cup sent
        /\ buffered' = buffered \cup {p \in sent : \E l \in up : l.handle = p.link.handle}

BugCompleteForgetsCount(h, n) == in_flight \ On(in_flight, h)
BugCompleteReturnsNothing(h, n) == in_flight

\* AclFlow::complete leaves this in flight when n packets on h are completed.
complete(h, n) == in_flight \ Oldest(On(in_flight, h), n)

\* AclFlow::clear_handle: what stays in flight.
cleared_in_flight(h) == in_flight \ On(in_flight, h)

BugQueueNotCleared(h) == {queued}

\* The queues that clear_handle may leave: retain keeps the packets of the other
\* handles in their order, which leaves exactly one.
cleared_queues(h) ==
    LET kept == {i \in 1..Len(queued) : queued[i].link.handle # h}
        Order == {o \in [1..Cardinality(kept) -> kept] :
                    \A i, j \in 1..Cardinality(kept) : i < j => o[i] < o[j]}
    IN  {[i \in 1..Cardinality(kept) |-> queued[o[i]]] : o \in Order}

-----------------------------------------------------------------------------
(* The host: calls from the session, and events in the order they arrive *)

Init ==
    /\ connection = {} /\ released = FALSE
    /\ queued = <<>> /\ in_flight = {} /\ failed = NoError
    /\ up = {} /\ buffered = {} /\ pipe = <<>>
    /\ next_seq = 0 /\ next_link = 0

\* flush_channels: one L2CAP PDU is fragmented, enqueued and flushed.
SendPdu ==
    \E l \in connection, n \in 1..MaxFragments :
        /\ failed = NoError
        /\ next_seq + n <= MaxPackets
        /\ flush(queued \o Fragments(l, next_seq, n), in_flight)
        /\ next_seq' = next_seq + n
        /\ UNCHANGED <<connection, released, failed, up, pipe, next_link>>

\* Session::disconnect: the session forgets the link and sends HCI_DISCONNECT;
\* ClassicHost keeps its connection until DisconnectionComplete.
LocalDisconnect ==
    /\ failed = NoError /\ connection # {} /\ ~released
    /\ released' = TRUE
    /\ UNCHANGED <<connection, queued, in_flight, failed, up, buffered, pipe, next_seq, next_link>>

Receive(type) ==
    /\ failed = NoError /\ pipe # <<>> /\ Head(pipe).type = type
    /\ pipe' = Tail(pipe)

\* ConnectionComplete accepted by the session: the new link replaces whatever
\* connection the host still held, and clears nothing of it.
OnConnected ==
    /\ Receive("Connected")
    /\ connection' = {Head(pipe).link}
    /\ released' = FALSE
    /\ UNCHANGED <<queued, in_flight, failed, up, buffered, next_seq, next_link>>

\* NumberOfCompletedPackets: complete, then flush.
OnCompleted ==
    /\ Receive("Completed")
    /\ LET h == Head(pipe).link.handle
           n == Cardinality(Head(pipe).packets)
       IN  IF n > Cardinality(On(in_flight, h))
           THEN failed' = "AclCreditUnderflow" /\ UNCHANGED <<queued, in_flight, buffered>>
           ELSE flush(queued, complete(h, n)) /\ UNCHANGED failed
    /\ UNCHANGED <<connection, released, up, next_seq, next_link>>

\* DisconnectionComplete: a handle other than the current one is an error;
\* otherwise clear_handle and forget the connection. Nothing is flushed here.
OnDisconnected ==
    /\ Receive("Disconnected")
    /\ LET h == Head(pipe).link.handle
       IN  IF \E l \in connection : l.handle = h
           THEN /\ queued' \in cleared_queues(h)
                /\ in_flight' = cleared_in_flight(h)
                /\ connection' = {} /\ released' = FALSE
                /\ UNCHANGED failed
           ELSE /\ failed' = "ConnectionHandleMismatch"
                /\ UNCHANGED <<queued, in_flight, connection, released>>
    /\ UNCHANGED <<up, buffered, next_seq, next_link>>

-----------------------------------------------------------------------------
(* The controller *)

\* A link comes up on a handle that nothing still refers to. A second link is
\* only accepted by the session once it let go of the first one.
LinkUp ==
    \E h \in Handles :
        /\ next_link < MaxLinks
        /\ \A l \in up : l.handle # h
        /\ \A i \in 1..Len(pipe) : pipe[i].link.handle # h /\ pipe[i].type # "Connected"
        /\ \A l \in connection : released /\ l.handle # h
        /\ LET l == [handle |-> h, number |-> next_link + 1]
           IN  up' = up \cup {l} /\ pipe' = Append(pipe, Connected(l))
        /\ next_link' = next_link + 1
        /\ UNCHANGED <<connection, released, queued, in_flight, failed, buffered, next_seq>>

\* The controller transmits the oldest packets of a link and frees their buffers.
Transmit ==
    \E l \in up :
        LET mine == On(buffered, l.handle) IN
        \E n \in 1..Cardinality(mine) :
            /\ pipe' = Append(pipe, Completed(l, Oldest(mine, n)))
            /\ buffered' = buffered \ Oldest(mine, n)
            /\ UNCHANGED <<connection, released, queued, in_flight, failed, up, next_seq, next_link>>

\* The link ends: the controller drops its packets and reports only the end.
LinkDown ==
    \E l \in up :
        /\ up' = up \ {l}
        /\ buffered' = buffered \ On(buffered, l.handle)
        /\ pipe' = Append(pipe, Disconnected(l))
        /\ UNCHANGED <<connection, released, queued, in_flight, failed, next_seq, next_link>>

HostStep == OnConnected \/ OnCompleted \/ OnDisconnected

Next == SendPdu \/ LocalDisconnect \/ HostStep \/ LinkUp \/ Transmit \/ LinkDown

\* The session polls for events, and the controller transmits what it holds on
\* a link that stays up.
Fairness == WF_vars(HostStep) /\ WF_vars(Transmit)

Spec == Init /\ [][Next]_vars /\ Fairness

-----------------------------------------------------------------------------
(* Properties *)

\* Every packet record and event is well formed.
TypeOK ==
    /\ connection \in SUBSET Links /\ released \in BOOLEAN /\ failed \in Errors
    /\ queued \in Seq(Packets) /\ in_flight \in SUBSET Packets
    /\ up \in SUBSET Links /\ buffered \in SUBSET Packets /\ pipe \in Seq(Events)
    /\ next_seq \in Nat /\ next_link \in Nat

\* flush never hands the controller more packets than it has buffers: what the
\* controller holds fits, whatever is still being counted back.
NoBufferOverrun == Cardinality(buffered) <= TotalPackets

\* Packets that completion events on their way to the host carry.
Returning == UNION {pipe[i].packets : i \in 1..Len(pipe)}

\* A link whose end the host has not learnt of yet.
Ending(l) == \E i \in 1..Len(pipe) : pipe[i].type = "Disconnected" /\ pipe[i].link = l

\* AclFlow's count is exact: the packets counted in flight are those the
\* controller holds or has reported back, save on links whose end is on its way.
CreditExact ==
    failed = NoError =>
        /\ buffered \cup Returning \subseteq in_flight
        /\ \A p \in in_flight : p \in buffered \cup Returning \/ Ending(p.link)

\* A completion never exceeds what is counted (no AclCreditUnderflow): the host
\* fails only on the end of a link that a newer connection has replaced.
NoUnderflow == failed # "AclCreditUnderflow"

\* clear_handle keeps the lives of a handle apart: no packet queued for an old
\* link is ever carried by a new link that reuses its handle.
NoCrossLinkData == \A p \in buffered : p.link \in up

\* Back-pressure is work conserving: packets wait in the host queue only while
\* the controller's window is full. OnDisconnected clears credit and flushes
\* nothing, so this rests on the queue being served in order across links.
WorkConserving == queued # <<>> => in_flight_total(in_flight) = TotalPackets

\* drain_interrupt's promise: every packet that waits in the host queue leaves
\* it, towards the controller or because its link ended, unless the host failed.
QueueDrains == queued # <<>> ~> (queued = <<>> \/ failed # NoError)

=============================================================================
