--------------------------- MODULE AclFlowProofs ---------------------------
(***************************************************************************)
(* The inductive invariant of AclFlow, the lemmas its proof rests on, the   *)
(* proof that each step of the host and of the controller preserves it, and *)
(* the theorems, for every number of buffers, handles, links and packets.   *)
(* The invariant has a part that always holds (Bounded) and a part about    *)
(* the order of packets and events that holds until the host fails          *)
(* (Orderly).                                                               *)
(***************************************************************************)
EXTENDS AclFlow, TLAPS, FiniteSetTheorems

Waiting(q) == {q[i] : i \in 1..Len(q)}

\* Links keep their handles to themselves.
OneLinkPerHandle == \A l, m \in up : l.handle = m.handle => l = m

\* The part of the invariant that outlives a failure of the host.
Bounded ==
    /\ TypeOK
    /\ IsFiniteSet(in_flight) /\ Cardinality(in_flight) <= TotalPackets
    /\ buffered \subseteq in_flight
    /\ NoCrossLinkData /\ OneLinkPerHandle /\ WorkConserving /\ NoUnderflow

\* Packets are numbered in the order in which they are queued and handed out.
InOrder(q, f, n) ==
    /\ \A i, j \in 1..Len(q) : i < j => q[i].seq < q[j].seq
    /\ \A p \in f, i \in 1..Len(q) : p.seq < q[i].seq
    /\ \A p \in f \cup Waiting(q) : p.seq < n

\* Every packet the host holds belongs to a link that is up or about to end.
Owned(q, f) == \A p \in f \cup Waiting(q) : p.link \in up \/ Ending(p.link)

\* The packets of the current connection are the youngest.
CurrentIsYoungest(q, f) ==
    \A p, r \in f \cup Waiting(q) :
        p.link \in connection /\ r.link \notin connection => r.seq < p.seq

\* The connection is one link, up or about to end.
OneConnection ==
    /\ \A l, m \in connection : l = m
    /\ \A l \in connection : l \in up \/ Ending(l)

\* A link that ends is the last to use its handle until the host has heard of it.
EndsAreLast ==
    \A i \in 1..Len(pipe) : pipe[i].type = "Disconnected" =>
        /\ \A l \in up : l.handle # pipe[i].link.handle
        /\ \A j \in 1..Len(pipe) : i < j => pipe[j].link.handle # pipe[i].link.handle

\* A link the host has not heard of carries no packet yet, and there is only one.
NewLink(q, f) ==
    \A i \in 1..Len(pipe) : pipe[i].type = "Connected" =>
        /\ pipe[i].link \in up \/ Ending(pipe[i].link)
        /\ pipe[i].link \notin connection
        /\ \A p \in f \cup Waiting(q) : p.link # pipe[i].link
        /\ \A j \in 1..Len(pipe) : pipe[j].type = "Connected" => i = j

\* Completions carry packets in flight on their own link, each packet once,
\* older than whatever is still in flight behind them on that handle.
Completions(f) ==
    \A i \in 1..Len(pipe) :
        /\ pipe[i].type # "Completed" => pipe[i].packets = {}
        /\ pipe[i].packets \subseteq f
        /\ pipe[i].packets \cap buffered = {}
        /\ \A j \in 1..Len(pipe) : i # j => pipe[i].packets \cap pipe[j].packets = {}
        /\ \A p \in pipe[i].packets :
            /\ p.link = pipe[i].link
            /\ \A r \in f :
                /\ r.link.handle = p.link.handle
                /\ \A j \in 1..i : r \notin pipe[j].packets
                => p.seq < r.seq

\* Nothing counted in flight is lost, save on a link that is about to end.
Accounted(f) ==
    \A p \in f : \/ p \in buffered
                 \/ \E i \in 1..Len(pipe) : p \in pipe[i].packets
                 \/ Ending(p.link)

OrderlyWith(q, f, n) ==
    /\ InOrder(q, f, n) /\ Owned(q, f) /\ CurrentIsYoungest(q, f)
    /\ OneConnection /\ EndsAreLast /\ NewLink(q, f) /\ Completions(f) /\ Accounted(f)

Orderly == failed = NoError => OrderlyWith(queued, in_flight, next_seq)

IInv == Bounded /\ Orderly

-----------------------------------------------------------------------------
(* Sequences and counting *)

LEMMA ElementOfSeq ==
   ASSUME NEW S, NEW seq \in Seq(S), NEW n \in 1..Len(seq)
   PROVE  seq[n] \in S
  OBVIOUS

LEMMA EmptySeq ==
   ASSUME NEW S
   PROVE /\ <<>> \in Seq(S)
         /\ Len(<<>>) = 0
         /\ \A seq \in Seq(S) : (seq # <<>>) => (Len(seq) \in Nat \ {0})
  OBVIOUS

LEMMA LenProperties ==
  ASSUME NEW S, NEW seq \in Seq(S)
  PROVE  /\ Len(seq) \in Nat
         /\ seq \in [1..Len(seq) -> S]
         /\ DOMAIN seq = 1..Len(seq)
  OBVIOUS

LEMMA ConcatProperties ==
  ASSUME NEW S, NEW s1 \in Seq(S), NEW s2 \in Seq(S)
  PROVE  /\ s1 \o s2 \in Seq(S)
         /\ Len(s1 \o s2) = Len(s1) + Len(s2)
         /\ \A i \in 1..(Len(s1) + Len(s2)) : (s1 \o s2)[i] =
                     IF i <= Len(s1) THEN s1[i] ELSE s2[i - Len(s1)]
  OBVIOUS

LEMMA HeadTailProperties ==
   ASSUME NEW S,
          NEW seq \in Seq(S), seq # <<>>
   PROVE  /\ Head(seq) \in S
          /\ Tail(seq) \in Seq(S)
          /\ Len(Tail(seq)) = Len(seq) - 1
          /\ \A i \in 1..Len(Tail(seq)) : Tail(seq)[i] = seq[i + 1]
  OBVIOUS

LEMMA AppendProperties ==
  ASSUME NEW S, NEW seq \in Seq(S), NEW elt \in S
  PROVE  /\ Append(seq, elt) \in Seq(S)
         /\ Append(seq, elt) # <<>>
         /\ Len(Append(seq, elt)) = Len(seq) + 1
         /\ \A i \in 1..Len(seq) : Append(seq, elt)[i] = seq[i]
         /\ Append(seq, elt)[Len(seq) + 1] = elt
  OBVIOUS

LEMMA SubSeqProperties ==
  ASSUME NEW S, NEW s, NEW m \in Int, NEW n \in Int,
         \A i \in m..n : s[i] \in S
   PROVE /\ SubSeq(s, m, n) \in Seq(S)
         /\ Len(SubSeq(s, m, n)) = IF m <= n THEN n - m + 1 ELSE 0
         /\ \A i \in 1..(n - m + 1) : SubSeq(s, m, n)[i] = s[m + i - 1]
  OBVIOUS

\* What the host sees after taking the first event: the rest, in the same order.
LEMMA PipeTail ==
    ASSUME TypeOK, pipe # <<>>, pipe' = Tail(pipe)
    PROVE  /\ pipe' \in Seq(Events)
           /\ Len(pipe) \in Nat \ {0} /\ Len(pipe') = Len(pipe) - 1
           /\ Head(pipe) = pipe[1] /\ pipe[1] \in Events
           /\ \A i \in 1..Len(pipe') : i + 1 \in 1..Len(pipe) /\ pipe'[i] = pipe[i + 1]
           /\ \A i \in 1..Len(pipe) : i # 1 => i - 1 \in 1..Len(pipe') /\ pipe'[i - 1] = pipe[i]
  BY HeadTailProperties, EmptySeq, LenProperties DEF TypeOK

\* What the host sees after the controller reported e: the same events, then e.
LEMMA PipeAppend ==
    ASSUME TypeOK, NEW e \in Events, pipe' = Append(pipe, e)
    PROVE  /\ pipe' \in Seq(Events)
           /\ Len(pipe) \in Nat /\ Len(pipe') = Len(pipe) + 1
           /\ \A i \in 1..Len(pipe) : i \in 1..Len(pipe') /\ pipe'[i] = pipe[i]
           /\ pipe'[Len(pipe) + 1] = e /\ Len(pipe) + 1 \in 1..Len(pipe')
           /\ \A i \in 1..Len(pipe') : i = Len(pipe) + 1 \/ i \in 1..Len(pipe)
  BY AppendProperties, LenProperties DEF TypeOK

\* flush hands out no more than there is room for, and all that there is room for.
LEMMA WindowBounds ==
    ASSUME NEW q \in Seq(Packets), NEW f, IsFiniteSet(f), Cardinality(f) <= TotalPackets
    PROVE  /\ Window(q, f) \in Nat /\ Window(q, f) <= Len(q)
           /\ Cardinality(f) + Window(q, f) <= TotalPackets
           /\ Window(q, f) < Len(q) => Cardinality(f) + Window(q, f) = TotalPackets
  BY FS_CardinalityType, LenProperties, BufferAssumption DEF Window, MinOf, in_flight_total

\* The first n packets of an ordered queue are n packets.
LEMMA CountPrefix ==
    ASSUME NEW q \in Seq(Packets), NEW n \in Nat, n <= Len(q),
           \A i, j \in 1..Len(q) : i < j => q[i].seq < q[j].seq
    PROVE  IsFiniteSet({q[i] : i \in 1..n}) /\ Cardinality({q[i] : i \in 1..n}) = n
<1> DEFINE T == {q[i] : i \in 1..n}
           g == [i \in 1..n |-> q[i]]
<1>0. Len(q) \in Nat /\ \A i \in 1..n : i \in 1..Len(q) /\ q[i] \in Packets
  BY LenProperties, ElementOfSeq
<1>1. \A i, j \in 1..n : g[i] = g[j] => i = j
  <2> SUFFICES ASSUME NEW i \in 1..n, NEW j \in 1..n, q[i] = q[j], i # j PROVE FALSE
    OBVIOUS
  <2>1. q[i].seq \in Nat
    BY <1>0, Zenon DEF Packets
  <2>2. q[i].seq < q[j].seq \/ q[j].seq < q[i].seq
    BY <1>0
  <2> QED BY <2>1, <2>2
<1>2. g \in Bijection(1..n, T)
  BY <1>1 DEF Bijection, Injection, Surjection, IsInjective
<1>3. ExistsBijection(1..n, T)
  BY <1>2 DEF ExistsBijection
<1> QED BY <1>3, FS_CountingElements, FS_NatBijection, Zenon

\* AclFlow::flush moves the head of the queue into flight: nothing is lost or
\* reordered, the bound holds, and packets wait only behind a full window.
LEMMA FlushProps ==
    ASSUME NEW q \in Seq(Packets), NEW f \in SUBSET Packets, NEW n \in Nat,
           IsFiniteSet(f), Cardinality(f) <= TotalPackets, InOrder(q, f, n),
           buffered \in SUBSET Packets, flush(q, f)
    PROVE  /\ queued' \in Seq(Packets)
           /\ in_flight' \in SUBSET Packets /\ buffered' \in SUBSET Packets
           /\ IsFiniteSet(in_flight') /\ Cardinality(in_flight') <= TotalPackets
           /\ WorkConserving'
           /\ f \subseteq in_flight' /\ in_flight' \subseteq f \cup Waiting(q)
           /\ in_flight' \cup Waiting(queued') = f \cup Waiting(q)
           /\ InOrder(queued', in_flight', n)
           /\ \A p \in buffered' : \/ p \in buffered
                                   \/ /\ p \in in_flight' /\ p \in Waiting(q)
                                      /\ \E l \in up : l.handle = p.link.handle
           /\ buffered \subseteq buffered'
           /\ \A p \in in_flight' : \/ p \in f \/ p \in buffered'
                                    \/ ~ \E l \in up : l.handle = p.link.handle
           /\ \A p \in f, r \in in_flight' : r \in f \/ p.seq < r.seq
<1> DEFINE k == Window(q, f)
           sent == {q[i] : i \in 1..k}
<1>1. /\ k \in Nat /\ k <= Len(q) /\ Len(q) \in Nat
      /\ Cardinality(f) + k <= TotalPackets
      /\ k < Len(q) => Cardinality(f) + k = TotalPackets
  BY WindowBounds, LenProperties
<1> HIDE DEF k
<1>2. queued' = SubSeq(q, k + 1, Len(q)) /\ in_flight' = f \cup sent
      /\ buffered' = buffered \cup {p \in sent : \E l \in up : l.handle = p.link.handle}
  BY DEF flush, k
<1>3. \A i \in 1..Len(q) : q[i] \in Packets
  BY ElementOfSeq
<1>4. /\ queued' \in Seq(Packets) /\ Len(queued') = Len(q) - k
      /\ \A i \in 1..Len(queued') : k + i \in 1..Len(q) /\ queued'[i] = q[k + i]
  <2>1. \A i \in (k + 1)..Len(q) : q[i] \in Packets
    BY <1>1, <1>3
  <2>2. /\ SubSeq(q, k + 1, Len(q)) \in Seq(Packets)
        /\ Len(SubSeq(q, k + 1, Len(q))) = IF k + 1 <= Len(q) THEN Len(q) - (k + 1) + 1 ELSE 0
        /\ \A i \in 1..(Len(q) - (k + 1) + 1) : SubSeq(q, k + 1, Len(q))[i] = q[k + 1 + i - 1]
    BY <1>1, <2>1, SubSeqProperties
  <2>3. Len(queued') = Len(q) - k
    BY <1>1, <1>2, <2>2
  <2>4. \A i \in 1..(Len(q) - k) : /\ i \in 1..(Len(q) - (k + 1) + 1) /\ k + 1 + i - 1 = k + i
                                  /\ k + i \in 1..Len(q)
    BY <1>1
  <2> QED BY <1>2, <2>2, <2>3, <2>4, Zenon
<1>5. sent \subseteq Waiting(q) /\ sent \subseteq Packets /\ Waiting(q) \subseteq Packets
  BY <1>1, <1>3 DEF Waiting
<1>6. \A p \in f, r \in sent : p.seq < r.seq
  BY <1>1 DEF InOrder
<1>7. IsFiniteSet(sent) /\ Cardinality(sent) = k
  BY <1>1, CountPrefix, Zenon DEF InOrder
<1>8. f \cap sent = {}
  <2> SUFFICES ASSUME NEW p \in f, p \in sent PROVE FALSE
    OBVIOUS
  <2> QED BY <1>6 DEF Packets
<1>9. IsFiniteSet(in_flight') /\ Cardinality(in_flight') = Cardinality(f) + k
  <2> HIDE DEF sent
  <2>1. /\ IsFiniteSet(f \cup sent)
        /\ Cardinality(f \cup sent)
             = Cardinality(f) + Cardinality(sent) - Cardinality(f \cap sent)
    BY <1>7, FS_Union
  <2>2. Cardinality(f \cap sent) = 0 /\ Cardinality(f) \in Nat
    BY <1>8, FS_EmptySet, FS_CardinalityType, Zenon
  <2> QED BY <1>1, <1>2, <1>7, <2>1, <2>2
<1>10. WorkConserving'
  <2> SUFFICES ASSUME queued' # <<>> PROVE Cardinality(in_flight') = TotalPackets
    BY DEF WorkConserving, in_flight_total
  <2>1. Len(queued') # 0
    BY <1>4, EmptySeq
  <2> QED BY <2>1, <1>1, <1>4, <1>9
<1>11. in_flight' \cup Waiting(queued') = f \cup Waiting(q)
  <2>1. Waiting(queued') \subseteq Waiting(q)
    BY <1>4, Zenon DEF Waiting
  <2>2. ASSUME NEW i \in 1..Len(q) PROVE q[i] \in sent \/ q[i] \in Waiting(queued')
    <3>1. CASE i <= k
      BY <3>1, <1>1
    <3>2. CASE i > k
      <4>1. i - k \in 1..Len(queued') /\ k + (i - k) = i
        BY <3>2, <1>1, <1>4
      <4> QED BY <4>1, <1>4 DEF Waiting
    <3> QED BY <3>1, <3>2, <1>1
  <2>3. ASSUME NEW p \in Waiting(q) PROVE p \in sent \/ p \in Waiting(queued')
    <3>1. PICK i \in 1..Len(q) : p = q[i]
      BY DEF Waiting
    <3> QED BY <3>1, <2>2
  <2> HIDE DEF sent
  <2> QED BY <2>1, <2>3, <1>2, <1>5
<1>12. InOrder(queued', in_flight', n)
  <2>1. ASSUME NEW i \in 1..Len(queued'), NEW j \in 1..Len(queued'), i < j
        PROVE  queued'[i].seq < queued'[j].seq
    <3>1. k + i \in 1..Len(q) /\ k + j \in 1..Len(q) /\ k + i < k + j
      BY <2>1, <1>1, <1>4
    <3>2. q[k + i].seq < q[k + j].seq
      BY <3>1 DEF InOrder
    <3> QED BY <3>2, <1>4
  <2>2. \A p \in f, i \in 1..Len(queued') : p.seq < queued'[i].seq
    BY <1>4 DEF InOrder
  <2>3. ASSUME NEW p \in sent, NEW i \in 1..Len(queued') PROVE p.seq < queued'[i].seq
    <3>1. PICK j \in 1..k : p = q[j]
      OBVIOUS
    <3>2. j \in 1..Len(q) /\ j < k + i
      BY <1>1, <1>4
    <3> QED BY <3>1, <3>2, <1>4, Zenon DEF InOrder
  <2> QED BY <2>1, <2>2, <2>3, <1>2, <1>11, Zenon DEF InOrder
<1>13. \A p \in buffered' : \/ p \in buffered
                            \/ /\ p \in in_flight' /\ p \in Waiting(q)
                               /\ \E l \in up : l.handle = p.link.handle
  BY <1>2, <1>5
<1>14. \A p \in in_flight' : \/ p \in f \/ p \in buffered'
                             \/ ~ \E l \in up : l.handle = p.link.handle
  BY <1>2
<1> QED BY <1>1, <1>2, <1>4, <1>5, <1>6, <1>9, <1>10, <1>11, <1>12, <1>13, <1>14, Zenon

\* If the packets of S are older than the rest of X, they are its Oldest ones:
\* counting completions per handle identifies the completed packets.
LEMMA OldestIsPrefix ==
    ASSUME NEW X \in SUBSET Packets, IsFiniteSet(X), NEW S \in SUBSET X,
           \A p \in S, r \in X \ S : p.seq < r.seq
    PROVE  Oldest(X, Cardinality(S)) = S /\ Cardinality(S) <= Cardinality(X)
<1> DEFINE Below(p) == {r \in X : r.seq < p.seq}
<1>1. IsFiniteSet(S) /\ Cardinality(S) \in Nat /\ Cardinality(S) <= Cardinality(X)
  BY FS_Subset, FS_CardinalityType
<1>2. ASSUME NEW p \in S PROVE Cardinality(Below(p)) < Cardinality(S)
  <2>1. Below(p) \subseteq S \ {p}
    BY DEF Packets
  <2>2. IsFiniteSet(S \ {p}) /\ Cardinality(S \ {p}) = Cardinality(S) - 1
    BY <1>1, FS_RemoveElement, Zenon
  <2>3. Cardinality(Below(p)) <= Cardinality(S \ {p}) /\ Cardinality(Below(p)) \in Nat
    BY <2>1, <2>2, FS_Subset, FS_CardinalityType
  <2> QED BY <1>1, <2>2, <2>3
<1>3. ASSUME NEW p \in X \ S PROVE ~(Cardinality(Below(p)) < Cardinality(S))
  <2>1. S \subseteq Below(p)
    OBVIOUS
  <2>2. IsFiniteSet(Below(p)) /\ Cardinality(Below(p)) \in Nat
    BY FS_Subset, FS_CardinalityType
  <2>3. Cardinality(S) <= Cardinality(Below(p))
    BY <2>1, <2>2, FS_Subset
  <2> QED BY <1>1, <2>2, <2>3
<1> QED BY <1>1, <1>2, <1>3 DEF Oldest

\* The packets that are not among the n oldest are younger than those that are.
LEMMA OldestAreOlder ==
    ASSUME NEW X \in SUBSET Packets, IsFiniteSet(X), NEW n \in Nat,
           NEW p \in Oldest(X, n), NEW r \in X \ Oldest(X, n)
    PROVE  p.seq < r.seq
<1> DEFINE Below(x) == {y \in X : y.seq < x.seq}
<1> SUFFICES ASSUME r.seq <= p.seq PROVE FALSE
  BY DEF Oldest, Packets
<1>1. Below(r) \subseteq Below(p)
  BY DEF Oldest, Packets
<1>2. IsFiniteSet(Below(p)) /\ IsFiniteSet(Below(r))
      /\ Cardinality(Below(p)) \in Nat /\ Cardinality(Below(r)) \in Nat
  BY FS_Subset, FS_CardinalityType
<1>3. Cardinality(Below(r)) <= Cardinality(Below(p))
  BY <1>1, <1>2, FS_Subset
<1>4. Cardinality(Below(p)) < n /\ ~(Cardinality(Below(r)) < n)
  BY DEF Oldest
<1> QED BY <1>2, <1>3, <1>4


-----------------------------------------------------------------------------
(* The invariant holds initially and every step preserves it *)

\* A ClassicHost without a connection has nothing queued or in flight.
LEMMA InitIInv == Init => IInv
<1> SUFFICES ASSUME Init PROVE IInv
  OBVIOUS
<1>1. /\ queued = <<>> /\ Len(queued) = 0 /\ queued \in Seq(Packets)
      /\ pipe = <<>> /\ Len(pipe) = 0 /\ pipe \in Seq(Events)
  BY EmptySeq DEF Init
<1>2. Bounded
  <2>1. TypeOK
    BY <1>1, Zenon DEF Init, TypeOK, Errors
  <2>2. IsFiniteSet(in_flight) /\ Cardinality(in_flight) <= TotalPackets
    BY FS_EmptySet, BufferAssumption DEF Init
  <2> QED BY <2>1, <2>2, <1>1, Zenon DEF Init, Bounded, NoCrossLinkData, OneLinkPerHandle,
             WorkConserving, NoUnderflow, NoError
<1>3. OrderlyWith(queued, in_flight, next_seq)
  <2>1. 1..Len(pipe) = {} /\ 1..Len(queued) = {} /\ Waiting(queued) = {}
    BY <1>1 DEF Waiting
  <2>2. in_flight = {} /\ connection = {}
    BY DEF Init
  <2> QED BY <2>1, <2>2 DEF OrderlyWith, InOrder, Owned, CurrentIsYoungest, OneConnection,
     EndsAreLast, NewLink, Completions, Accounted
<1> QED BY <1>2, <1>3 DEF IInv, Orderly

\* The end of a link stays on its way when another event is added or handled.
LEMMA EndingAppend ==
    ASSUME TypeOK, NEW e \in Events, pipe' = Append(pipe, e), NEW l, Ending(l)
    PROVE  Ending(l)'
  BY PipeAppend DEF Ending

\* Handling an event other than the end of l keeps that end on its way.
LEMMA EndingTail ==
    ASSUME TypeOK, pipe # <<>>, pipe' = Tail(pipe), NEW l, Ending(l),
           pipe[1].type # "Disconnected" \/ pipe[1].link # l
    PROVE  Ending(l)'
<1>1. PICK i \in 1..Len(pipe) : pipe[i].type = "Disconnected" /\ pipe[i].link = l
  BY DEF Ending
<1>2. i - 1 \in 1..Len(pipe') /\ pipe'[i - 1] = pipe[i]
  BY <1>1, PipeTail
<1> QED BY <1>1, <1>2 DEF Ending

\* A handle that is up is not the handle of a link about to end.
LEMMA UpIsNotEnding ==
    ASSUME EndsAreLast, NEW l \in up, NEW m, Ending(m)
    PROVE  l.handle # m.handle
  BY Zenon DEF EndsAreLast, Ending

\* Handling an event without packets shifts the completions behind it.
LEMMA CompletionsTail ==
    ASSUME TypeOK, pipe # <<>>, pipe' = Tail(pipe), Completions(in_flight),
           pipe[1].packets = {}, buffered' = buffered, in_flight' \subseteq in_flight,
           \A i \in 1..Len(pipe) : pipe[i].packets \subseteq in_flight'
    PROVE  Completions(in_flight)'
<1>1. /\ Len(pipe) \in Nat /\ Len(pipe') = Len(pipe) - 1
      /\ \A i \in 1..Len(pipe') : i + 1 \in 1..Len(pipe) /\ pipe'[i] = pipe[i + 1]
      /\ \A i \in 1..Len(pipe) : i # 1 => i - 1 \in 1..Len(pipe') /\ pipe'[i - 1] = pipe[i]
  BY PipeTail, Zenon
<1> SUFFICES ASSUME NEW i \in 1..Len(pipe')
             PROVE  /\ pipe'[i].type # "Completed" => pipe'[i].packets = {}
                    /\ pipe'[i].packets \subseteq in_flight'
                    /\ pipe'[i].packets \cap buffered' = {}
                    /\ \A j \in 1..Len(pipe') : i # j =>
                          pipe'[i].packets \cap pipe'[j].packets = {}
                    /\ \A p \in pipe'[i].packets :
                        /\ p.link = pipe'[i].link
                        /\ \A r \in in_flight' :
                            /\ r.link.handle = p.link.handle
                            /\ \A j \in 1..i : r \notin pipe'[j].packets
                            => p.seq < r.seq
  BY Zenon DEF Completions
<1>2. i + 1 \in 1..Len(pipe) /\ pipe'[i] = pipe[i + 1]
  BY <1>1
<1>3. \A j \in 1..Len(pipe') : i # j => i + 1 # j + 1
  BY <1>1
<1>4. ASSUME NEW r, \A j \in 1..i : r \notin pipe'[j].packets, NEW j \in 1..(i + 1)
      PROVE  r \notin pipe[j].packets
  <2>1. CASE j = 1
    BY <2>1
  <2>2. CASE j # 1
    <3>1. j - 1 \in 1..i /\ pipe'[j - 1] = pipe[j]
      BY <2>2, <1>1, <1>2
    <3> QED BY <3>1, <1>4, Zenon
  <2> QED BY <2>1, <2>2
<1>5. /\ pipe[i + 1].type # "Completed" => pipe[i + 1].packets = {}
      /\ pipe[i + 1].packets \cap buffered = {}
      /\ \A j \in 1..Len(pipe) : i + 1 # j => pipe[i + 1].packets \cap pipe[j].packets = {}
      /\ \A p \in pipe[i + 1].packets :
          /\ p.link = pipe[i + 1].link
          /\ \A r \in in_flight :
              /\ r.link.handle = p.link.handle
              /\ \A j \in 1..(i + 1) : r \notin pipe[j].packets
              => p.seq < r.seq
  BY <1>2 DEF Completions
<1>6. ASSUME NEW p \in pipe'[i].packets, NEW r \in in_flight',
             r.link.handle = p.link.handle, \A j \in 1..i : r \notin pipe'[j].packets
      PROVE  p.seq < r.seq
  <2>1. \A j \in 1..(i + 1) : r \notin pipe[j].packets
    BY <1>4, <1>6, Zenon
  <2> QED BY <2>1, <1>2, <1>5, <1>6, Zenon
<1> QED BY <1>1, <1>2, <1>3, <1>5, <1>6

\* An event the controller adds keeps the completions in order if its own
\* packets are in flight on its link, new, and older than what stays behind.
LEMMA CompletionsAppend ==
    ASSUME TypeOK, NEW e \in Events, pipe' = Append(pipe, e), Completions(in_flight),
           in_flight' = in_flight, buffered' \subseteq buffered,
           e.type # "Completed" => e.packets = {},
           e.packets \subseteq in_flight, e.packets \cap buffered' = {},
           \A i \in 1..Len(pipe) : e.packets \cap pipe[i].packets = {},
           \A p \in e.packets :
              /\ p.link = e.link
              /\ \A r \in in_flight \ e.packets :
                  /\ r.link.handle = p.link.handle
                  /\ \A j \in 1..Len(pipe) : r \notin pipe[j].packets
                  => p.seq < r.seq
    PROVE  Completions(in_flight)'
<1>1. /\ Len(pipe) \in Nat /\ Len(pipe') = Len(pipe) + 1
      /\ \A i \in 1..Len(pipe) : i \in 1..Len(pipe') /\ pipe'[i] = pipe[i]
      /\ pipe'[Len(pipe) + 1] = e /\ Len(pipe) + 1 \in 1..Len(pipe')
      /\ \A i \in 1..Len(pipe') : i = Len(pipe) + 1 \/ i \in 1..Len(pipe)
  BY PipeAppend
<1> SUFFICES ASSUME NEW i \in 1..Len(pipe')
             PROVE  /\ pipe'[i].type # "Completed" => pipe'[i].packets = {}
                    /\ pipe'[i].packets \subseteq in_flight'
                    /\ pipe'[i].packets \cap buffered' = {}
                    /\ \A j \in 1..Len(pipe') : i # j =>
                          pipe'[i].packets \cap pipe'[j].packets = {}
                    /\ \A p \in pipe'[i].packets :
                        /\ p.link = pipe'[i].link
                        /\ \A r \in in_flight' :
                            /\ r.link.handle = p.link.handle
                            /\ \A j \in 1..i : r \notin pipe'[j].packets
                            => p.seq < r.seq
  BY DEF Completions
<1>2. CASE i \in 1..Len(pipe)
  <2>1. \A j \in 1..i : j \in 1..Len(pipe) /\ pipe'[j] = pipe[j]
    BY <1>1, <1>2
  <2>2. \A j \in 1..Len(pipe') : i # j => pipe'[i].packets \cap pipe'[j].packets = {}
    BY <1>1, <1>2 DEF Completions
  <2>3. ASSUME NEW p \in pipe'[i].packets, NEW r \in in_flight',
               r.link.handle = p.link.handle, \A j \in 1..i : r \notin pipe'[j].packets
        PROVE  p.seq < r.seq
    <3>1. \A j \in 1..i : r \notin pipe[j].packets
      BY <2>1, <2>3, Zenon
    <3> QED BY <3>1, <2>3, <1>1, <1>2, Zenon DEF Completions
  <2>4. /\ pipe'[i].type # "Completed" => pipe'[i].packets = {}
        /\ pipe'[i].packets \subseteq in_flight'
        /\ pipe'[i].packets \cap buffered' = {}
        /\ \A p \in pipe'[i].packets : p.link = pipe'[i].link
    BY <1>1, <1>2 DEF Completions
  <2> QED BY <2>2, <2>3, <2>4, Zenon
<1>3. CASE i = Len(pipe) + 1
  <2>1. pipe'[i] = e
    BY <1>1, <1>3, Zenon
  <2>2. \A j \in 1..Len(pipe') : i # j => pipe'[i].packets \cap pipe'[j].packets = {}
    BY <1>1, <1>3, <2>1, Zenon
  <2>3. ASSUME NEW p \in e.packets, NEW r \in in_flight',
               r.link.handle = p.link.handle, \A j \in 1..i : r \notin pipe'[j].packets
        PROVE  p.seq < r.seq
    <3>1. /\ \A j \in 1..Len(pipe) : j \in 1..i /\ r \notin pipe[j].packets
          /\ i \in 1..i /\ r \notin e.packets
      BY <1>1, <1>3, <2>1, <2>3, Zenon
    <3> QED BY <3>1, <2>3, Zenon
  <2> QED BY <2>1, <2>2, <2>3, Zenon
<1> QED BY <1>1, <1>2, <1>3

\* An event without packets leaves every packet accounted for.
LEMMA AccountedAppend ==
    ASSUME TypeOK, NEW e \in Events, pipe' = Append(pipe, e), Accounted(in_flight),
           in_flight' = in_flight,
           \A p \in buffered : p \in buffered' \/ p \in e.packets \/ Ending(p.link)'
    PROVE  Accounted(in_flight)'
<1>1. \A p \in in_flight : (\E i \in 1..Len(pipe) : p \in pipe[i].packets)
                             => \E i \in 1..Len(pipe') : p \in pipe'[i].packets
  BY PipeAppend
<1>2. \A p \in e.packets : \E i \in 1..Len(pipe') : p \in pipe'[i].packets
  BY PipeAppend
<1>3. \A l : Ending(l) => Ending(l)'
  BY EndingAppend
<1> QED BY <1>1, <1>2, <1>3, Zenon DEF Accounted

\* What a step does that leaves the packets, their numbers and the connection
\* alone, and lets no link end without reporting it.
LEMMA FrameStep ==
    ASSUME OrderlyWith(queued, in_flight, next_seq),
           UNCHANGED <<connection, queued, in_flight, next_seq>>,
           \A m : m \in up \/ Ending(m) => m \in up' \/ Ending(m)'
    PROVE  /\ InOrder(queued, in_flight, next_seq)' /\ Owned(queued, in_flight)'
           /\ CurrentIsYoungest(queued, in_flight)' /\ OneConnection'
<1>1. /\ InOrder(queued, in_flight, next_seq) /\ Owned(queued, in_flight)
      /\ CurrentIsYoungest(queued, in_flight) /\ OneConnection
  BY DEF OrderlyWith
<1>2. Waiting(queued') = Waiting(queued)
  OBVIOUS
<1>3. InOrder(queued, in_flight, next_seq)'
  BY <1>1, <1>2 DEF InOrder
<1>4. Owned(queued, in_flight)'
  BY <1>1, <1>2 DEF Owned
<1>5. CurrentIsYoungest(queued, in_flight)'
  BY <1>1, <1>2 DEF CurrentIsYoungest
<1>6. OneConnection'
  BY <1>1 DEF OneConnection
<1> QED BY <1>3, <1>4, <1>5, <1>6, Zenon

-----------------------------------------------------------------------------
(* The steps of the host that flush its queue *)

\* flush_channels: one more PDU is enqueued and flushed.
LEMMA SendPduStep == IInv /\ SendPdu => IInv'
<1> SUFFICES ASSUME IInv, SendPdu PROVE IInv'
  OBVIOUS
<1>0. Bounded /\ TypeOK /\ OrderlyWith(queued, in_flight, next_seq) /\ failed = NoError
  BY DEF IInv, Bounded, Orderly, SendPdu
<1>1. PICK l \in connection, n \in 1..MaxFragments :
        /\ flush(queued \o Fragments(l, next_seq, n), in_flight)
        /\ next_seq' = next_seq + n
        /\ UNCHANGED <<connection, released, failed, up, pipe, next_link>>
  BY DEF SendPdu
<1> DEFINE fs == Fragments(l, next_seq, n)
           q == queued \o fs
<1>2. /\ n \in Nat /\ next_seq \in Nat /\ l \in Links /\ next_seq + n \in Nat
      /\ in_flight \in SUBSET Packets /\ buffered \in SUBSET Packets
      /\ queued \in Seq(Packets) /\ Len(queued) \in Nat
  BY <1>0, LenProperties, BoundAssumption DEF TypeOK
<1>3. /\ fs \in Seq(Packets) /\ Len(fs) = n
      /\ \A i \in 1..n : fs[i].link = l /\ fs[i].seq = next_seq + i - 1
  BY <1>2 DEF Fragments, Packets
<1>4. /\ q \in Seq(Packets) /\ Len(q) = Len(queued) + n
      /\ \A i \in 1..Len(queued) : q[i] = queued[i]
      /\ \A i \in 1..Len(q) : i > Len(queued) => i - Len(queued) \in 1..n /\ q[i] = fs[i - Len(queued)]
  <2> HIDE DEF fs
  <2>1. /\ q \in Seq(Packets) /\ Len(q) = Len(queued) + Len(fs)
        /\ \A i \in 1..(Len(queued) + Len(fs)) :
             q[i] = IF i <= Len(queued) THEN queued[i] ELSE fs[i - Len(queued)]
    BY <1>2, <1>3, ConcatProperties, ZenonT(40)
  <2> QED BY <1>2, <1>3, <2>1
<1> HIDE DEF fs
<1>5. \A i \in 1..Len(q) :
        \/ i \in 1..Len(queued) /\ q[i] = queued[i] /\ q[i] \in Waiting(queued)
        \/ /\ i > Len(queued) /\ q[i].link = l /\ q[i] \in Packets
           /\ q[i].seq = next_seq + (i - Len(queued)) - 1
  <2> SUFFICES ASSUME NEW i \in 1..Len(q)
               PROVE  \/ i \in 1..Len(queued) /\ q[i] = queued[i] /\ q[i] \in Waiting(queued)
                      \/ /\ i > Len(queued) /\ q[i].link = l /\ q[i] \in Packets
                         /\ q[i].seq = next_seq + (i - Len(queued)) - 1
    OBVIOUS
  <2>1. CASE i <= Len(queued)
    BY <2>1, <1>2, <1>4 DEF Waiting
  <2>2. CASE i > Len(queued)
    BY <2>2, <1>2, <1>3, <1>4, ElementOfSeq
  <2> QED BY <2>1, <2>2, <1>2, <1>4
<1> HIDE DEF q
<1>6. \A p \in Waiting(q) : p \in Waiting(queued)
                            \/ (/\ p.link = l /\ p.seq \in Nat
                                /\ p.seq >= next_seq /\ p.seq < next_seq + n)
  BY <1>2, <1>4, <1>5 DEF Waiting
<1>7. \A p \in in_flight \cup Waiting(queued) : p.seq < next_seq /\ p.seq \in Nat
  <2>1. Waiting(queued) \subseteq Packets
    BY <1>2, ElementOfSeq DEF Waiting
  <2> QED BY <1>0, <1>2, <2>1, Zenon DEF OrderlyWith, InOrder, Packets
<1>8. InOrder(q, in_flight, next_seq + n)
  <2>1. ASSUME NEW i \in 1..Len(q), NEW j \in 1..Len(q), i < j PROVE q[i].seq < q[j].seq
    <3>1. CASE j <= Len(queued)
      <4>1. /\ i \in 1..Len(queued) /\ j \in 1..Len(queued)
            /\ q[i] = queued[i] /\ q[j] = queued[j]
        BY <3>1, <2>1, <1>2, <1>4
      <4>2. queued[i].seq < queued[j].seq
        BY <4>1, <2>1, <1>0, Zenon DEF OrderlyWith, InOrder
      <4> QED BY <4>1, <4>2, Zenon
    <3>2. CASE j > Len(queued) /\ i <= Len(queued)
      <4>1. q[i].seq \in Nat /\ q[i].seq < next_seq
        BY <3>2, <1>5, <1>7
      <4>2. q[j].seq = next_seq + (j - Len(queued)) - 1 /\ j \in Nat
        BY <3>2, <1>2, <1>4, <1>5
      <4> QED BY <3>2, <4>1, <4>2, <1>2
    <3>3. CASE i > Len(queued)
      <4>1. /\ i \in Nat /\ i \notin 1..Len(queued)
            /\ j \in Nat /\ j \notin 1..Len(queued)
        BY <3>3, <2>1, <1>2, <1>4
      <4>2. q[i].seq = next_seq + (i - Len(queued)) - 1
        BY <4>1, <1>5, Zenon
      <4>3. q[j].seq = next_seq + (j - Len(queued)) - 1
        BY <4>1, <1>5, Zenon
      <4> QED BY <4>1, <4>2, <4>3, <2>1, <1>2
    <3> QED BY <3>1, <3>2, <3>3, <1>2, <1>4
  <2>2. ASSUME NEW p \in in_flight, NEW i \in 1..Len(q) PROVE p.seq < q[i].seq
    BY <1>0, <1>2, <1>5, <1>7, SMTT(30) DEF OrderlyWith, InOrder
  <2>3. \A p \in in_flight \cup Waiting(q) : p.seq < next_seq + n
    BY <1>2, <1>6, <1>7
  <2> QED BY <2>1, <2>2, <2>3, Zenon DEF InOrder
<1>9. flush(q, in_flight)
  BY <1>1 DEF q, fs
<1>10. IsFiniteSet(in_flight) /\ Cardinality(in_flight) <= TotalPackets
  BY <1>0, Zenon DEF Bounded
<1>11. /\ queued' \in Seq(Packets)
       /\ in_flight' \in SUBSET Packets /\ buffered' \in SUBSET Packets
       /\ IsFiniteSet(in_flight') /\ Cardinality(in_flight') <= TotalPackets
       /\ WorkConserving'
       /\ in_flight \subseteq in_flight' /\ in_flight' \subseteq in_flight \cup Waiting(q)
       /\ in_flight' \cup Waiting(queued') = in_flight \cup Waiting(q)
       /\ InOrder(queued', in_flight', next_seq + n)
       /\ \A p \in buffered' : \/ p \in buffered
                               \/ /\ p \in in_flight' /\ p \in Waiting(q)
                                  /\ \E m \in up : m.handle = p.link.handle
       /\ buffered \subseteq buffered'
       /\ \A p \in in_flight' : \/ p \in in_flight \/ p \in buffered'
                                \/ ~ \E m \in up : m.handle = p.link.handle
       /\ \A p \in in_flight, r \in in_flight' : r \in in_flight \/ p.seq < r.seq
  BY <1>2, <1>4, <1>8, <1>9, <1>10, FlushProps, Zenon
<1>12. \A p \in in_flight \cup Waiting(q) : p.link \in up \/ Ending(p.link)
  BY <1>0, <1>6 DEF OrderlyWith, Owned, OneConnection
<1>13. UNCHANGED <<connection, up, pipe, failed, released, next_link>> /\ next_seq' = next_seq + n
  BY <1>1
<1>14. NoCrossLinkData'
  BY <1>0, <1>11, <1>12, <1>13, UpIsNotEnding, Zenon DEF NoCrossLinkData, Bounded, OneLinkPerHandle, OrderlyWith
<1>15. Bounded'
  BY <1>0, <1>2, <1>11, <1>13, <1>14, Zenon DEF Bounded, TypeOK, OneLinkPerHandle, NoUnderflow
<1>16. CurrentIsYoungest(queued, in_flight)'
  <2> SUFFICES ASSUME NEW p \in in_flight \cup Waiting(q), NEW r \in in_flight \cup Waiting(q),
                      p.link \in connection, r.link \notin connection
               PROVE  r.seq < p.seq
    BY <1>11, <1>13, Zenon DEF CurrentIsYoungest
  <2>1. r \in in_flight \cup Waiting(queued)
    BY <1>6, Zenon
  <2>2. CASE p \in in_flight \cup Waiting(queued)
    BY <2>1, <2>2, <1>0, Zenon DEF OrderlyWith, CurrentIsYoungest
  <2>3. CASE p \notin in_flight \cup Waiting(queued)
    BY <2>1, <2>3, <1>2, <1>6, <1>7
  <2> QED BY <2>2, <2>3, Zenon
<1>17. NewLink(queued, in_flight)'
  <2>1. \A p \in in_flight' \cup Waiting(queued') :
           p \in in_flight \cup Waiting(queued) \/ p.link \in connection
    BY <1>6, <1>11, Zenon
  <2> QED BY <2>1, <1>0, <1>13 DEF OrderlyWith, NewLink, Ending
<1>18. Completions(in_flight)'
  <2>1. \A p \in in_flight : p \in buffered' => p \in buffered
    BY <1>2, <1>8, <1>11 DEF InOrder, Waiting, Packets
  <2>2. \A i \in 1..Len(pipe) : pipe[i].packets \subseteq in_flight
    BY <1>0 DEF OrderlyWith, Completions
  <2> QED BY <2>1, <2>2, <1>0, <1>11, <1>13 DEF OrderlyWith, Completions
<1>19. Accounted(in_flight)'
  <2> SUFFICES ASSUME NEW p \in in_flight'
               PROVE  \/ p \in buffered' \/ Ending(p.link)
                      \/ \E i \in 1..Len(pipe) : p \in pipe[i].packets
    BY <1>13, Zenon DEF Accounted, Ending
  <2>1. CASE p \in in_flight
    BY <2>1, <1>0, <1>11, Zenon DEF OrderlyWith, Accounted
  <2>2. CASE p \notin in_flight
    BY <2>2, <1>11, <1>12, Zenon
  <2> QED BY <2>1, <2>2, Zenon
<1>20. OrderlyWith(queued, in_flight, next_seq)'
  <2>1. Owned(queued, in_flight)'
    BY <1>11, <1>12, <1>13, Zenon DEF Owned, Ending
  <2>2. InOrder(queued, in_flight, next_seq)'
    BY <1>11, <1>13, Zenon
  <2>3. OneConnection' /\ EndsAreLast'
    BY <1>0, <1>13, ZenonT(30) DEF OrderlyWith, OneConnection, EndsAreLast, Ending
  <2> QED BY <2>1, <2>2, <2>3, <1>16, <1>17, <1>18, <1>19, Zenon DEF OrderlyWith
<1> QED BY <1>15, <1>20, Zenon DEF IInv, Orderly


\* NumberOfCompletedPackets: complete, then flush into the freed window.
LEMMA OnCompletedStep == IInv /\ OnCompleted => IInv'
<1> SUFFICES ASSUME IInv, OnCompleted PROVE IInv'
  OBVIOUS
<1> DEFINE h == pipe[1].link.handle
           S == pipe[1].packets
           f == in_flight \ S
<1>0. /\ Bounded /\ TypeOK /\ OrderlyWith(queued, in_flight, next_seq) /\ failed = NoError
      /\ pipe # <<>> /\ pipe' = Tail(pipe) /\ Head(pipe).type = "Completed"
      /\ UNCHANGED <<connection, released, up, next_seq, next_link>>
  BY DEF IInv, Bounded, Orderly, OnCompleted, Receive
<1>1. /\ pipe' \in Seq(Events) /\ Len(pipe) \in Nat \ {0} /\ Len(pipe') = Len(pipe) - 1
      /\ Head(pipe) = pipe[1] /\ pipe[1].type = "Completed" /\ 1 \in 1..Len(pipe)
      /\ \A i \in 1..Len(pipe') : i + 1 \in 1..Len(pipe) /\ pipe'[i] = pipe[i + 1]
      /\ \A i \in 1..Len(pipe) : i # 1 => i - 1 \in 1..Len(pipe') /\ pipe'[i - 1] = pipe[i]
  BY <1>0, PipeTail
<1>2. /\ IsFiniteSet(in_flight) /\ Cardinality(in_flight) <= TotalPackets
      /\ in_flight \in SUBSET Packets /\ buffered \in SUBSET Packets
      /\ queued \in Seq(Packets) /\ next_seq \in Nat /\ buffered \subseteq in_flight
  BY <1>0, Zenon DEF Bounded, TypeOK
<1>3. /\ S \subseteq On(in_flight, h)
      /\ \A p \in S, r \in On(in_flight, h) \ S : p.seq < r.seq
  <2>1. S \subseteq in_flight /\ \A p \in S : p.link = pipe[1].link
    BY <1>0, <1>1, Zenon DEF OrderlyWith, Completions
  <2>2. ASSUME NEW p \in S, NEW r \in On(in_flight, h) \ S PROVE p.seq < r.seq
    <3>1. \A j \in 1..1 : r \notin pipe[j].packets
      OBVIOUS
    <3>2. r \in in_flight /\ r.link.handle = p.link.handle
      BY <2>1, Zenon DEF On
    <3> QED BY <3>1, <3>2, <1>0, <1>1, Zenon DEF OrderlyWith, Completions
  <2> QED BY <2>1, <2>2, Zenon DEF On
<1>4. /\ Oldest(On(in_flight, h), Cardinality(S)) = S
      /\ Cardinality(S) <= Cardinality(On(in_flight, h))
  <2>1. On(in_flight, h) \in SUBSET Packets /\ IsFiniteSet(On(in_flight, h))
    BY <1>2, FS_Subset DEF On
  <2> QED BY <1>3, <2>1, OldestIsPrefix, Zenon
<1>5. flush(queued, f) /\ failed' = failed
  <2>1. Cardinality(S) \in Nat /\ Cardinality(On(in_flight, h)) \in Nat
    BY <1>2, <1>3, FS_Subset, FS_CardinalityType, Zenon DEF On
  <2>2. ~(Cardinality(S) > Cardinality(On(in_flight, h)))
    BY <2>1, <1>4
  <2>3. complete(h, Cardinality(S)) = f
    BY <1>4, Zenon DEF complete
  <2> QED BY <1>1, <2>2, <2>3, ZenonT(40) DEF OnCompleted
<1>6. f \in SUBSET Packets /\ IsFiniteSet(f) /\ Cardinality(f) <= TotalPackets
  <2>1. f \in SUBSET in_flight
    OBVIOUS
  <2>2. IsFiniteSet(f) /\ Cardinality(f) <= Cardinality(in_flight)
    BY <2>1, <1>2, FS_Subset, Zenon
  <2> QED BY <2>2, <1>2, FS_CardinalityType, BufferAssumption
<1>7. InOrder(queued, f, next_seq)
  BY <1>0, Zenon DEF OrderlyWith, InOrder
<1> HIDE DEF f, S
<1>8. /\ queued' \in Seq(Packets)
      /\ in_flight' \in SUBSET Packets /\ buffered' \in SUBSET Packets
      /\ IsFiniteSet(in_flight') /\ Cardinality(in_flight') <= TotalPackets
      /\ WorkConserving'
      /\ f \subseteq in_flight' /\ in_flight' \subseteq f \cup Waiting(queued)
      /\ in_flight' \cup Waiting(queued') = f \cup Waiting(queued)
      /\ InOrder(queued', in_flight', next_seq)
      /\ \A p \in buffered' : \/ p \in buffered
                              \/ /\ p \in in_flight' /\ p \in Waiting(queued)
                                 /\ \E l \in up : l.handle = p.link.handle
      /\ buffered \subseteq buffered'
      /\ \A p \in in_flight' : \/ p \in f \/ p \in buffered'
                               \/ ~ \E l \in up : l.handle = p.link.handle
      /\ \A p \in f, r \in in_flight' : r \in f \/ p.seq < r.seq
  BY <1>2, <1>5, <1>6, <1>7, FlushProps, Zenon
<1>9. \A p \in f \cup Waiting(queued) : p.link \in up \/ Ending(p.link)
  BY <1>0, Zenon DEF OrderlyWith, Owned, f
<1>10. \A l : Ending(l) => Ending(l)'
  BY <1>0, <1>1, EndingTail, Zenon
<1>11. buffered \subseteq f
  BY <1>0, <1>1, <1>2, Zenon DEF OrderlyWith, Completions, f, S
<1>12. Bounded'
  <2>1. NoCrossLinkData'
    BY <1>0, <1>8, <1>9, UpIsNotEnding, Zenon DEF NoCrossLinkData, Bounded, OneLinkPerHandle, OrderlyWith
  <2>2. buffered' \subseteq in_flight'
    BY <1>8, <1>11, Zenon
  <2> QED BY <2>1, <2>2, <1>0, <1>1, <1>5, <1>8, Zenon DEF Bounded, TypeOK, OneLinkPerHandle, NoUnderflow
<1>13. in_flight' \cup Waiting(queued') \subseteq in_flight \cup Waiting(queued)
  BY <1>8, Zenon DEF f
<1>14. Owned(queued, in_flight)' /\ CurrentIsYoungest(queued, in_flight)'
  BY <1>0, <1>8, <1>9, <1>10, <1>13, Zenon DEF Owned, CurrentIsYoungest, OrderlyWith
<1>15. OneConnection' /\ EndsAreLast'
  <2>1. OneConnection'
    BY <1>0, <1>10, Zenon DEF OrderlyWith, OneConnection
  <2>2. EndsAreLast'
    BY <1>0, <1>1 DEF OrderlyWith, EndsAreLast
  <2> QED BY <2>1, <2>2, Zenon
<1>16. NewLink(queued, in_flight)'
  <2> SUFFICES ASSUME NEW i \in 1..Len(pipe'), pipe'[i].type = "Connected"
               PROVE  /\ \/ pipe'[i].link \in up
                         \/ \E j \in 1..Len(pipe') : /\ pipe'[j].type = "Disconnected"
                                                     /\ pipe'[j].link = pipe'[i].link
                      /\ pipe'[i].link \notin connection
                      /\ \A p \in in_flight' \cup Waiting(queued') : p.link # pipe'[i].link
                      /\ \A j \in 1..Len(pipe') : pipe'[j].type = "Connected" => i = j
    BY <1>0, Zenon DEF NewLink, Ending
  <2>1. i + 1 \in 1..Len(pipe) /\ pipe'[i] = pipe[i + 1]
    BY <1>1, Zenon
  <2>2. /\ pipe[i + 1].link \in up \/ Ending(pipe[i + 1].link)
        /\ pipe[i + 1].link \notin connection
        /\ \A p \in in_flight \cup Waiting(queued) : p.link # pipe[i + 1].link
        /\ \A j \in 1..Len(pipe) : pipe[j].type = "Connected" => i + 1 = j
    BY <2>1, <1>0, Zenon DEF OrderlyWith, NewLink
  <2>3. \A j \in 1..Len(pipe') : pipe'[j].type = "Connected" => i + 1 = j + 1
    BY <2>2, <1>1, ZenonT(40)
  <2>a. \A j \in 1..Len(pipe') : i + 1 = j + 1 => i = j
    BY <1>1
  <2>4. \/ pipe'[i].link \in up
        \/ \E j \in 1..Len(pipe') : /\ pipe'[j].type = "Disconnected"
                                    /\ pipe'[j].link = pipe'[i].link
    BY <2>1, <2>2, <1>10, ZenonT(40) DEF Ending
  <2> QED BY <2>1, <2>2, <2>3, <2>4, <2>a, <1>13, Zenon
<1>17. Completions(in_flight)'
  <2> SUFFICES ASSUME NEW i \in 1..Len(pipe')
               PROVE  /\ pipe'[i].type # "Completed" => pipe'[i].packets = {}
                      /\ pipe'[i].packets \subseteq in_flight'
                      /\ pipe'[i].packets \cap buffered' = {}
                      /\ \A j \in 1..Len(pipe') : i # j =>
                            pipe'[i].packets \cap pipe'[j].packets = {}
                      /\ \A p \in pipe'[i].packets :
                          /\ p.link = pipe'[i].link
                          /\ \A r \in in_flight' :
                              /\ r.link.handle = p.link.handle
                              /\ \A j \in 1..i : r \notin pipe'[j].packets
                              => p.seq < r.seq
    BY DEF Completions
  <2>1. i + 1 \in 1..Len(pipe) /\ pipe'[i] = pipe[i + 1] /\ i + 1 # 1
    BY <1>1
  <2>2. /\ pipe[i + 1].type # "Completed" => pipe[i + 1].packets = {}
        /\ pipe[i + 1].packets \subseteq in_flight
        /\ pipe[i + 1].packets \cap buffered = {}
        /\ \A j \in 1..Len(pipe) : i + 1 # j => pipe[i + 1].packets \cap pipe[j].packets = {}
        /\ \A p \in pipe[i + 1].packets :
            /\ p.link = pipe[i + 1].link
            /\ \A r \in in_flight :
                /\ r.link.handle = p.link.handle
                /\ \A j \in 1..(i + 1) : r \notin pipe[j].packets
                => p.seq < r.seq
    BY <2>1, <1>0, Zenon DEF OrderlyWith, Completions
  <2>3. pipe[i + 1].packets \subseteq f
    BY <2>1, <2>2, <1>1, Zenon DEF f, S
  <2>4. \A p \in f : p \in buffered' => p \in buffered
    BY <1>6, <1>7, <1>8 DEF InOrder, Waiting, Packets
  <2>5. \A j \in 1..Len(pipe') : i # j => i + 1 # j + 1
    BY <1>1
  <2>6. ASSUME NEW p \in pipe'[i].packets, NEW r \in in_flight',
               r.link.handle = p.link.handle, \A j \in 1..i : r \notin pipe'[j].packets
        PROVE  p.seq < r.seq
    <3>1. CASE r \notin f
      BY <3>1, <2>1, <2>3, <1>8, Zenon
    <3>2. CASE r \in f
      <4>1. \A j \in 1..(i + 1) : r \notin pipe[j].packets
        <5> SUFFICES ASSUME NEW j \in 1..(i + 1), r \in pipe[j].packets PROVE FALSE
          OBVIOUS
        <5>1. j # 1
          BY <3>2, Zenon DEF f, S
        <5>2. j - 1 \in 1..i /\ pipe'[j - 1] = pipe[j]
          BY <5>1, <2>1, <1>1
        <5> QED BY <5>2, <2>6, Zenon
      <4>2. r \in in_flight
        BY <3>2, Zenon DEF f
      <4> QED BY <4>1, <4>2, <2>1, <2>2, <2>6, Zenon
    <3> QED BY <3>1, <3>2, Zenon
  <2> QED BY <2>1, <2>2, <2>3, <2>4, <2>5, <2>6, <1>1, <1>8, SMTT(30)
<1>18. Accounted(in_flight)'
  <2> SUFFICES ASSUME NEW p \in in_flight'
               PROVE  \/ p \in buffered' \/ Ending(p.link)'
                      \/ \E i \in 1..Len(pipe') : p \in pipe'[i].packets
    BY Zenon DEF Accounted
  <2>1. CASE p \in f
    <3>1. \/ p \in buffered \/ Ending(p.link)
          \/ \E i \in 1..Len(pipe) : p \in pipe[i].packets
      BY <2>1, <1>0, Zenon DEF OrderlyWith, Accounted, f
    <3>2. ASSUME NEW i \in 1..Len(pipe), p \in pipe[i].packets
          PROVE  \E j \in 1..Len(pipe') : p \in pipe'[j].packets
      <4>1. i # 1
        BY <2>1, <3>2 DEF f, S
      <4> QED BY <4>1, <3>2, <1>1, Zenon
    <3> QED BY <3>1, <3>2, <1>8, <1>10, Zenon
  <2>2. CASE p \notin f
    BY <2>2, <1>8, <1>9, <1>10, Zenon
  <2> QED BY <2>1, <2>2, Zenon
<1>19. OrderlyWith(queued, in_flight, next_seq)'
  <2>1. InOrder(queued, in_flight, next_seq)'
    BY <1>0, <1>8, Zenon
  <2> QED BY <2>1, <1>14, <1>15, <1>16, <1>17, <1>18, Zenon DEF OrderlyWith
<1> QED BY <1>12, <1>19, Zenon DEF IInv, Orderly

-----------------------------------------------------------------------------
(* The other steps *)

\* ConnectionComplete: a new link, with packets of the old one still counted.
LEMMA OnConnectedStep == IInv /\ OnConnected => IInv'
<1> SUFFICES ASSUME IInv, OnConnected PROVE IInv'
  OBVIOUS
<1>0. /\ Bounded /\ TypeOK /\ OrderlyWith(queued, in_flight, next_seq)
      /\ pipe # <<>> /\ pipe' = Tail(pipe) /\ Head(pipe).type = "Connected"
      /\ connection' = {Head(pipe).link} /\ released' = FALSE
      /\ UNCHANGED <<queued, in_flight, failed, up, buffered, next_seq, next_link>>
  BY Zenon DEF IInv, Bounded, Orderly, OnConnected, Receive
<1>1. /\ pipe' \in Seq(Events) /\ Len(pipe) \in Nat \ {0} /\ Len(pipe') = Len(pipe) - 1
      /\ Head(pipe) = pipe[1] /\ pipe[1].type = "Connected" /\ 1 \in 1..Len(pipe)
      /\ pipe[1].link \in Links /\ connection' = {pipe[1].link}
      /\ \A i \in 1..Len(pipe') : i + 1 \in 1..Len(pipe) /\ pipe'[i] = pipe[i + 1]
      /\ \A i \in 1..Len(pipe) : i # 1 => i - 1 \in 1..Len(pipe') /\ pipe'[i - 1] = pipe[i]
  BY <1>0, PipeTail DEF Events
<1>2. Bounded'
  BY <1>0, <1>1, ZenonT(40) DEF Bounded, TypeOK, NoCrossLinkData, OneLinkPerHandle, WorkConserving, NoUnderflow
<1>3. \A l : Ending(l) => Ending(l)'
  BY <1>0, <1>1, EndingTail, Zenon
<1>4. /\ pipe[1].link \in up \/ Ending(pipe[1].link)
      /\ \A p \in in_flight \cup Waiting(queued) : p.link # pipe[1].link
      /\ \A j \in 1..Len(pipe) : pipe[j].type = "Connected" => j = 1
  BY <1>0, <1>1, Zenon DEF OrderlyWith, NewLink
<1>5. InOrder(queued, in_flight, next_seq)' /\ Owned(queued, in_flight)'
  BY <1>0, <1>3, Zenon DEF OrderlyWith, InOrder, Owned, Waiting
<1>6. CurrentIsYoungest(queued, in_flight)'
  BY <1>0, <1>1, <1>4 DEF CurrentIsYoungest, Waiting
<1>7. OneConnection'
  BY <1>0, <1>1, <1>3, <1>4, Zenon DEF OneConnection
<1>8. EndsAreLast'
  BY <1>0, <1>1 DEF OrderlyWith, EndsAreLast
<1>9. NewLink(queued, in_flight)'
  <2>1. \A i \in 1..Len(pipe') : pipe'[i].type # "Connected"
    BY <1>1, <1>4, SMTT(30)
  <2> QED BY <2>1, Zenon DEF NewLink
<1>10. pipe[1].packets = {} /\ Completions(in_flight)
  BY <1>0, <1>1, Zenon DEF OrderlyWith, Completions
<1>11. Completions(in_flight)'
  BY <1>0, <1>10, CompletionsTail, Zenon DEF Completions
<1>12. Accounted(in_flight)'
  <2>1. \A p \in in_flight : (\E i \in 1..Len(pipe) : p \in pipe[i].packets)
                              => \E i \in 1..Len(pipe') : p \in pipe'[i].packets
    BY <1>1, <1>10, Zenon
  <2> QED BY <2>1, <1>0, <1>3, Zenon DEF OrderlyWith, Accounted
<1>13. OrderlyWith(queued, in_flight, next_seq)'
  BY <1>5, <1>6, <1>7, <1>8, <1>9, <1>11, <1>12, Zenon DEF OrderlyWith
<1> QED BY <1>2, <1>13 DEF IInv, Orderly

\* DisconnectionComplete: clear_handle, which flushes nothing.
LEMMA OnDisconnectedStep == IInv /\ OnDisconnected => IInv'
<1> SUFFICES ASSUME IInv, OnDisconnected PROVE IInv'
  OBVIOUS
<1> DEFINE e == pipe[1].link
           h == pipe[1].link.handle
<1>0. /\ Bounded /\ TypeOK /\ OrderlyWith(queued, in_flight, next_seq)
      /\ pipe # <<>> /\ pipe' = Tail(pipe) /\ Head(pipe).type = "Disconnected"
      /\ UNCHANGED <<up, buffered, next_seq, next_link>>
  BY Zenon DEF IInv, Bounded, Orderly, OnDisconnected, Receive
<1>1. /\ pipe' \in Seq(Events) /\ Len(pipe) \in Nat \ {0} /\ Len(pipe') = Len(pipe) - 1
      /\ Head(pipe) = pipe[1] /\ pipe[1].type = "Disconnected" /\ 1 \in 1..Len(pipe)
      /\ \A i \in 1..Len(pipe') : i + 1 \in 1..Len(pipe) /\ pipe'[i] = pipe[i + 1]
      /\ \A i \in 1..Len(pipe) : i # 1 => i - 1 \in 1..Len(pipe') /\ pipe'[i - 1] = pipe[i]
  BY <1>0, PipeTail
<1>2. CASE ~ \E l \in connection : l.handle = h
  <2>1. /\ failed' = "ConnectionHandleMismatch"
        /\ UNCHANGED <<queued, in_flight, connection, released>>
    BY <1>1, <1>2, Zenon DEF OnDisconnected
  <2>2. Bounded'
    BY <2>1, <1>0, <1>1, Zenon DEF Bounded, TypeOK, NoCrossLinkData, OneLinkPerHandle,
       WorkConserving, NoUnderflow, Errors
  <2> QED BY <2>1, <2>2, Zenon DEF IInv, Orderly, NoError
<1>3. CASE \E l \in connection : l.handle = h
  <2>1. /\ queued' \in cleared_queues(h) /\ in_flight' = in_flight \ On(in_flight, h)
        /\ connection' = {} /\ released' = FALSE /\ failed' = failed
    BY <1>1, <1>3, Zenon DEF OnDisconnected, cleared_in_flight
  <2>2. /\ \A l \in up : l.handle # h
        /\ \A j \in 1..Len(pipe) : 1 < j => pipe[j].link.handle # h
    BY <1>0, <1>1, Zenon DEF OrderlyWith, EndsAreLast
  <2>3. \A m : Ending(m) /\ m.handle = h => m = e
    <3> SUFFICES ASSUME NEW m, Ending(m), m.handle = h PROVE m = e
      OBVIOUS
    <3>1. PICK j \in 1..Len(pipe) : pipe[j].type = "Disconnected" /\ pipe[j].link = m
      BY DEF Ending
    <3>2. ~(1 < j)
      BY <3>1, <2>2, Zenon
    <3> QED BY <3>1, <3>2, <1>1
  <2>4. \A p \in in_flight \cup Waiting(queued) : p.link.handle = h => p.link = e
    BY <1>0, <2>2, <2>3, Zenon DEF OrderlyWith, Owned
  <2>5. connection = {e}
    BY <1>0, <1>3, <2>2, <2>3, Zenon DEF OrderlyWith, OneConnection
  <2>6. /\ in_flight \in SUBSET Packets /\ queued \in Seq(Packets) /\ Len(queued) \in Nat
        /\ IsFiniteSet(in_flight) /\ Cardinality(in_flight) <= TotalPackets
        /\ \A i \in 1..Len(queued) : queued[i] \in Packets
    BY <1>0, LenProperties, ElementOfSeq, Zenon DEF Bounded, TypeOK
  <2> DEFINE kept == {i \in 1..Len(queued) : queued[i].link.handle # h}
             c == Cardinality(kept)
  <2>7. c \in Nat
    <3>1. kept \in SUBSET (1..Len(queued)) /\ IsFiniteSet(1..Len(queued))
      BY <2>6, FS_Interval
    <3> QED BY <3>1, FS_Subset, FS_CardinalityType, Zenon
  <2>8. PICK o \in [1..c -> kept] :
           /\ \A i, j \in 1..c : i < j => o[i] < o[j]
           /\ queued' = [i \in 1..c |-> queued[o[i]]]
    BY <2>1, Zenon DEF cleared_queues
  <2> HIDE DEF c
  <2>9. /\ queued' \in Seq(Packets) /\ Len(queued') = c
        /\ \A i \in 1..c : /\ o[i] \in 1..Len(queued) /\ queued'[i] = queued[o[i]]
                           /\ queued[o[i]].link.handle # h
    BY <2>6, <2>7, <2>8, SMTT(30)
  <2> HIDE DEF kept
  <2>10. \A p \in in_flight' \cup Waiting(queued') :
           p \in in_flight \cup Waiting(queued) /\ p.link.handle # h
    <3>1. \A p \in in_flight' : p \in in_flight /\ p.link.handle # h
      BY <2>1, Zenon DEF On
    <3>2. ASSUME NEW p \in Waiting(queued')
          PROVE  p \in Waiting(queued) /\ p.link.handle # h
      <4>1. PICK i \in 1..c : p = queued'[i]
        BY <2>9, Zenon DEF Waiting
      <4>2. o[i] \in 1..Len(queued) /\ p = queued[o[i]] /\ p.link.handle # h
        BY <4>1, <2>9, Zenon
      <4> QED BY <4>2, Zenon DEF Waiting
    <3> QED BY <3>1, <3>2, Zenon
  <2>11. WorkConserving'
    <3> SUFFICES ASSUME queued' # <<>> PROVE Cardinality(in_flight') = TotalPackets
      BY DEF WorkConserving, in_flight_total
    <3>1. 1 \in 1..c
      BY <2>7, <2>9, EmptySeq
    <3>2. /\ o[1] \in 1..Len(queued) /\ queued[o[1]] \in Waiting(queued)
          /\ queued[o[1]].link \notin connection /\ queued # <<>>
      BY <3>1, <2>5, <2>6, <2>9, EmptySeq, SMTT(30) DEF Waiting
    <3>3. ASSUME NEW p \in On(in_flight, h) PROVE FALSE
      <4>1. p \in in_flight /\ p.link \in connection
        BY <2>4, <2>5, Zenon DEF On
      <4>2. queued[o[1]].seq < p.seq
        BY <4>1, <3>2, <1>0, Zenon DEF OrderlyWith, CurrentIsYoungest
      <4>3. p.seq < queued[o[1]].seq
        BY <4>1, <3>2, <1>0, Zenon DEF OrderlyWith, InOrder
      <4> QED BY <4>1, <4>2, <4>3, <3>2, <2>6 DEF Packets
    <3>4. in_flight' = in_flight
      BY <3>3, <2>1, Zenon
    <3> QED BY <3>2, <3>4, <1>0, Zenon DEF Bounded, WorkConserving, in_flight_total
  <2>12. IsFiniteSet(in_flight') /\ Cardinality(in_flight') <= TotalPackets
    <3>1. in_flight' \in SUBSET in_flight
      BY <2>1, Zenon
    <3> QED BY <3>1, <2>6, FS_Subset, FS_CardinalityType, BufferAssumption
  <2>13. buffered' \subseteq in_flight'
    BY <1>0, <2>1, <2>2, Zenon DEF Bounded, NoCrossLinkData, On
  <2>14. Bounded'
    BY <1>0, <1>1, <2>1, <2>6, <2>9, <2>11, <2>12, <2>13, ZenonT(40)
       DEF Bounded, TypeOK, NoCrossLinkData, OneLinkPerHandle, NoUnderflow
  <2>15. \A l : Ending(l) /\ l.handle # h => Ending(l)'
    BY <1>0, <1>1, EndingTail, Zenon
  <2>16. InOrder(queued, in_flight, next_seq)'
    <3>1. \A i, j \in 1..Len(queued') : i < j => queued'[i].seq < queued'[j].seq
      BY <1>0, <2>8, <2>9, ZenonT(40) DEF OrderlyWith, InOrder
    <3>2. \A p \in in_flight', i \in 1..Len(queued') : p.seq < queued'[i].seq
      BY <1>0, <2>1, <2>9, Zenon DEF OrderlyWith, InOrder
    <3> QED BY <3>1, <3>2, <1>0, <2>10, ZenonT(40) DEF OrderlyWith, InOrder
  <2>17. Owned(queued, in_flight)' /\ CurrentIsYoungest(queued, in_flight)' /\ OneConnection'
    BY <1>0, <2>1, <2>10, <2>15, Zenon DEF OrderlyWith, Owned, CurrentIsYoungest, OneConnection
  <2>18. EndsAreLast'
    BY <1>0, <1>1 DEF OrderlyWith, EndsAreLast
  <2>19. NewLink(queued, in_flight)'
    <3> SUFFICES ASSUME NEW i \in 1..Len(pipe'), pipe'[i].type = "Connected"
                 PROVE  /\ \/ pipe'[i].link \in up
                           \/ \E j \in 1..Len(pipe') : /\ pipe'[j].type = "Disconnected"
                                                       /\ pipe'[j].link = pipe'[i].link
                        /\ \A p \in in_flight' \cup Waiting(queued') : p.link # pipe'[i].link
                        /\ \A j \in 1..Len(pipe') : pipe'[j].type = "Connected" => i = j
      BY <1>0, <2>1, ZenonT(40) DEF NewLink, Ending
    <3>1. i + 1 \in 1..Len(pipe) /\ pipe'[i] = pipe[i + 1] /\ 1 < i + 1
      BY <1>1
    <3>2. /\ pipe[i + 1].link \in up \/ Ending(pipe[i + 1].link)
          /\ \A p \in in_flight \cup Waiting(queued) : p.link # pipe[i + 1].link
          /\ \A j \in 1..Len(pipe) : pipe[j].type = "Connected" => i + 1 = j
      BY <3>1, <1>0, Zenon DEF OrderlyWith, NewLink
    <3>3. \A j \in 1..Len(pipe') : pipe'[j].type = "Connected" => i + 1 = j + 1
      BY <3>2, <1>1
    <3>4. \/ pipe'[i].link \in up
          \/ \E j \in 1..Len(pipe') : /\ pipe'[j].type = "Disconnected"
                                      /\ pipe'[j].link = pipe'[i].link
      <4> SUFFICES ASSUME NEW CONSTANT m, m = pipe[i + 1].link, Ending(m)
                   PROVE  \E j \in 1..Len(pipe') : /\ pipe'[j].type = "Disconnected"
                                                    /\ pipe'[j].link = m
        BY <3>1, <3>2, Zenon
      <4>1. m.handle # h
        BY <3>1, <2>2, Zenon
      <4>2. Ending(m)'
        BY <4>1, <2>15, Zenon
      <4> QED BY <4>2, Zenon DEF Ending
    <3> QED BY <3>1, <3>2, <3>3, <3>4, <1>1, <2>10
  <2>20. pipe[1].packets = {} /\ Completions(in_flight)
    BY <1>0, <1>1, Zenon DEF OrderlyWith, Completions
  <2>21. \A i \in 1..Len(pipe) : pipe[i].packets \subseteq in_flight'
    <3> SUFFICES ASSUME NEW i \in 1..Len(pipe), i # 1, NEW p \in pipe[i].packets
                 PROVE  p \in in_flight'
      BY <2>20, Zenon
    <3>1. p \in in_flight /\ p.link = pipe[i].link
      BY <2>20, Zenon DEF Completions
    <3>2. 1 < i
      BY <1>1
    <3> QED BY <3>1, <3>2, <2>1, <2>2, Zenon DEF On
  <2>22. Completions(in_flight)'
    BY <1>0, <2>1, <2>20, <2>21, CompletionsTail, Zenon
  <2>23. Accounted(in_flight)'
    <3>1. \A p \in in_flight : (\E i \in 1..Len(pipe) : p \in pipe[i].packets)
                                => \E i \in 1..Len(pipe') : p \in pipe'[i].packets
      BY <1>1, <2>20, Zenon
    <3>2. \A p \in in_flight' : p \in in_flight /\ p.link.handle # h
      BY <2>1 DEF On
    <3> QED BY <3>1, <3>2, <1>0, <2>15, Zenon DEF OrderlyWith, Accounted
  <2>24. OrderlyWith(queued, in_flight, next_seq)'
    BY <2>16, <2>17, <2>18, <2>19, <2>22, <2>23 DEF OrderlyWith
  <2> QED BY <2>14, <2>24, Zenon DEF IInv, Orderly
<1> QED BY <1>2, <1>3, Zenon

\* The controller sets up a link on a free handle.
LEMMA LinkUpStep == IInv /\ LinkUp => IInv'
<1> SUFFICES ASSUME IInv, LinkUp PROVE IInv'
  OBVIOUS
<1>1. PICK h \in Handles :
        /\ \A l \in up : l.handle # h
        /\ \A i \in 1..Len(pipe) : pipe[i].link.handle # h /\ pipe[i].type # "Connected"
        /\ \A l \in connection : l.handle # h
        /\ up' = up \cup {[handle |-> h, number |-> next_link + 1]}
        /\ pipe' = Append(pipe, Connected([handle |-> h, number |-> next_link + 1]))
        /\ next_link' = next_link + 1
        /\ UNCHANGED <<connection, released, queued, in_flight, failed, buffered, next_seq>>
  BY DEF LinkUp
<1> DEFINE l == [handle |-> h, number |-> next_link + 1]
           e == Connected(l)
<1>2. Bounded /\ TypeOK
  BY Zenon DEF IInv, Bounded
<1>3. /\ l \in Links /\ e \in Events /\ e.type = "Connected" /\ e.link = l /\ e.packets = {}
      /\ l.handle = h /\ next_link' \in Nat /\ up' = up \cup {l} /\ pipe' = Append(pipe, e)
  BY <1>1, <1>2 DEF TypeOK, Links, Events, EventTypes, Connected
<1> HIDE DEF l, e
<1>4. /\ pipe' \in Seq(Events) /\ Len(pipe) \in Nat /\ Len(pipe') = Len(pipe) + 1
      /\ \A i \in 1..Len(pipe) : i \in 1..Len(pipe') /\ pipe'[i] = pipe[i]
      /\ pipe'[Len(pipe) + 1] = e /\ Len(pipe) + 1 \in 1..Len(pipe')
      /\ \A i \in 1..Len(pipe') : i = Len(pipe) + 1 \/ i \in 1..Len(pipe)
  BY <1>2, <1>3, PipeAppend, Zenon
<1>5. Bounded'
  <2>1. OneLinkPerHandle'
    BY <1>1, <1>2, <1>3, Zenon DEF Bounded, OneLinkPerHandle
  <2> QED BY <2>1, <1>1, <1>2, <1>3, <1>4, Zenon
          DEF Bounded, TypeOK, NoCrossLinkData, WorkConserving, NoUnderflow
<1>6. ASSUME failed = NoError PROVE OrderlyWith(queued, in_flight, next_seq)'
  <2>1. OrderlyWith(queued, in_flight, next_seq)
    BY <1>6, Zenon DEF IInv, Orderly
  <2>2. \A m : Ending(m) => Ending(m)' /\ m.handle # h
    BY <1>1, <1>2, <1>3, EndingAppend, SMTT(30) DEF Ending
  <2>3. InOrder(queued, in_flight, next_seq)' /\ Owned(queued, in_flight)'
        /\ CurrentIsYoungest(queued, in_flight)' /\ OneConnection'
    BY <1>1, <1>3, <2>1, <2>2, FrameStep, Zenon
  <2>4. EndsAreLast'
    <3> SUFFICES ASSUME NEW i \in 1..Len(pipe'), pipe'[i].type = "Disconnected"
                 PROVE  /\ \A m \in up' : m.handle # pipe'[i].link.handle
                        /\ \A j \in 1..Len(pipe') : i < j =>
                              pipe'[j].link.handle # pipe'[i].link.handle
      BY Zenon DEF EndsAreLast
    <3>1. i \in 1..Len(pipe) /\ pipe'[i] = pipe[i]
      BY <1>3, <1>4, Zenon
    <3>a. Ending(pipe[i].link)
      BY <3>1, Zenon DEF Ending
    <3>2. pipe[i].link.handle # l.handle
      BY <3>a, <1>3, <2>2, Zenon
    <3>3. /\ \A m \in up : m.handle # pipe[i].link.handle
          /\ \A j \in 1..Len(pipe) : i < j => pipe[j].link.handle # pipe[i].link.handle
      BY <3>1, <2>1, Zenon DEF OrderlyWith, EndsAreLast
    <3>4. \A m \in up' : m.handle # pipe[i].link.handle
      BY <3>2, <3>3, <1>1, <1>3, Zenon
    <3>5. \A j \in 1..Len(pipe') : i < j => pipe'[j].link.handle # pipe[i].link.handle
      BY <3>2, <3>3, <1>3, <1>4, Zenon
    <3> QED BY <3>1, <3>4, <3>5, Zenon
  <2>5. NewLink(queued, in_flight)'
    <3>1. \A p \in in_flight \cup Waiting(queued) : p.link # l
      BY <1>1, <1>3, <2>1, <2>2, Zenon DEF OrderlyWith, Owned
    <3>2. \A i \in 1..Len(pipe') : pipe'[i].type = "Connected" =>
             i = Len(pipe) + 1 /\ pipe'[i].link = l
      BY <1>1, <1>3, <1>4
    <3>3. l \notin connection
      BY <1>1, <1>3, Zenon
    <3> QED BY <3>1, <3>2, <3>3, <1>1, <1>3, SMTT(30) DEF NewLink, Waiting
  <2>6. Completions(in_flight)'
    BY <1>1, <1>2, <1>3, <2>1, CompletionsAppend, Zenon DEF OrderlyWith
  <2>7. Accounted(in_flight)'
    BY <1>1, <1>2, <1>3, <2>1, AccountedAppend, Zenon DEF OrderlyWith
  <2> QED BY <2>3, <2>4, <2>5, <2>6, <2>7, Zenon DEF OrderlyWith
<1> QED BY <1>1, <1>5, <1>6, Zenon DEF IInv, Orderly

\* The controller reports the oldest packets of a link as completed.
LEMMA TransmitStep == IInv /\ Transmit => IInv'
<1> SUFFICES ASSUME IInv, Transmit PROVE IInv'
  OBVIOUS
<1>0. PICK l \in up :
        \E n \in 1..Cardinality(On(buffered, l.handle)) :
            /\ pipe' = Append(pipe, Completed(l, Oldest(On(buffered, l.handle), n)))
            /\ buffered' = buffered \ Oldest(On(buffered, l.handle), n)
            /\ UNCHANGED <<connection, released, queued, in_flight, failed, up, next_seq, next_link>>
  BY Zenon DEF Transmit
<1>1. PICK n \in 1..Cardinality(On(buffered, l.handle)) :
        /\ pipe' = Append(pipe, Completed(l, Oldest(On(buffered, l.handle), n)))
        /\ buffered' = buffered \ Oldest(On(buffered, l.handle), n)
        /\ UNCHANGED <<connection, released, queued, in_flight, failed, up, next_seq, next_link>>
  BY <1>0, Zenon
<1> DEFINE X == On(buffered, l.handle)
           T == Oldest(X, n)
           e == Completed(l, T)
<1>2. Bounded /\ TypeOK
  BY Zenon DEF IInv, Bounded
<1>3. /\ X \in SUBSET Packets /\ IsFiniteSet(X) /\ n \in Nat
      /\ T \subseteq X /\ X \subseteq buffered /\ \A p \in X : p.link = l
  <2>1. X \in SUBSET in_flight /\ X \subseteq buffered /\ \A p \in X : p.link = l
    BY <1>2, Zenon DEF Bounded, On, NoCrossLinkData, OneLinkPerHandle
  <2>2. IsFiniteSet(X) /\ Cardinality(X) \in Nat
    BY <2>1, <1>2, FS_Subset, FS_CardinalityType, Zenon DEF Bounded
  <2> QED BY <2>1, <2>2, <1>2 DEF Oldest, TypeOK
<1>4. /\ l \in Links /\ e \in Events /\ e.type = "Completed" /\ e.link = l /\ e.packets = T
      /\ pipe' = Append(pipe, e) /\ buffered' = buffered \ T
  BY <1>1, <1>2, <1>3, Zenon DEF TypeOK, Events, EventTypes, Completed
<1>5. \A p \in T, r \in X \ T : p.seq < r.seq
  BY <1>3, OldestAreOlder, Zenon
<1> HIDE DEF X, T, e
<1>6. /\ pipe' \in Seq(Events) /\ Len(pipe) \in Nat /\ Len(pipe') = Len(pipe) + 1
      /\ \A i \in 1..Len(pipe) : i \in 1..Len(pipe') /\ pipe'[i] = pipe[i]
      /\ pipe'[Len(pipe) + 1] = e /\ Len(pipe) + 1 \in 1..Len(pipe')
      /\ \A i \in 1..Len(pipe') : i = Len(pipe) + 1 \/ i \in 1..Len(pipe)
  BY <1>2, <1>4, PipeAppend, Zenon
<1>7. Bounded'
  BY <1>1, <1>2, <1>4, <1>6, Zenon DEF Bounded, TypeOK, NoCrossLinkData, OneLinkPerHandle, WorkConserving, NoUnderflow
<1>8. ASSUME failed = NoError PROVE OrderlyWith(queued, in_flight, next_seq)'
  <2>1. OrderlyWith(queued, in_flight, next_seq)
    BY <1>8, Zenon DEF IInv, Orderly
  <2>2. \A m : Ending(m) => Ending(m)' /\ m.handle # l.handle
    BY <1>2, <1>4, <2>1, EndingAppend, UpIsNotEnding, Zenon DEF OrderlyWith
  <2>3. InOrder(queued, in_flight, next_seq)' /\ Owned(queued, in_flight)'
        /\ CurrentIsYoungest(queued, in_flight)' /\ OneConnection'
    BY <1>1, <2>1, <2>2, FrameStep, Zenon
  <2>4. EndsAreLast'
    <3> SUFFICES ASSUME NEW i \in 1..Len(pipe'), pipe'[i].type = "Disconnected"
                 PROVE  /\ \A m \in up' : m.handle # pipe'[i].link.handle
                        /\ \A j \in 1..Len(pipe') : i < j =>
                              pipe'[j].link.handle # pipe'[i].link.handle
      BY Zenon DEF EndsAreLast
    <3>1. i \in 1..Len(pipe) /\ pipe'[i] = pipe[i]
      BY <1>4, <1>6, Zenon
    <3>a. Ending(pipe[i].link)
      BY <3>1, Zenon DEF Ending
    <3>2. pipe[i].link.handle # l.handle
      BY <3>a, <1>4, <2>2, Zenon
    <3>3. /\ \A m \in up : m.handle # pipe[i].link.handle
          /\ \A j \in 1..Len(pipe) : i < j => pipe[j].link.handle # pipe[i].link.handle
      BY <3>1, <2>1, Zenon DEF OrderlyWith, EndsAreLast
    <3>4. \A m \in up' : m.handle # pipe[i].link.handle
      BY <3>2, <3>3, <1>1, <1>4, Zenon
    <3>5. \A j \in 1..Len(pipe') : i < j => pipe'[j].link.handle # pipe[i].link.handle
      BY <3>2, <3>3, <1>4, <1>6, Zenon
    <3> QED BY <3>1, <3>4, <3>5, Zenon
  <2>5. NewLink(queued, in_flight)'
    <3>1. \A i \in 1..Len(pipe') : pipe'[i].type = "Connected" =>
             i \in 1..Len(pipe) /\ pipe'[i] = pipe[i]
      BY <1>4, <1>6, Zenon
    <3>2. \A m : m \in up \/ Ending(m) => m \in up' \/ Ending(m)'
      BY <1>1, <2>2, Zenon
    <3>3. \A i \in 1..Len(pipe) : pipe[i].type = "Connected" =>
             /\ pipe[i].link \in up \/ Ending(pipe[i].link)
             /\ pipe[i].link \notin connection
             /\ \A p \in in_flight \cup Waiting(queued) : p.link # pipe[i].link
             /\ \A j \in 1..Len(pipe) : pipe[j].type = "Connected" => i = j
      BY <2>1, Zenon DEF OrderlyWith, NewLink
    <3>4. connection' = connection /\ in_flight' = in_flight /\ Waiting(queued)' = Waiting(queued)
      BY <1>1, Zenon DEF Waiting
    <3> SUFFICES ASSUME NEW i \in 1..Len(pipe'), pipe'[i].type = "Connected"
                 PROVE  /\ pipe'[i].link \in up' \/ Ending(pipe[i].link)'
                        /\ pipe'[i].link \notin connection'
                        /\ \A p \in in_flight' \cup Waiting(queued)' : p.link # pipe'[i].link
                        /\ \A j \in 1..Len(pipe') : pipe'[j].type = "Connected" => i = j
      BY Zenon DEF NewLink
    <3>5. i \in 1..Len(pipe) /\ pipe'[i] = pipe[i]
      BY <3>1, Zenon
    <3>6. pipe[i].link \in up \/ Ending(pipe[i].link)
      BY <3>3, <3>5, Zenon
    <3>7. pipe[i].link \in up' \/ Ending(pipe[i].link)'
      BY <3>2, <3>5, <3>6, Zenon DEF Ending
    <3>8. \A j \in 1..Len(pipe') : pipe'[j].type = "Connected" => i = j
      BY <3>1, <3>3, <3>5, Zenon
    <3>9. pipe[i].link \notin connection /\ \A p \in in_flight \cup Waiting(queued) : p.link # pipe[i].link
      BY <3>3, <3>5, Zenon
    <3> QED BY <3>4, <3>5, <3>7, <3>8, <3>9, Zenon
  <2>6. Completions(in_flight)'
    <3>1. \A i \in 1..Len(pipe) : T \cap pipe[i].packets = {}
      BY <1>3, <2>1 DEF OrderlyWith, Completions
    <3>2. ASSUME NEW p \in T, NEW r \in in_flight \ T, r.link.handle = p.link.handle,
                 \A j \in 1..Len(pipe) : r \notin pipe[j].packets
          PROVE  p.seq < r.seq
      <4>1. p.link = l
        BY <1>3, Zenon
      <4>2. r \in buffered
        BY <3>2, <4>1, <2>1, <2>2 DEF OrderlyWith, Accounted
      <4>3. r \in X
        BY <3>2, <4>1, <4>2, Zenon DEF X, On
      <4> QED BY <4>3, <1>5, <3>2, Zenon
    <3>3. T \subseteq in_flight /\ \A p \in T : p.link = l
      BY <1>2, <1>3, Zenon DEF Bounded
    <3>4. T \cap buffered' = {} /\ buffered' \subseteq buffered /\ in_flight' = in_flight
      BY <1>1, <1>4, Zenon
    <3>5. Completions(in_flight)
      BY <2>1, Zenon DEF OrderlyWith
    <3> QED BY <3>1, <3>2, <3>3, <3>4, <3>5, <1>2, <1>4, CompletionsAppend, Zenon
  <2>7. Accounted(in_flight)'
    BY <1>1, <1>2, <1>4, <2>1, AccountedAppend, Zenon DEF OrderlyWith
  <2> QED BY <2>3, <2>4, <2>5, <2>6, <2>7, Zenon DEF OrderlyWith
<1> QED BY <1>1, <1>7, <1>8, Zenon DEF IInv, Orderly

\* The controller drops the packets of a link and reports its end.
LEMMA LinkDownStep == IInv /\ LinkDown => IInv'
<1> SUFFICES ASSUME IInv, LinkDown PROVE IInv'
  OBVIOUS
<1>1. PICK l \in up :
        /\ up' = up \ {l}
        /\ buffered' = buffered \ On(buffered, l.handle)
        /\ pipe' = Append(pipe, Disconnected(l))
        /\ UNCHANGED <<connection, released, queued, in_flight, failed, next_seq, next_link>>
  BY DEF LinkDown
<1> DEFINE e == Disconnected(l)
<1>2. Bounded /\ TypeOK
  BY Zenon DEF IInv, Bounded
<1>3. /\ l \in Links /\ e \in Events /\ e.type = "Disconnected" /\ e.link = l /\ e.packets = {}
      /\ pipe' = Append(pipe, e)
  BY <1>1, <1>2, Zenon DEF TypeOK, Events, EventTypes, Disconnected
<1> HIDE DEF e
<1>4. /\ pipe' \in Seq(Events) /\ Len(pipe) \in Nat /\ Len(pipe') = Len(pipe) + 1
      /\ \A i \in 1..Len(pipe) : i \in 1..Len(pipe') /\ pipe'[i] = pipe[i]
      /\ pipe'[Len(pipe) + 1] = e /\ Len(pipe) + 1 \in 1..Len(pipe')
      /\ \A i \in 1..Len(pipe') : i = Len(pipe) + 1 \/ i \in 1..Len(pipe)
  BY <1>2, <1>3, PipeAppend, Zenon
<1>5. Bounded'
  BY <1>1, <1>2, <1>3, <1>4, ZenonT(30)
     DEF Bounded, TypeOK, NoCrossLinkData, OneLinkPerHandle, WorkConserving, NoUnderflow, On
<1>6. ASSUME failed = NoError PROVE OrderlyWith(queued, in_flight, next_seq)'
  <2>1. OrderlyWith(queued, in_flight, next_seq)
    BY <1>6, Zenon DEF IInv, Orderly
  <2>2. \A m : Ending(m) => Ending(m)' /\ m.handle # l.handle
    BY <1>2, <1>3, <2>1, EndingAppend, UpIsNotEnding, Zenon DEF OrderlyWith
  <2>3. Ending(l)'
    BY <1>3, <1>4, Zenon DEF Ending
  <2>4. \A m : m \in up \/ Ending(m) => m \in up' \/ Ending(m)'
    BY <1>1, <2>2, <2>3, Zenon
  <2>5. InOrder(queued, in_flight, next_seq)' /\ Owned(queued, in_flight)'
        /\ CurrentIsYoungest(queued, in_flight)' /\ OneConnection'
    BY <1>1, <2>1, <2>4, FrameStep, Zenon
  <2>6. EndsAreLast'
    <3>1. \A m \in up' : m.handle # l.handle
      BY <1>1, <1>2, Zenon DEF Bounded, OneLinkPerHandle
    <3>2. EndsAreLast /\ \A i \in 1..Len(pipe) : pipe[i].type = "Disconnected" => Ending(pipe[i].link)
      BY <2>1, Zenon DEF OrderlyWith, Ending
    <3> SUFFICES ASSUME NEW i \in 1..Len(pipe'), pipe'[i].type = "Disconnected"
                 PROVE  /\ \A m \in up' : m.handle # pipe'[i].link.handle
                        /\ \A j \in 1..Len(pipe') : i < j =>
                              pipe'[j].link.handle # pipe'[i].link.handle
      BY Zenon DEF EndsAreLast
    <3>3. CASE i = Len(pipe) + 1
      BY <3>1, <3>3, <1>3, <1>4, SMTT(30)
    <3>4. CASE i \in 1..Len(pipe)
      <4>1. /\ pipe'[i] = pipe[i] /\ pipe[i].link.handle # l.handle
            /\ \A m \in up : m.handle # pipe[i].link.handle
            /\ \A j \in 1..Len(pipe) : i < j => pipe[j].link.handle # pipe[i].link.handle
        BY <3>2, <3>4, <1>4, <2>2, Zenon DEF EndsAreLast
      <4>2. \A m \in up' : m \in up
        BY <1>1, Zenon
      <4> QED BY <4>1, <4>2, <1>3, <1>4, Zenon
    <3> QED BY <3>3, <3>4, <1>4, Zenon
  <2>7. NewLink(queued, in_flight)'
    <3>1. \A i \in 1..Len(pipe') : pipe'[i].type = "Connected" =>
             i \in 1..Len(pipe) /\ pipe'[i] = pipe[i]
      BY <1>3, <1>4, Zenon
    <3>2. (in_flight \cup Waiting(queued))' = in_flight \cup Waiting(queued) /\ connection' = connection
      BY <1>1, Zenon DEF Waiting
    <3>3. NewLink(queued, in_flight)
      BY <2>1, Zenon DEF OrderlyWith
    <3> QED BY <3>1, <3>2, <3>3, <2>4, Zenon DEF NewLink
  <2>8. Completions(in_flight)'
    BY <1>1, <1>2, <1>3, <2>1, CompletionsAppend, Zenon DEF OrderlyWith
  <2>9. \A p \in buffered : p \in buffered' \/ Ending(p.link)'
    BY <1>1, <1>2, <2>3, Zenon DEF On, Bounded, NoCrossLinkData, OneLinkPerHandle
  <2>10. Accounted(in_flight)'
    BY <1>1, <1>2, <1>3, <2>1, <2>9, AccountedAppend, Zenon DEF OrderlyWith
  <2> QED BY <2>5, <2>6, <2>7, <2>8, <2>10, Zenon DEF OrderlyWith
<1> QED BY <1>1, <1>5, <1>6, Zenon DEF IInv, Orderly

\* A step that leaves all but released alone, and a stuttering step.
LEMMA IdleStep ==
    ASSUME IInv, released' \in BOOLEAN,
           UNCHANGED <<connection, queued, in_flight, failed, up, buffered, pipe,
                       next_seq, next_link>>
    PROVE  IInv'
<1>1. Bounded'
  BY Zenon DEF IInv, Bounded, TypeOK, NoCrossLinkData, OneLinkPerHandle, WorkConserving,
         in_flight_total, NoUnderflow
<1>2. ASSUME failed = NoError PROVE OrderlyWith(queued, in_flight, next_seq)'
  <2>1. OrderlyWith(queued, in_flight, next_seq)
    BY <1>2, Zenon DEF IInv, Orderly
  <2>2. \A m : Ending(m) => Ending(m)'
    BY Zenon DEF Ending
  <2>3. /\ InOrder(queued, in_flight, next_seq)' /\ Owned(queued, in_flight)'
        /\ CurrentIsYoungest(queued, in_flight)' /\ OneConnection'
    BY <2>1, <2>2, FrameStep, Zenon
  <2>4. EndsAreLast'
    BY <2>1, Zenon DEF OrderlyWith, EndsAreLast
  <2>5. NewLink(queued, in_flight)'
    <3>1. (in_flight \cup Waiting(queued))' = in_flight \cup Waiting(queued)
      BY Zenon DEF Waiting
    <3>2. NewLink(queued, in_flight)
      BY <2>1, Zenon DEF OrderlyWith
    <3> QED BY <3>1, <3>2, <2>2, Zenon DEF NewLink
  <2>6. Completions(in_flight)'
    BY <2>1, Zenon DEF OrderlyWith, Completions
  <2>7. Accounted(in_flight)'
    BY <2>1, Zenon DEF OrderlyWith, Accounted, Ending
  <2> QED BY <2>3, <2>4, <2>5, <2>6, <2>7, Zenon DEF OrderlyWith
<1> QED BY <1>1, <1>2, Zenon DEF IInv, Orderly

\* Every step of the host and of the controller preserves the invariant.
LEMMA NextIInv == IInv /\ [Next]_vars => IInv'
<1> SUFFICES ASSUME IInv, [Next]_vars PROVE IInv'
  OBVIOUS
<1>1. CASE SendPdu
  BY <1>1, SendPduStep, Zenon
<1>2. CASE LocalDisconnect
  BY <1>2, IdleStep, Zenon DEF LocalDisconnect
<1>3. CASE OnConnected
  BY <1>3, OnConnectedStep, Zenon
<1>4. CASE OnCompleted
  BY <1>4, OnCompletedStep, Zenon
<1>5. CASE OnDisconnected
  BY <1>5, OnDisconnectedStep, Zenon
<1>6. CASE LinkUp
  BY <1>6, LinkUpStep
<1>7. CASE Transmit
  BY <1>7, TransmitStep
<1>8. CASE LinkDown
  BY <1>8, LinkDownStep
<1>9. CASE UNCHANGED vars
  BY <1>9, IdleStep DEF vars, IInv, Bounded, TypeOK
<1> QED BY <1>1, <1>2, <1>3, <1>4, <1>5, <1>6, <1>7, <1>8, <1>9, Zenon DEF Next, HostStep

-----------------------------------------------------------------------------
(* Theorems *)

\* The bookkeeping of AclFlow is consistent with the controller at all times.
LEMMA Invariance == Spec => []IInv
<1>1. Init => IInv
  BY InitIInv
<1>2. IInv /\ [Next]_vars => IInv'
  BY NextIInv
<1> QED BY <1>1, <1>2, PTL DEF Spec

\* Every record AclFlow keeps, and every event it handles, stays well formed.
THEOREM TypeCorrect == Spec => []TypeOK
<1>1. IInv => TypeOK
  BY Zenon DEF IInv, Bounded
<1> QED BY <1>1, Invariance, PTL

\* flush never overruns the controller's ACL buffers, however many there are,
\* whichever links come and go and however completions are batched.
THEOREM BufferSafety == Spec => []NoBufferOverrun
<1>1. IInv => NoBufferOverrun
  <2> SUFFICES ASSUME IInv PROVE Cardinality(buffered) <= TotalPackets
    BY DEF NoBufferOverrun
  <2>1. /\ IsFiniteSet(in_flight) /\ Cardinality(in_flight) <= TotalPackets
        /\ buffered \in SUBSET in_flight
    BY DEF IInv, Bounded
  <2>2. /\ Cardinality(buffered) <= Cardinality(in_flight)
        /\ Cardinality(buffered) \in Nat /\ Cardinality(in_flight) \in Nat
    BY <2>1, FS_Subset, FS_CardinalityType, Zenon
  <2> QED BY <2>1, <2>2, BufferAssumption
<1> QED BY <1>1, Invariance, PTL

\* The per-handle counts of AclFlow are exact: completions remove exactly the
\* packets the controller is done with.
THEOREM CreditAccounting == Spec => []CreditExact
<1>1. IInv => CreditExact
  <2> SUFFICES ASSUME IInv, failed = NoError
               PROVE  /\ buffered \cup Returning \subseteq in_flight
                      /\ \A p \in in_flight : p \in buffered \cup Returning \/ Ending(p.link)
    BY DEF CreditExact
  <2>1. Bounded /\ OrderlyWith(queued, in_flight, next_seq)
    BY DEF IInv, Orderly
  <2>2. buffered \subseteq in_flight /\ Completions(in_flight) /\ Accounted(in_flight)
    BY <2>1 DEF Bounded, OrderlyWith
  <2>3. Returning = UNION {pipe[i].packets : i \in 1..Len(pipe)}
    BY Zenon DEF Returning
  <2>4. \A i \in 1..Len(pipe) : pipe[i].packets \subseteq in_flight
    BY <2>2, Zenon DEF Completions
  <2>5. \A p \in in_flight : p \in buffered \/ p \in Returning \/ Ending(p.link)
    BY <2>2, <2>3, Zenon DEF Accounted
  <2> QED BY <2>2, <2>3, <2>4, <2>5, Zenon
<1> QED BY <1>1, Invariance, PTL

\* AclFlow::complete never reports an underflow to a conforming controller.
THEOREM UnderflowFree == Spec => []NoUnderflow
<1>1. IInv => NoUnderflow
  BY Zenon DEF IInv, Bounded
<1> QED BY <1>1, Invariance, PTL

\* clear_handle keeps the data of two lives of a handle apart.
THEOREM LinkSeparation == Spec => []NoCrossLinkData
<1>1. IInv => NoCrossLinkData
  BY Zenon DEF IInv, Bounded
<1> QED BY <1>1, Invariance, PTL

\* Packets wait in the host only while every buffer is accounted for, although
\* the end of a link returns credit without flushing.
THEOREM WorkConservation == Spec => []WorkConserving
<1>1. IInv => WorkConserving
  BY DEF IInv, Bounded
<1> QED BY <1>1, Invariance, PTL

=============================================================================
