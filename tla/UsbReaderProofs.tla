--------------------------- MODULE UsbReaderProofs ---------------------------
(***************************************************************************)
(* The reader thread of usb.rs, for any packets, any way of cutting them     *)
(* into transfers, any interleaving and any number of transfer failures: no  *)
(* wake-up is lost, the packets of both endpoints are framed whole and in    *)
(* order, and the end of the stream is the last thing said.                  *)
(***************************************************************************)
EXTENDS UsbReader, SequenceTheorems, WellFoundedInduction, TLAPS

-----------------------------------------------------------------------------
(* Wake-ups *)

\* However sends, notifications and polls interleave, an application that sleeps
\* over a message has been notified or is about to be.
THEOREM WakeupsAreKept == Spec => []NoLostWakeup
<1>1. Init => NoLostWakeup
  BY DEF Init, NoLostWakeup
<1>2. NoLostWakeup /\ [Next]_vars => NoLostWakeup'
  <2> SUFFICES ASSUME NoLostWakeup, [Next]_vars PROVE NoLostWakeup'
    OBVIOUS
  <2>1. CASE SendPacket \/ SendFailed \/ SendEnded
    <3>1. worker' \in {"notify", "notify_failed", "notify_ended"}
      BY <2>1 DEF SendPacket, SendFailed, SendEnded, Send
    <3> QED BY <3>1 DEF NoLostWakeup, After
  <2>2. CASE Notify
    BY <2>2 DEF Notify, NoLostWakeup
  <2>3. CASE Check \/ ReadBytes \/ ReadTimeout \/ ReadError
    <3>1. worker \notin DOMAIN After /\ UNCHANGED <<app, channel, activity>>
      BY <2>3 DEF Check, ReadBytes, ReadTimeout, ReadError, After
    <3> QED BY <3>1 DEF NoLostWakeup
  <2>4. CASE Wake \/ Close \/ Joined
    BY <2>4 DEF Wake, Close, Joined, NoLostWakeup
  <2>5. CASE Recv
    BY <2>5 DEF Recv, NoLostWakeup
  <2>6. CASE DeviceSends \/ UNCHANGED vars
    <3>1. UNCHANGED <<app, channel, activity, worker>>
      BY <2>6, Zenon DEF DeviceSends, vars
    <3> QED BY <3>1 DEF NoLostWakeup
  <2> QED BY <2>1, <2>2, <2>3, <2>4, <2>5, <2>6 DEF Next, Worker
<1> QED BY <1>1, <1>2, PTL DEF Spec

-----------------------------------------------------------------------------
(* The stream of packets: its invariant *)

Packets == [type : {"Packet"}, from : Endpoints, packet : Nat]
Events == Packets \cup {Failed, Ended}

\* The byte after b in the stream of an endpoint.
Follows(b, c) ==
    IF b.index = b.size
    THEN c.packet = b.packet + 1 /\ c.index = 1
    ELSE c.packet = b.packet /\ c.size = b.size /\ c.index = b.index + 1

\* b is a stretch of the stream of endpoint e that begins with a packet.
Stretch(b, e) ==
    /\ \A i \in 1..Len(b) : b[i].from = e
    /\ \A i \in 1..(Len(b) - 1) : Follows(b[i], b[i + 1])
    /\ Len(b) > 0 => b[1].index = 1

\* b has the bytes of packets n + 1 to last of endpoint e.
Remains(b, e, n, last) ==
    /\ Stretch(b, e)
    /\ IF Len(b) = 0
       THEN n = last
       ELSE /\ b[1].packet = n + 1
            /\ b[Len(b)].packet = last /\ b[Len(b)].index = b[Len(b)].size

ReaderType ==
    /\ sent \in [Endpoints -> Nat] /\ next_endpoint \in BOOLEAN
    /\ wire \in [Endpoints -> Seq(Octets)] /\ bytes \in [Endpoints -> Seq(Octets)]
    /\ received \in Seq(Events) /\ channel \in Seq(Events)
    /\ held \in Seq(Packets) /\ pending \in Seq(Packets)

\* The worker holds a packet only to send it, and reads only when it has framed
\* nothing that it did not send.
HeldToSend ==
    /\ Len(held) = IF worker = "send" THEN 1 ELSE 0
    /\ worker = "read" => Len(pending) = 0

\* n packets of endpoint e were framed, and the rest of its stream follows them.
Stream(e, n) ==
    /\ n <= sent[e] /\ HasFirst(Framed, e, n)
    /\ ~Stopped => Remains(bytes[e] \o wire[e], e, n, sent[e])

StreamInv == ReaderType /\ HeldToSend /\ \A e \in Endpoints : \E n \in Nat : Stream(e, n)
-----------------------------------------------------------------------------
(* What frame_packets computes *)

LEMMA Least ==
  ASSUME NEW T, T \subseteq Nat, T # {}
  PROVE  \E x \in T : \A y \in T : x <= y
<1> DEFINE R == {ss \in Nat \X Nat : ss[1] < ss[2]}
<1>1. IsWellFoundedOn(R, Nat)
  BY NatLessThanWellFounded DEF OpToRel
<1>2. \E x \in T : \A y \in T : ~(<<y, x>> \in R)
  <2> HIDE DEF R
  <2> QED BY <1>1, WFMin, Zenon
<1>3. PICK x \in T : \A y \in T : ~(<<y, x>> \in R)
  BY <1>2
<1>4. \A y \in T : ~(y < x)
  BY <1>3, Zenon
<1> QED BY <1>4

\* Induction over the natural numbers, for a set of them.
LEMMA Induct ==
  ASSUME NEW S, 0 \in S, \A n \in Nat : n \in S => n + 1 \in S
  PROVE  Nat \subseteq S
<1> SUFFICES ASSUME Nat \ S # {} PROVE FALSE
  OBVIOUS
<1>1. PICK x \in Nat \ S : \A y \in Nat \ S : x <= y
  BY Least, Zenon
<1> QED BY <1>1

\* One turn of the loop of frame_packets, when f does the others.
Turn(f, b) ==
    IF Len(b) < Header
    THEN [ok |-> TRUE, packets |-> <<>>, rest |-> b]
    ELSE LET length == b[Header].size IN
         IF length > MaxSize
         THEN [ok |-> FALSE, packets |-> <<>>, rest |-> <<>>]
         ELSE IF Len(b) < length
              THEN [ok |-> TRUE, packets |-> <<>>, rest |-> b]
              ELSE LET more == f[SubSeq(b, length + 1, Len(b))]
                   IN  [more EXCEPT !.packets = IF more.ok THEN <<Packet(b[1])>> \o @ ELSE @]

Short(n) == {b \in Seq(Octets) : Len(b) <= n}
Solves(f, n) == f = [b \in Short(n) |-> Turn(f, b)]

\* A turn leaves a shorter buffer to the others.
LEMMA TurnShortens ==
  ASSUME NEW b \in Seq(Octets), Header <= Len(b), b[Header].size <= Len(b)
  PROVE  /\ b[Header].size \in Nat /\ b[Header].size >= 2
         /\ SubSeq(b, b[Header].size + 1, Len(b)) \in Seq(Octets)
         /\ Len(SubSeq(b, b[Header].size + 1, Len(b))) = Len(b) - b[Header].size
         /\ \A i \in 1..(Len(b) - b[Header].size) :
              SubSeq(b, b[Header].size + 1, Len(b))[i] = b[b[Header].size + i]
<1>1. Header = 2 /\ Len(b) \in Nat /\ b[2] \in Octets
  BY DEF Header
<1>2. b[2].size \in Nat /\ b[2].size >= 2
  BY <1>1 DEF Octets
<1> DEFINE m == b[2].size + 1
<1>3. m \in Int /\ Len(b) \in Int /\ \A i \in m..Len(b) : b[i] \in Octets
  BY <1>1, <1>2
<1> HIDE DEF m
<1>4. /\ SubSeq(b, m, Len(b)) \in Seq(Octets)
      /\ Len(SubSeq(b, m, Len(b))) = IF m <= Len(b) THEN Len(b) - m + 1 ELSE 0
      /\ \A i \in 1 .. Len(b) - m + 1 : SubSeq(b, m, Len(b))[i] = b[m + i - 1]
  BY <1>3, SubSeqProperties
<1>5. Len(SubSeq(b, m, Len(b))) = Len(b) - b[2].size
  BY <1>1, <1>2, <1>4 DEF m
<1>6. \A i \in 1..(Len(b) - b[2].size) : SubSeq(b, m, Len(b))[i] = b[b[2].size + i]
  <2> SUFFICES ASSUME NEW i \in 1..(Len(b) - b[2].size)
               PROVE  SubSeq(b, m, Len(b))[i] = b[b[2].size + i]
    BY Zenon
  <2>1. i \in 1 .. Len(b) - m + 1 /\ m + i - 1 = b[2].size + i
    BY <1>1, <1>2 DEF m
  <2> QED BY <1>4, <2>1, SMTT(30)
<1> QED BY <1>1, <1>2, <1>4, <1>5, <1>6, Zenon DEF m

\* Two functions that agree on shorter buffers give the same turn.
LEMMA TurnsAgree ==
  ASSUME NEW f, NEW g, NEW b \in Seq(Octets), \A c \in Seq(Octets) : Len(c) < Len(b) => f[c] = g[c]
  PROVE  Turn(f, b) = Turn(g, b)
<1>1. CASE Len(b) < Header \/ b[Header].size > MaxSize \/ Len(b) < b[Header].size
  BY <1>1, Zenon DEF Turn
<1>2. CASE ~(Len(b) < Header \/ b[Header].size > MaxSize \/ Len(b) < b[Header].size)
  <2> DEFINE c == SubSeq(b, b[Header].size + 1, Len(b))
  <2>0. Len(b) \in Nat /\ Header = 2 /\ b[2] \in Octets
    BY <1>2 DEF Header
  <2>1. Header <= Len(b) /\ b[Header].size <= Len(b)
    BY <1>2, <2>0, SMTT(30) DEF Octets, Header
  <2>2. c \in Seq(Octets) /\ Len(c) < Len(b)
    BY <2>0, <2>1, TurnShortens
  <2>3. f[c] = g[c]
    BY <2>2, Zenon
  <2> QED BY <2>3, Zenon DEF Turn
<1> QED BY <1>1, <1>2

\* The recursion of frame_packets ends, on buffers up to any length.
LEMMA SolutionsExist == \A n \in Nat : \E f : Solves(f, n)
<1> DEFINE S == {n \in Nat : \E f : Solves(f, n)}
<1>1. 0 \in S
  <2> DEFINE f == [b \in Short(0) |-> Turn([c \in {} |-> c], b)]
  <2>1. ASSUME NEW b \in Short(0) PROVE Turn([c \in {} |-> c], b) = Turn(f, b)
    <3>1. b \in Seq(Octets) /\ Len(b) = 0 /\ \A c \in Seq(Octets) : ~(Len(c) < Len(b))
      BY DEF Short
    <3> QED BY <3>1, TurnsAgree, Zenon
  <2>2. Solves(f, 0)
    BY <2>1, Zenon DEF Solves
  <2> QED BY <2>2
<1>2. ASSUME NEW n \in Nat, n \in S PROVE n + 1 \in S
  <2>1. PICK f : f = [b \in Short(n) |-> Turn(f, b)]
    BY <1>2 DEF Solves
  <2> DEFINE g == [b \in Short(n + 1) |-> Turn(f, b)]
  <2>2. ASSUME NEW b \in Short(n + 1) PROVE Turn(f, b) = Turn(g, b)
    <3>1. ASSUME NEW c \in Seq(Octets), Len(c) < Len(b) PROVE f[c] = g[c]
      <4>1. c \in Short(n) /\ c \in Short(n + 1)
        BY <3>1 DEF Short
      <4> QED BY <4>1, <2>1, Zenon
    <3>2. b \in Seq(Octets)
      BY DEF Short
    <3> HIDE DEF g
    <3> QED BY <3>1, <3>2, TurnsAgree, Zenon
  <2>3. Solves(g, n + 1)
    BY <2>2, Zenon DEF Solves
  <2> QED BY <2>3
<1> HIDE DEF S
<1>3. Nat \subseteq S
  BY <1>1, <1>2, Induct, Zenon
<1> QED BY <1>3 DEF S

LEMMA SolutionsAgree ==
  ASSUME NEW f, NEW g, NEW m \in Nat, NEW n \in Nat, Solves(f, m), Solves(g, n),
         NEW b \in Seq(Octets), Len(b) <= m, Len(b) <= n
  PROVE  f[b] = g[b]
<1> DEFINE S == {k \in Nat : \A c \in Seq(Octets) : Len(c) < k /\ Len(c) <= m /\ Len(c) <= n => f[c] = g[c]}
<1>1. 0 \in S
  OBVIOUS
<1>2. ASSUME NEW k \in Nat, k \in S PROVE k + 1 \in S
  <2> SUFFICES ASSUME NEW c \in Seq(Octets), Len(c) < k + 1, Len(c) <= m, Len(c) <= n PROVE f[c] = g[c]
    OBVIOUS
  <2>1. c \in Short(m) /\ c \in Short(n)
    BY DEF Short
  <2>2. f[c] = Turn(f, c) /\ g[c] = Turn(g, c)
    BY <2>1, Zenon DEF Solves
  <2>3. \A d \in Seq(Octets) : Len(d) < Len(c) => f[d] = g[d]
    <3> SUFFICES ASSUME NEW d \in Seq(Octets), Len(d) < Len(c) PROVE f[d] = g[d]
      OBVIOUS
    <3>1. Len(d) < k /\ Len(d) <= m /\ Len(d) <= n
      OBVIOUS
    <3> QED BY <1>2, <3>1
  <2>4. Turn(f, c) = Turn(g, c)
    BY <2>3, TurnsAgree, Zenon
  <2> QED BY <2>2, <2>4
<1> HIDE DEF S
<1>3. Nat \subseteq S
  BY <1>1, <1>2, Induct, Zenon
<1>4. Len(b) + 1 \in S /\ Len(b) < Len(b) + 1
  BY <1>3
<1> QED BY <1>4 DEF S

\* The recursive definition of frame_packets has the meaning it reads as.
LEMMA FramesByTurns == \A b \in Seq(Octets) : frame_packets[b] = Turn(frame_packets, b)
<1> DEFINE Of(n) == CHOOSE f : Solves(f, n)
           F == [b \in Seq(Octets) |-> Of(Len(b))[b]]
<1>1. \A n \in Nat : Solves(Of(n), n)
  BY SolutionsExist, Zenon
<1> HIDE DEF Of
<1>2. ASSUME NEW b \in Seq(Octets) PROVE F[b] = Turn(F, b)
  <2>0. Len(b) \in Nat
    OBVIOUS
  <2>1. Solves(Of(Len(b)), Len(b)) /\ b \in Short(Len(b))
    BY <1>1, <2>0 DEF Short
  <2>2. F[b] = Turn(Of(Len(b)), b)
    BY <2>1, Zenon DEF Solves
  <2>3. ASSUME NEW c \in Seq(Octets), Len(c) < Len(b) PROVE Of(Len(b))[c] = F[c]
    <3>1. Len(c) \in Nat /\ Len(c) <= Len(b) /\ Len(c) <= Len(c)
      BY <2>0, <2>3
    <3>2. Solves(Of(Len(c)), Len(c))
      BY <1>1, <3>1
    <3>3. Of(Len(b))[c] = Of(Len(c))[c]
      BY <2>0, <2>1, <3>1, <3>2, SolutionsAgree, ZenonT(40)
    <3> QED BY <3>3
  <2> HIDE DEF F
  <2>4. Turn(Of(Len(b)), b) = Turn(F, b)
    BY <2>3, TurnsAgree, Zenon
  <2> QED BY <2>2, <2>4
<1>3. F = [b \in Seq(Octets) |-> Turn(F, b)]
  BY <1>2, Zenon
<1> HIDE DEF F
<1>4. \E f : f = [b \in Seq(Octets) |-> Turn(f, b)]
  BY <1>3, Zenon
<1>5. frame_packets = CHOOSE f : f = [b \in Seq(Octets) |-> Turn(f, b)]
  BY Zenon DEF frame_packets, Turn
<1> DEFINE G == frame_packets
<1>6. G = CHOOSE f : f = [b \in Seq(Octets) |-> Turn(f, b)]
  BY <1>5
<1> HIDE DEF G
<1>7. G = [b \in Seq(Octets) |-> Turn(G, b)]
  BY <1>4, <1>6, Zenon
<1> QED BY <1>7, Zenon DEF G

\* What frame_packets promises of a stretch b of the stream: the packets of its
\* first m bytes, whole and in order, and the bytes after them.
Results == [ok : BOOLEAN, packets : Seq(Packets), rest : Seq(Octets)]
Splits(f, b, e, m) ==
    /\ m \in 0..Len(b) /\ Len(f.rest) = Len(b) - m
    /\ \A i \in 1..Len(f.rest) : f.rest[i] = b[m + i]
    /\ \A i \in 1..Len(f.packets) :
        f.packets[i].from = e /\ f.packets[i].packet = b[1].packet + i - 1
    /\ m = 0 => Len(f.packets) = 0
    /\ m > 0 => b[m].index = b[m].size /\ b[m].packet = b[1].packet + Len(f.packets) - 1
Right(f, b, e) == f \in Results /\ (f.ok => \E m \in Nat : Splits(f, b, e, m))

\* A stretch begins with the bytes of its first packet.
LEMMA FirstPacket ==
  ASSUME NEW e \in Endpoints, NEW b \in Seq(Octets), Stretch(b, e), Len(b) > 0,
         NEW i \in 1..Len(b), i <= b[1].size
  PROVE  b[i].index = i /\ b[i].packet = b[1].packet /\ b[i].size = b[1].size
<1> DEFINE First(k) == b[k].index = k /\ b[k].packet = b[1].packet /\ b[k].size = b[1].size
           S == {n \in Nat : n + 1 <= Len(b) /\ n + 1 <= b[1].size => First(n + 1)}
<1>0. Len(b) \in Nat /\ \A k \in 1..Len(b) : b[k] \in Octets
  OBVIOUS
<1>1. 0 \in S
  BY DEF Stretch
<1>2. ASSUME NEW n \in Nat, n \in S PROVE n + 1 \in S
  <2> SUFFICES ASSUME n + 1 + 1 <= Len(b), n + 1 + 1 <= b[1].size PROVE First(n + 1 + 1)
    OBVIOUS
  <2>1. b[1] \in Octets /\ b[1].size \in Nat
    BY <1>0, SMTT(30) DEF Octets
  <2>2. First(n + 1) /\ n + 1 \in 1..(Len(b) - 1)
    BY <1>0, <1>2, <2>1
  <2>3. Follows(b[n + 1], b[n + 1 + 1])
    BY <2>2 DEF Stretch
  <2>4. b[n + 1].index # b[n + 1].size
    BY <2>1, <2>2
  <2> QED BY <2>2, <2>3, <2>4 DEF Follows
<1> HIDE DEF S
<1>3. Nat \subseteq S
  BY <1>1, <1>2, Induct, Zenon
<1>4. i - 1 \in S /\ i - 1 + 1 = i
  BY <1>0, <1>3
<1> QED BY <1>4 DEF S

\* The rest of a stretch after a whole packet is a stretch.
LEMMA StretchAfter ==
  ASSUME NEW e \in Endpoints, NEW b \in Seq(Octets), Stretch(b, e), NEW m \in 0..Len(b),
         m > 0 => b[m].index = b[m].size,
         NEW c \in Seq(Octets), Len(c) = Len(b) - m, \A i \in 1..Len(c) : c[i] = b[m + i]
  PROVE  Stretch(c, e) /\ (m > 0 /\ Len(c) > 0 => c[1].packet = b[m].packet + 1)
<1>0. Len(b) \in Nat /\ Len(c) \in Nat /\ m \in Nat
  OBVIOUS
<1>1. \A i \in 1..Len(c) : c[i].from = e
  BY <1>0 DEF Stretch
<1>2. ASSUME NEW i \in 1..(Len(c) - 1) PROVE Follows(c[i], c[i + 1])
  <2>1. m + i \in 1..(Len(b) - 1) /\ i \in 1..Len(c) /\ i + 1 \in 1..Len(c) /\ m + (i + 1) = m + i + 1
    BY <1>0
  <2>2. Follows(b[m + i], b[m + i + 1])
    BY <2>1 DEF Stretch
  <2>3. c[i] = b[m + i] /\ c[i + 1] = b[m + i + 1]
    BY <2>1
  <2> QED BY <2>2, <2>3
<1>3. CASE m > 0 /\ Len(c) > 0
  <2>1. m \in 1..(Len(b) - 1) /\ 1 \in 1..Len(c)
    BY <1>0, <1>3
  <2>2. Follows(b[m], b[m + 1]) /\ c[1] = b[m + 1] /\ b[m].index = b[m].size
    BY <1>3, <2>1 DEF Stretch
  <2> QED BY <1>1, <1>2, <2>2 DEF Follows, Stretch
<1>4. CASE m = 0 /\ Len(c) > 0
  <2>1. 1 \in 1..Len(c) /\ 0 + 1 = 1 /\ Len(b) > 0
    BY <1>0, <1>4
  <2>2. c[1] = b[1]
    BY <1>4, <2>1
  <2> QED BY <1>1, <1>2, <1>4, <2>1, <2>2 DEF Stretch
<1>5. CASE Len(c) = 0
  BY <1>1, <1>2, <1>5 DEF Stretch
<1>6. (m > 0 /\ Len(c) > 0) \/ (m = 0 /\ Len(c) > 0) \/ Len(c) = 0
  BY <1>0
<1> QED BY <1>3, <1>4, <1>5, <1>6, Zenon

\* The first packet of b, then what the other turns frame after it.
LEMMA SplitsAfterFirst ==
  ASSUME NEW e \in Endpoints, NEW b \in Seq(Octets), Stretch(b, e), Len(b) >= 2, b[1].size <= Len(b),
         NEW c \in Seq(Octets), Len(c) = Len(b) - b[1].size,
         \A i \in 1..Len(c) : c[i] = b[b[1].size + i],
         NEW more \in Results, NEW n \in Nat, Splits(more, c, e, n),
         NEW f \in Results, f.rest = more.rest, f.packets = <<Packet(b[1])>> \o more.packets
  PROVE  \E m \in Nat : Splits(f, b, e, m)
<1> DEFINE size == b[1].size
           m == size + n
           p == more.packets
<1>0. /\ b[1] \in Octets /\ size \in Nat /\ size >= 2 /\ Len(b) \in Nat /\ Len(c) \in Nat
      /\ b[1].from = e /\ b[1].packet \in Nat /\ p \in Seq(Packets) /\ Len(p) \in Nat
  <2>1. Len(b) \in Nat /\ Len(c) \in Nat /\ 1 \in 1..Len(b)
    OBVIOUS
  <2>2. b[1] \in Octets
    BY <2>1
  <2>3. b[1].size \in Nat /\ b[1].size >= 2 /\ b[1].packet \in Nat
    BY <2>2, SMTT(30) DEF Octets, Header
  <2>4. b[1].from = e
    BY <2>1 DEF Stretch
  <2>5. p \in Seq(Packets)
    BY DEF Results
  <2>6. Len(p) \in Nat
    BY <2>5
  <2> QED BY <2>1, <2>2, <2>3, <2>4, <2>5, <2>6
<1>1. /\ b[size].index = size /\ b[size].packet = b[1].packet /\ b[size].size = size
  <2>1. size \in 1..Len(b) /\ size <= b[1].size /\ Len(b) > 0
    BY <1>0, SMTT(30)
  <2> QED BY <2>1, FirstPacket
<1>2. Stretch(c, e) /\ (Len(c) > 0 => c[1].packet = b[1].packet + 1)
  <2>1. size \in 0..Len(b) /\ size > 0
    BY <1>0
  <2>2. b[size].index = b[size].size /\ Len(c) = Len(b) - size /\ \A i \in 1..Len(c) : c[i] = b[size + i]
    BY <1>1
  <2> HIDE DEF size
  <2>3. Stretch(c, e) /\ (Len(c) > 0 => c[1].packet = b[size].packet + 1)
    BY <2>1, <2>2, StretchAfter, ZenonT(40)
  <2> QED BY <1>1, <2>3
<1>3. n \in 0..Len(c) /\ m \in Nat /\ m \in 0..Len(b) /\ m > 0
  <2>1. n \in 0..Len(c)
    BY DEF Splits
  <2>2. Len(c) = Len(b) - size
    OBVIOUS
  <2> HIDE DEF size
  <2> QED BY <1>0, <2>1, <2>2, SMTT(30)
<1>4. Len(f.rest) = Len(b) - m /\ \A i \in 1..Len(f.rest) : f.rest[i] = b[m + i]
  <2>1. Len(f.rest) = Len(c) - n /\ \A i \in 1..Len(f.rest) : f.rest[i] = c[n + i]
    BY Zenon DEF Splits
  <2>2. ASSUME NEW i \in 1..Len(f.rest) PROVE f.rest[i] = b[m + i]
    <3>1. n + i \in 1..Len(c) /\ size + (n + i) = m + i
      BY <1>0, <1>3, <2>1, SMTT(30)
    <3>2. f.rest[i] = c[n + i]
      BY <2>1
    <3>3. c[n + i] = b[size + (n + i)]
      BY <3>1
    <3> QED BY <3>1, <3>2, <3>3
  <2> QED BY <1>0, <1>3, <2>1, <2>2
<1> DEFINE h == Packet(b[1])
<1>5. h \in Packets /\ h.from = e /\ h.packet = b[1].packet
  BY <1>0 DEF Packet, Packets
<1>6. Len(f.packets) = Len(p) + 1 /\ f.packets[1] = h /\ \A i \in 1..Len(p) : f.packets[i + 1] = p[i]
  <2> HIDE DEF h
  <2>1. <<h>> \in Seq(Packets) /\ Len(<<h>>) = 1 /\ <<h>>[1] = h
    BY <1>5
  <2>2. f.packets = <<h>> \o p
    BY DEF h
  <2> HIDE DEF p
  <2> QED BY <1>0, <2>1, <2>2, SMTT(30)
<1> HIDE DEF h
<1>7. Len(p) > 0 => n > 0 /\ Len(c) > 0
  BY <1>0, <1>3, SMTT(30) DEF Splits
<1>8. ASSUME NEW i \in 1..Len(f.packets)
      PROVE  f.packets[i].from = e /\ f.packets[i].packet = b[1].packet + i - 1
  <2>1. CASE i = 1
    BY <1>0, <1>5, <1>6, <2>1
  <2>2. CASE i # 1
    <3>1. i - 1 \in 1..Len(p) /\ i - 1 + 1 = i
      BY <1>0, <1>6, <2>2
    <3>2. p[i - 1].from = e /\ p[i - 1].packet = c[1].packet + (i - 1) - 1
      BY <3>1 DEF Splits
    <3>3. c[1].packet = b[1].packet + 1
      BY <1>0, <1>2, <1>7, <3>1
    <3>4. f.packets[i] = p[i - 1]
      BY <1>6, <3>1
    <3>5. (b[1].packet + 1) + (i - 1) - 1 = b[1].packet + i - 1
      <4> DEFINE q == b[1].packet
      <4>1. q \in Nat /\ i \in Int
        BY <1>0
      <4> HIDE DEF q
      <4>2. (q + 1) + (i - 1) - 1 = q + i - 1
        BY <4>1
      <4> QED BY <4>2 DEF q
    <3> QED BY <3>2, <3>3, <3>4, <3>5
  <2> QED BY <2>1, <2>2
<1>9. b[m].index = b[m].size /\ b[m].packet = b[1].packet + Len(f.packets) - 1
  <2>1. CASE n = 0
    <3>1. Len(p) = 0 /\ m = size
      BY <1>0, <2>1 DEF Splits
    <3>2. Len(f.packets) = 1 /\ b[1].packet + 1 - 1 = b[1].packet
      BY <1>0, <1>6, <3>1
    <3> HIDE DEF m, size
    <3> QED BY <1>1, <3>1, <3>2
  <2>2. CASE n > 0
    <3>1. c[n].index = c[n].size /\ c[n].packet = c[1].packet + Len(p) - 1
      BY <2>2 DEF Splits
    <3>2. n \in 1..Len(c) /\ c[n] = b[m] /\ Len(c) > 0
      BY <1>0, <1>3, <2>2
    <3>3. c[1].packet = b[1].packet + 1
      BY <1>2, <3>2
    <3>4. (b[1].packet + 1) + Len(p) - 1 = b[1].packet + Len(f.packets) - 1
      BY <1>0, <1>6
    <3> HIDE DEF m, p
    <3> QED BY <3>1, <3>2, <3>3, <3>4
  <2> QED BY <1>3, <2>1, <2>2
<1> HIDE DEF m, p, size
<1>10. Splits(f, b, e, m)
  BY <1>3, <1>4, <1>8, <1>9, SMTT(30) DEF Splits
<1> QED BY <1>3, <1>10

\* However a stretch of the stream ends, frame_packets splits it at the end of
\* a packet, or refuses a packet that is too long.
LEMMA Framing ==
  ASSUME NEW e \in Endpoints, NEW b \in Seq(Octets), Stretch(b, e)
  PROVE  Right(frame_packets[b], b, e)
<1> DEFINE S == {n \in Nat : \A c \in Seq(Octets) :
                   Len(c) < n /\ Stretch(c, e) => Right(frame_packets[c], c, e)}
<1>1. 0 \in S
  OBVIOUS
<1>2. ASSUME NEW n \in Nat, n \in S PROVE n + 1 \in S
  <2> SUFFICES ASSUME NEW c \in Seq(Octets), Len(c) < n + 1, Stretch(c, e)
               PROVE  Right(frame_packets[c], c, e)
    OBVIOUS
  <2> DEFINE f == frame_packets[c]
  <2>0. f = Turn(frame_packets, c) /\ Len(c) \in Nat /\ Header = 2 /\ <<>> \in Seq(Octets) /\ <<>> \in Seq(Packets)
    BY FramesByTurns DEF Header
  <2>1. CASE Len(c) < Header \/ (Len(c) >= Header /\ ~(c[Header].size > MaxSize) /\ Len(c) < c[Header].size)
    <3>1. f = [ok |-> TRUE, packets |-> <<>>, rest |-> c]
      <4> HIDE DEF f
      <4>1. ~(Len(c) < Header) => Len(c) >= Header
        BY <2>0
      <4> QED BY <2>0, <2>1, <4>1, Zenon DEF Turn
    <3> HIDE DEF f
    <3>2. f \in Results /\ Splits(f, c, e, 0)
      BY <2>0, <3>1 DEF Results, Splits
    <3> QED BY <3>2 DEF Right, f
  <2>2. CASE Len(c) >= Header /\ c[Header].size > MaxSize
    <3>1. f = [ok |-> FALSE, packets |-> <<>>, rest |-> <<>>]
      <4> HIDE DEF f
      <4>1. ~(Len(c) < Header)
        BY <2>0, <2>2
      <4> QED BY <2>0, <2>2, <4>1, Zenon DEF Turn
    <3> HIDE DEF f
    <3>2. f \in Results /\ ~f.ok
      BY <2>0, <3>1 DEF Results
    <3> QED BY <3>2 DEF Right, f
  <2>3. CASE Len(c) >= Header /\ ~(c[Header].size > MaxSize) /\ ~(Len(c) < c[Header].size)
    <3> DEFINE size == c[1].size
               d == SubSeq(c, c[Header].size + 1, Len(c))
               more == frame_packets[d]
    <3>1. c[1] \in Octets /\ c[1].index = 1 /\ size \in Nat /\ size >= 2 /\ c[2] \in Octets /\ c[2].size \in Nat
      <4>1. 1 \in 1..Len(c) /\ 2 \in 1..Len(c) /\ Len(c) > 0
        BY <2>0, <2>3
      <4>2. c[1] \in Octets /\ c[2] \in Octets
        BY <4>1
      <4>3. size \in Nat /\ size >= 2 /\ c[2].size \in Nat
        BY <4>2, SMTT(30) DEF Octets, Header
      <4> QED BY <4>1, <4>2, <4>3 DEF Stretch
    <3>2. c[Header].size = size
      <4>1. 2 \in 1..Len(c) /\ 2 <= c[1].size /\ Len(c) > 0
        BY <2>0, <2>3, <3>1
      <4> QED BY <2>0, <4>1, FirstPacket
    <3>3. size <= Len(c) /\ Header <= Len(c) /\ c[Header].size <= Len(c)
      BY <2>0, <2>3, <3>1, <3>2
    <3>4. /\ d \in Seq(Octets) /\ Len(d) = Len(c) - size
          /\ \A i \in 1..(Len(c) - size) : d[i] = c[size + i]
      <4>1. Len(d) = Len(c) - c[Header].size /\ d \in Seq(Octets)
        BY <3>3, TurnShortens
      <4>2. \A i \in 1..(Len(c) - c[Header].size) : d[i] = c[c[Header].size + i]
        BY <3>3, TurnShortens, Zenon
      <4> HIDE DEF d, size
      <4> QED BY <3>2, <4>1, <4>2
    <3> HIDE DEF d
    <3>5. Stretch(d, e)
      <4>1. c[size].index = c[size].size /\ size \in 0..Len(c)
        BY <2>0, <3>1, <3>3, FirstPacket
      <4>2. Len(d) = Len(c) - size /\ \A i \in 1..Len(d) : d[i] = c[size + i]
        BY <3>4
      <4> HIDE DEF size
      <4> QED BY <3>4, <4>1, <4>2, StretchAfter, Zenon
    <3>6. Right(more, d, e)
      <4>1. Len(d) < n
        BY <2>0, <3>1, <3>4
      <4> QED BY <1>2, <3>4, <3>5, <4>1
    <3>7. f = [more EXCEPT !.packets = IF more.ok THEN <<Packet(c[1])>> \o @ ELSE @]
      <4> HIDE DEF f
      <4>1. ~(Len(c) < Header)
        BY <2>0, <2>3
      <4> QED BY <2>0, <2>3, <4>1, Zenon DEF Turn, d
    <3> HIDE DEF f, more
    <3>8. more \in Results /\ more.packets \in Seq(Packets)
      BY <3>6 DEF Right, Results
    <3>9. CASE ~more.ok
      <4>1. f.ok = more.ok /\ f \in Results
        BY <3>7, <3>8, <3>9, SMTT(30) DEF Results
      <4> QED BY <3>9, <4>1 DEF Right, f
    <3>10. CASE more.ok
      <4>0. Packet(c[1]) \in Packets
        BY <3>1 DEF Packet, Packets, Octets
      <4>1. <<Packet(c[1])>> \o more.packets \in Seq(Packets)
        BY <3>8, <4>0
      <4>2. f \in Results /\ f.rest = more.rest /\ f.packets = <<Packet(c[1])>> \o more.packets
        BY <3>7, <3>8, <3>10, <4>1, Zenon DEF Results
      <4>3. PICK k \in Nat : Splits(more, d, e, k)
        BY <3>6, <3>10 DEF Right
      <4>4. \E m \in Nat : Splits(f, c, e, m)
        <5>1. Len(c) >= 2
          BY <2>0, <2>3
        <5> QED BY <3>3, <3>4, <3>8, <4>2, <4>3, <5>1, SplitsAfterFirst, Zenon
      <4> QED BY <4>2, <4>4 DEF Right, f
    <3> QED BY <3>9, <3>10
  <2>4. Len(c) < Header \/ Len(c) >= Header
    BY <2>0
  <2> QED BY <2>1, <2>2, <2>3, <2>4, Zenon
<1> HIDE DEF S
<1>3. Nat \subseteq S
  BY <1>1, <1>2, Induct, Zenon
<1>4. Len(b) + 1 \in S /\ Len(b) < Len(b) + 1
  BY <1>3
<1> QED BY <1>4 DEF S

-----------------------------------------------------------------------------
(* The packets framed *)

\* More packets of the endpoint follow those that q has.
LEMMA HasFirstMore ==
  ASSUME NEW q \in Seq(Events), NEW p \in Seq(Packets), NEW e \in Endpoints, NEW n \in Nat,
         HasFirst(q, e, n), \A i \in 1..Len(p) : p[i].from = e /\ p[i].packet = n + i
  PROVE  HasFirst(q \o p, e, n + Len(p))
<1> DEFINE r == q \o p
<1>0. /\ Len(q) \in Nat /\ Len(p) \in Nat /\ Len(r) = Len(q) + Len(p)
      /\ \A i \in 1..Len(q) : r[i] = q[i]
      /\ \A i \in 1..Len(p) : r[Len(q) + i] = p[i] /\ p[i].type = "Packet"
  <2>1. p \in Seq(Events)
    BY SeqMonotonic DEF Events
  <2>2. \A i \in 1..Len(p) : p[i].type = "Packet"
    <3>1. \A i \in 1..Len(p) : p[i] \in Packets
      OBVIOUS
    <3> QED BY <3>1 DEF Packets
  <2> QED BY <2>1, <2>2
<1> HIDE DEF r
<1>1. ASSUME NEW i \in 1..Len(q)
      PROVE  i \in Places(r, e) <=> i \in Places(q, e)
  BY <1>0 DEF Places
<1>2. \A i \in 1..Len(p) : Len(q) + i \in Places(r, e) /\ r[Len(q) + i].packet = n + i
  <2> SUFFICES ASSUME NEW i \in 1..Len(p) PROVE Len(q) + i \in Places(r, e) /\ r[Len(q) + i].packet = n + i
    OBVIOUS
  <2>1. Len(q) + i \in 1..Len(r)
    BY <1>0
  <2>2. r[Len(q) + i] = p[i] /\ p[i].type = "Packet" /\ p[i].from = e /\ p[i].packet = n + i
    BY <1>0
  <2> QED BY <2>1, <2>2 DEF Places
<1>3. ASSUME NEW i \in Places(r, e)
      PROVE  \/ i \in Places(q, e) /\ r[i] = q[i] /\ i <= Len(q) /\ r[i].packet \in 1..n
             \/ \E j \in 1..Len(p) : i = Len(q) + j /\ r[i].packet = n + j
  <2>1. i \in 1..Len(r)
    BY DEF Places
  <2>2. CASE i <= Len(q)
    <3>1. i \in 1..Len(q)
      BY <1>0, <2>1, <2>2
    <3>2. i \in Places(q, e) /\ r[i] = q[i]
      BY <1>0, <1>1, <3>1
    <3> QED BY <2>2, <3>2 DEF HasFirst
  <2>3. CASE i > Len(q)
    <3>1. i - Len(q) \in 1..Len(p) /\ i = Len(q) + (i - Len(q))
      BY <1>0, <2>1, <2>3
    <3> QED BY <1>2, <3>1
  <2> QED BY <1>0, <2>1, <2>2, <2>3
<1>4. \A i \in Places(r, e) : r[i].packet \in 1..(n + Len(p))
  BY <1>0, <1>3
<1>5. ASSUME NEW k \in 1..(n + Len(p)) PROVE \E i \in Places(r, e) : r[i].packet = k
  <2>1. CASE k <= n
    <3>1. PICK i \in Places(q, e) : q[i].packet = k
      BY <2>1 DEF HasFirst
    <3>2. i \in 1..Len(q)
      BY DEF Places
    <3> QED BY <1>0, <1>1, <3>1, <3>2
  <2>2. CASE k > n
    <3>1. k - n \in 1..Len(p) /\ n + (k - n) = k
      BY <1>0, <2>2
    <3> QED BY <1>2, <3>1, Zenon
  <2> QED BY <1>0, <2>1, <2>2
<1>6. ASSUME NEW i \in Places(r, e), NEW j \in Places(r, e), i < j
      PROVE  r[i].packet < r[j].packet
  <2>0. i \in Int /\ j \in Int
    BY DEF Places
  <2>1. CASE j \in Places(q, e) /\ r[j] = q[j] /\ j <= Len(q)
    <3>1. i \in Places(q, e) /\ r[i] = q[i]
      <4>1. i <= Len(q)
        BY <1>0, <1>6, <2>0, <2>1
      <4> QED BY <1>0, <1>3, <2>0, <4>1
    <3> QED BY <1>6, <2>1, <3>1 DEF HasFirst
  <2>2. CASE \E k \in 1..Len(p) : j = Len(q) + k /\ r[j].packet = n + k
    <3>1. PICK k \in 1..Len(p) : j = Len(q) + k /\ r[j].packet = n + k
      BY <2>2
    <3>2. CASE r[i].packet \in 1..n
      BY <3>1, <3>2
    <3>3. CASE \E l \in 1..Len(p) : i = Len(q) + l /\ r[i].packet = n + l
      BY <1>0, <1>6, <3>1, <3>3
    <3> QED BY <1>3, <3>2, <3>3
  <2> QED BY <1>3, <2>1, <2>2
<1>7. {r[i].packet : i \in Places(r, e)} = 1..(n + Len(p))
  BY <1>4, <1>5, Zenon
<1> QED BY <1>6, <1>7, Zenon DEF HasFirst, r

\* Packets of the other endpoint, or what is no packet, come in between.
Widens(q, r, k, w) ==
    /\ k \in 0..Len(q) /\ w \in Nat /\ Len(q) \in Nat /\ Len(r) = Len(q) + w
    /\ \A i \in 1..k : r[i] = q[i]
    /\ \A i \in (k + 1)..Len(q) : r[i + w] = q[i]

LEMMA HasFirstWider ==
  ASSUME NEW q, NEW r, NEW k, NEW w, Widens(q, r, k, w), NEW e \in Endpoints, NEW n \in Nat,
         \A i \in (k + 1)..(k + w) : i \notin Places(r, e), HasFirst(q, e, n)
  PROVE  HasFirst(r, e, n)
<1> DEFINE to(i) == IF i <= k THEN i ELSE i + w
<1>0. k \in Nat /\ k <= Len(q) /\ w \in Nat /\ Len(q) \in Nat /\ Len(r) = Len(q) + w
  BY DEF Widens
<1>1. ASSUME NEW i \in Places(q, e) PROVE to(i) \in Places(r, e) /\ r[to(i)] = q[i] /\ i \in Int
  <2>1. i \in 1..Len(q) /\ q[i].type = "Packet" /\ q[i].from = e
    BY DEF Places
  <2>2. r[to(i)] = q[i] /\ to(i) \in 1..Len(r)
    BY <1>0, <2>1, SMTT(30) DEF Widens
  <2> HIDE DEF to
  <2> QED BY <2>1, <2>2 DEF Places
<1>2. ASSUME NEW j \in Places(r, e) PROVE \E i \in Places(q, e) : j = to(i)
  <2>1. j \in 1..Len(r) /\ r[j].type = "Packet" /\ r[j].from = e /\ j \notin (k + 1)..(k + w)
    BY DEF Places
  <2>2. CASE j <= k
    <3>1. j \in 1..Len(q) /\ r[j] = q[j]
      BY <1>0, <2>1, <2>2 DEF Widens
    <3> QED BY <2>1, <2>2, <3>1 DEF Places
  <2>3. CASE j > k
    <3>1. j - w \in (k + 1)..Len(q) /\ (j - w) + w = j /\ ~(j - w <= k)
      BY <1>0, <2>1, <2>3
    <3>2. r[j] = q[j - w] /\ j - w \in 1..Len(q)
      BY <1>0, <3>1 DEF Widens
    <3> QED BY <2>1, <3>1, <3>2 DEF Places
  <2> QED BY <1>0, <2>1, <2>2, <2>3
<1>3. {r[j].packet : j \in Places(r, e)} = {q[i].packet : i \in Places(q, e)}
  <2> HIDE DEF to
  <2>1. \A i \in Places(q, e) : \E j \in Places(r, e) : r[j].packet = q[i].packet
    BY <1>1
  <2>2. \A j \in Places(r, e) : \E i \in Places(q, e) : r[j].packet = q[i].packet
    BY <1>1, <1>2
  <2> QED BY <2>1, <2>2, ZenonT(40)
<1>4. ASSUME NEW j \in Places(r, e), NEW l \in Places(r, e), j < l PROVE r[j].packet < r[l].packet
  <2>1. PICK i \in Places(q, e) : j = to(i)
    BY <1>2
  <2>2. PICK m \in Places(q, e) : l = to(m)
    BY <1>2
  <2>3. r[j] = q[i] /\ r[l] = q[m] /\ i \in Int /\ m \in Int
    BY <1>1, <2>1, <2>2
  <2>4. i < m
    BY <1>0, <1>4, <2>1, <2>2, <2>3
  <2> QED BY <2>3, <2>4 DEF HasFirst
<1> QED BY <1>3, <1>4 DEF HasFirst

-----------------------------------------------------------------------------
(* The bytes that remain *)

Joins(x, y, z) ==
    /\ Len(x) \in Nat /\ Len(y) \in Nat /\ Len(z) = Len(x) + Len(y)
    /\ \A i \in 1..Len(x) : z[i] = x[i]
    /\ \A i \in 1..Len(y) : z[Len(x) + i] = y[i]

LEMMA Join ==
  ASSUME NEW T
  PROVE  \A x, y \in Seq(T) : x \o y \in Seq(T) /\ Joins(x, y, x \o y)
BY DEF Joins

\* What a transfer takes from the wire, and what it leaves there.
LEMMA Cut ==
  ASSUME NEW T, NEW w \in Seq(T), NEW k \in 0..Len(w)
  PROVE  /\ Len(w) \in Nat /\ k \in Nat
         /\ SubSeq(w, 1, k) \in Seq(T) /\ Len(SubSeq(w, 1, k)) = k
         /\ \A i \in 1..k : SubSeq(w, 1, k)[i] = w[i]
         /\ SubSeq(w, k + 1, Len(w)) \in Seq(T) /\ Len(SubSeq(w, k + 1, Len(w))) = Len(w) - k
         /\ \A i \in 1..(Len(w) - k) : SubSeq(w, k + 1, Len(w))[i] = w[k + i]
<1>1. Len(w) \in Nat /\ k \in Int /\ k + 1 \in Int /\ Len(w) \in Int /\ 1 \in Int
  OBVIOUS
<1>2. \A i \in 1..Len(w) : w[i] \in T
  OBVIOUS
<1>3. (\A i \in 1..k : w[i] \in T) /\ (\A i \in (k + 1)..Len(w) : w[i] \in T)
  BY <1>1, <1>2
<1>4. /\ SubSeq(w, 1, k) \in Seq(T)
      /\ Len(SubSeq(w, 1, k)) = IF 1 <= k THEN k - 1 + 1 ELSE 0
      /\ \A i \in 1 .. k - 1 + 1 : SubSeq(w, 1, k)[i] = w[1 + i - 1]
  BY <1>1, <1>3, SubSeqProperties
<1>5. /\ SubSeq(w, k + 1, Len(w)) \in Seq(T)
      /\ Len(SubSeq(w, k + 1, Len(w))) = IF k + 1 <= Len(w) THEN Len(w) - (k + 1) + 1 ELSE 0
      /\ \A i \in 1 .. Len(w) - (k + 1) + 1 : SubSeq(w, k + 1, Len(w))[i] = w[(k + 1) + i - 1]
  BY <1>1, <1>3, SubSeqProperties
<1>6. \A i \in 1..k : i \in 1 .. k - 1 + 1 /\ 1 + i - 1 = i
  BY <1>1
<1>7. \A i \in 1..(Len(w) - k) : i \in 1 .. Len(w) - (k + 1) + 1 /\ (k + 1) + i - 1 = k + i
  BY <1>1
<1>8. Len(SubSeq(w, 1, k)) = k /\ Len(SubSeq(w, k + 1, Len(w))) = Len(w) - k
  BY <1>1, <1>4, <1>5
<1>9. \A i \in 1..k : SubSeq(w, 1, k)[i] = w[i]
  BY <1>4, <1>6
<1>10. \A i \in 1..(Len(w) - k) : SubSeq(w, k + 1, Len(w))[i] = w[k + i]
  BY <1>5, <1>7
<1>11. k \in Nat
  OBVIOUS
<1> QED BY <1>1, <1>4, <1>5, <1>8, <1>9, <1>10, <1>11, Zenon

\* The numbers of the packets do not fall along a stretch of the stream.
LEMMA PacketsGrow ==
  ASSUME NEW e \in Endpoints, NEW b \in Seq(Octets), Stretch(b, e), NEW i \in 1..Len(b)
  PROVE  b[1].packet <= b[i].packet
<1> DEFINE S == {n \in Nat : n + 1 <= Len(b) => b[1].packet <= b[n + 1].packet}
<1>0. Len(b) \in Nat /\ \A k \in 1..Len(b) : b[k] \in Octets /\ b[k].packet \in Nat
  <2>1. Len(b) \in Nat /\ \A k \in 1..Len(b) : b[k] \in Octets
    OBVIOUS
  <2> QED BY <2>1, SMTT(30) DEF Octets
<1>1. 0 \in S
  BY <1>0
<1>2. ASSUME NEW n \in Nat, n \in S PROVE n + 1 \in S
  <2> SUFFICES ASSUME n + 1 + 1 <= Len(b) PROVE b[1].packet <= b[n + 1 + 1].packet
    OBVIOUS
  <2>1. n + 1 \in 1..(Len(b) - 1) /\ n + 1 \in 1..Len(b) /\ n + 1 + 1 \in 1..Len(b) /\ 1 \in 1..Len(b)
    BY <1>0
  <2>2. Follows(b[n + 1], b[n + 1 + 1])
    BY <2>1 DEF Stretch
  <2>3. b[n + 1 + 1].packet >= b[n + 1].packet
    BY <1>0, <2>1, <2>2 DEF Follows
  <2>4. b[1].packet <= b[n + 1].packet
    BY <1>0, <1>2, <2>1
  <2> QED BY <1>0, <2>1, <2>3, <2>4
<1> HIDE DEF S
<1>3. Nat \subseteq S
  BY <1>1, <1>2, Induct, Zenon
<1>4. i - 1 \in S /\ i - 1 + 1 = i
  BY <1>0, <1>3, SMTT(30)
<1> QED BY <1>0, <1>4 DEF S

\* DeviceSends: the bytes of one more packet.
LEMMA RemainsMore ==
  ASSUME NEW e \in Endpoints, NEW b \in Seq(Octets), NEW n \in Nat, NEW last \in Nat, Remains(b, e, n, last),
         NEW size \in Nat, size >= 2
  PROVE  /\ Bytes(e, last + 1, size) \in Seq(Octets)
         /\ Remains(b \o Bytes(e, last + 1, size), e, n, last + 1)
<1> DEFINE x == Bytes(e, last + 1, size)
<1>1. /\ x \in Seq(Octets) /\ Len(x) = size
      /\ \A i \in 1..size : x[i].from = e /\ x[i].packet = last + 1 /\ x[i].index = i /\ x[i].size = size
  <2>1. \A i \in 1..size : [from |-> e, packet |-> last + 1, index |-> i, size |-> size] \in Octets
    BY DEF Octets, Header
  <2> QED BY <2>1 DEF Bytes
<1> HIDE DEF x
<1> DEFINE c == b \o x
<1>2. /\ Len(b) \in Nat /\ Len(c) = Len(b) + size
      /\ \A i \in 1..Len(b) : c[i] = b[i]
      /\ \A i \in 1..size : c[Len(b) + i] = x[i]
  BY <1>1
<1> HIDE DEF c
<1>3. ASSUME NEW i \in 1..Len(c) PROVE c[i].from = e
  <2>1. CASE i <= Len(b)
    BY <1>2, <2>1 DEF Remains, Stretch
  <2>2. CASE i > Len(b)
    <3>1. i - Len(b) \in 1..size /\ Len(b) + (i - Len(b)) = i
      BY <1>2, <2>2
    <3>2. c[i] = x[i - Len(b)]
      BY <1>2, <3>1
    <3> QED BY <1>1, <3>1, <3>2
  <2> QED BY <1>2, <2>1, <2>2
<1>4. ASSUME NEW i \in 1..(Len(c) - 1) PROVE Follows(c[i], c[i + 1])
  <2>1. CASE i < Len(b)
    <3>1. i \in 1..(Len(b) - 1) /\ i \in 1..Len(b) /\ i + 1 \in 1..Len(b)
      BY <1>2, <2>1
    <3> QED BY <1>2, <3>1, Zenon DEF Remains, Stretch
  <2>2. CASE i = Len(b)
    <3>1. /\ b[i].index = b[i].size /\ b[i].packet = last
          /\ x[1].packet = last + 1 /\ x[1].index = 1 /\ c[i] = b[i] /\ c[i + 1] = x[1]
      BY <1>1, <1>2, <2>2 DEF Remains
    <3> QED BY <3>1 DEF Follows
  <2>3. CASE i > Len(b)
    <3> DEFINE k == i - Len(b)
    <3>1. k \in 1..size /\ k + 1 \in 1..size /\ Len(b) + k = i /\ Len(b) + (k + 1) = i + 1 /\ k # size
      BY <1>2, <2>3
    <3> HIDE DEF k
    <3>2. c[i] = x[k] /\ c[i + 1] = x[k + 1]
      BY <1>2, <3>1, SMTT(30)
    <3> QED BY <1>1, <3>1, <3>2, SMTT(30) DEF Follows
  <2> QED BY <1>2, <2>1, <2>2, <2>3
<1>5. c[1].index = 1 /\ c[1].packet = n + 1
  <2>1. CASE Len(b) = 0
    <3>1. c[1] = x[1] /\ n = last
      BY <1>2, <2>1 DEF Remains
    <3> QED BY <1>1, <3>1
  <2>2. CASE Len(b) > 0
    BY <1>2, <2>2 DEF Remains, Stretch
  <2> QED BY <1>2, <2>1, <2>2
<1>6. c[Len(c)].packet = last + 1 /\ c[Len(c)].index = c[Len(c)].size
  BY <1>1, <1>2
<1>7. Len(c) > 0 /\ Len(c) # 0
  BY <1>2, SMTT(30)
<1> QED BY <1>1, <1>3, <1>4, <1>5, <1>6, <1>7 DEF Remains, Stretch, x, c

\* ReadBytes: the first k bytes of w are framed after those of b.
LEMMA RemainsLess ==
  ASSUME NEW e \in Endpoints, NEW b \in Seq(Octets), NEW w \in Seq(Octets), NEW n \in Nat, NEW last \in Nat,
         Remains(b \o w, e, n, last), NEW k \in 1..Len(w)
  PROVE  LET f == frame_packets[b \o SubSeq(w, 1, k)] IN
         /\ f \in Results /\ SubSeq(w, k + 1, Len(w)) \in Seq(Octets)
         /\ f.ok => /\ n + Len(f.packets) <= last
                    /\ \A i \in 1..Len(f.packets) : f.packets[i].from = e /\ f.packets[i].packet = n + i
                    /\ Remains(f.rest \o SubSeq(w, k + 1, Len(w)), e, n + Len(f.packets), last)
<1> DEFINE u == SubSeq(w, 1, k)
           v == SubSeq(w, k + 1, Len(w))
<1>1. /\ Len(w) \in Nat /\ k \in Nat /\ u \in Seq(Octets) /\ Len(u) = k /\ v \in Seq(Octets) /\ Len(v) = Len(w) - k
      /\ \A i \in 1..k : u[i] = w[i]
      /\ \A i \in 1..(Len(w) - k) : v[i] = w[k + i]
  <2>1. k \in 0..Len(w)
    OBVIOUS
  <2> QED BY <2>1, Cut
<1> HIDE DEF u, v
<1> DEFINE all == b \o w
           x == b \o u
           f == frame_packets[x]
<1>2. /\ Len(b) \in Nat /\ all \in Seq(Octets) /\ Len(all) = Len(b) + Len(w)
      /\ x \in Seq(Octets) /\ Len(x) = Len(b) + k
  BY <1>1, Join, Zenon DEF Joins
<1>3. ASSUME NEW i \in 1..Len(x) PROVE i \in 1..Len(all) /\ x[i] = all[i]
  <2>0. i \in 1..Len(all)
    BY <1>1, <1>2
  <2>1. CASE i <= Len(b)
    <3>1. i \in 1..Len(b)
      BY <2>0, <2>1, <1>2
    <3>2. x[i] = b[i] /\ all[i] = b[i]
      BY <1>1, <3>1, Join DEF Joins
    <3> QED BY <2>0, <3>2
  <2>2. CASE i > Len(b)
    <3>1. i - Len(b) \in 1..k /\ i - Len(b) \in 1..Len(w) /\ Len(b) + (i - Len(b)) = i
      BY <1>1, <1>2, <2>2, SMTT(30)
    <3>2. \A j \in 1..k : x[Len(b) + j] = u[j]
      BY <1>1, Join DEF Joins
    <3>3. \A j \in 1..Len(w) : all[Len(b) + j] = w[j]
      BY Join DEF Joins
    <3> HIDE DEF x, all
    <3>4. x[i] = u[i - Len(b)] /\ all[i] = w[i - Len(b)]
      BY <3>1, <3>2, <3>3
    <3> QED BY <1>1, <2>0, <3>1, <3>4, SMTT(30)
  <2> QED BY <1>2, <2>0, <2>1, <2>2
<1>31. ASSUME NEW i \in 1..Len(v) PROVE v[i] = all[Len(x) + i]
  <2>1. v[i] = w[k + i] /\ k + i \in 1..Len(w) /\ Len(x) + i = Len(b) + (k + i)
    BY <1>1, <1>2
  <2>2. \A j \in 1..Len(w) : all[Len(b) + j] = w[j]
    BY Join DEF Joins
  <2> QED BY <2>1, <2>2, Zenon
<1>4. Remains(all, e, n, last)
  OBVIOUS
<1> HIDE DEF all, x
<1>5. Stretch(x, e) /\ Len(x) > 0 /\ Len(all) > 0 /\ x[1] = all[1] /\ all[1].packet = n + 1
  <2>1. Stretch(all, e)
    BY <1>4 DEF Remains
  <2>2. Len(x) > 0 /\ Len(all) > 0 /\ x[1] = all[1]
    BY <1>1, <1>2, <1>3
  <2>3. all[1].packet = n + 1
    BY <1>2, <1>4, <2>2 DEF Remains
  <2>4. \A i \in 1..Len(x) : x[i].from = e
    BY <1>3, <2>1, SMTT(30) DEF Stretch
  <2>5. ASSUME NEW i \in 1..(Len(x) - 1) PROVE Follows(x[i], x[i + 1])
    <3>1. i \in 1..Len(x) /\ i + 1 \in 1..Len(x) /\ i \in 1..(Len(all) - 1)
      <4>1. Len(x) \in Nat /\ Len(all) \in Nat /\ Len(x) <= Len(all)
        BY <1>1, <1>2
      <4> QED BY <4>1
    <3>2. Follows(all[i], all[i + 1])
      BY <2>1, <3>1 DEF Stretch
    <3> QED BY <1>3, <3>1, <3>2
  <2> QED BY <2>1, <2>2, <2>3, <2>4, <2>5 DEF Stretch
<1>6. Right(f, x, e)
  BY <1>2, <1>5, Framing
<1> HIDE DEF f
<1>7. f \in Results /\ f.rest \in Seq(Octets) /\ f.packets \in Seq(Packets) /\ Len(f.packets) \in Nat
  BY <1>6 DEF Right, Results
<1>8. ASSUME f.ok
      PROVE  /\ n + Len(f.packets) <= last
             /\ \A i \in 1..Len(f.packets) : f.packets[i].from = e /\ f.packets[i].packet = n + i
             /\ Remains(f.rest \o v, e, n + Len(f.packets), last)
  <2>1. PICK m \in Nat : Splits(f, x, e, m)
    BY <1>6, <1>8 DEF Right
  <2> DEFINE c == f.rest \o v
             p == Len(f.packets)
  <2>2. /\ m \in 0..Len(x) /\ m \in 0..Len(all) /\ Len(f.rest) = Len(x) - m
        /\ \A i \in 1..Len(f.rest) : f.rest[i] = x[m + i]
        /\ m = 0 => p = 0
    BY <1>1, <1>2, <2>1 DEF Splits
  <2>3. m > 0 => all[m].index = all[m].size /\ all[m].packet = n + p
    <3> SUFFICES ASSUME m > 0 PROVE all[m].index = all[m].size /\ all[m].packet = n + p
      OBVIOUS
    <3>1. x[m].index = x[m].size /\ x[m].packet = x[1].packet + p - 1
      BY <2>1 DEF Splits
    <3>2. x[m] = all[m]
      BY <1>3, <2>2
    <3>3. n + 1 + p - 1 = n + p
      <4> p \in Nat
        BY <1>7
      <4> HIDE DEF p
      <4> QED OBVIOUS
    <3> QED BY <1>5, <3>1, <3>2, <3>3, Zenon
  <2>4. \A i \in 1..p : f.packets[i].from = e /\ f.packets[i].packet = n + i
    <3>1. \A i \in 1..p : f.packets[i].from = e /\ f.packets[i].packet = x[1].packet + i - 1
      BY <2>1 DEF Splits
    <3>2. \A i \in 1..p : n + 1 + i - 1 = n + i
      OBVIOUS
    <3> QED BY <1>5, <3>1, <3>2, SMTT(30)
  <2>5. c \in Seq(Octets) /\ Len(c) = Len(all) - m
    <3>1. c \in Seq(Octets) /\ Len(c) = Len(f.rest) + Len(v)
      <4>1. c \in Seq(Octets) /\ Joins(f.rest, v, c)
        BY <1>1, <1>7, Join, Zenon
      <4> QED BY <4>1 DEF Joins
    <3> HIDE DEF c
    <3> QED BY <1>1, <1>2, <2>2, <3>1
  <2>6. ASSUME NEW i \in 1..Len(c) PROVE c[i] = all[m + i]
    <3>1. CASE i <= Len(f.rest)
      <4>1. i \in 1..Len(f.rest) /\ m + i \in 1..Len(x)
        BY <1>2, <2>2, <3>1, <1>1
      <4>2. c[i] = f.rest[i]
        BY <1>1, <1>7, <4>1, Join DEF Joins
      <4> QED BY <1>3, <2>2, <4>1, <4>2, Zenon 
    <3>2. CASE i > Len(f.rest)
      <4> DEFINE j == i - Len(f.rest)
      <4>1. j \in 1..Len(v) /\ Len(f.rest) + j = i /\ Len(x) + j = m + i
        BY <1>1, <1>2, <2>2, <2>5, <3>2
      <4>2. c[Len(f.rest) + j] = v[j]
        BY <1>1, <1>7, <4>1, Join DEF Joins
      <4> QED BY <1>31, <4>1, <4>2, Zenon
    <3>3. i <= Len(f.rest) \/ i > Len(f.rest)
      <4>1. Len(f.rest) \in Nat
        BY <1>7
      <4> HIDE DEF c
      <4> QED BY <2>5, <4>1
    <3> QED BY <3>1, <3>2, <3>3, Zenon
  <2> HIDE DEF c
  <2>7. Stretch(c, e) /\ (m > 0 /\ Len(c) > 0 => c[1].packet = all[m].packet + 1)
    <3>1. Stretch(all, e)
      BY <1>4 DEF Remains
    <3> QED BY <1>2, <2>2, <2>3, <2>5, <2>6, <3>1, StretchAfter, ZenonT(40)
  <2>8. CASE Len(c) = 0
    <3>1. m = Len(all) /\ m > 0
      BY <1>2, <1>5, <2>5, <2>8
    <3>2. n + p = last
      BY <1>4, <2>3, <3>1 DEF Remains
    <3> QED BY <2>4, <2>7, <2>8, <3>2 DEF Remains, c
  <2>9. CASE Len(c) > 0
    <3>1. c[1].packet = n + p + 1
      <4>1. CASE m = 0
        <5>1. 1 \in 1..Len(c) /\ m + 1 = 1
          BY <1>2, <2>5, <2>9, <4>1
        <5>2. c[1] = all[1] /\ p = 0
          BY <2>2, <2>6, <4>1, <5>1
        <5>3. n + 0 + 1 = n + 1
          OBVIOUS
        <5> QED BY <1>5, <5>2, <5>3
      <4>2. CASE m > 0
        BY <2>3, <2>7, <2>9, <4>2
      <4> QED BY <4>1, <4>2
    <3>2. Len(c) \in 1..Len(c) /\ m + Len(c) = Len(all)
      BY <1>2, <2>5, <2>9
    <3>3. c[Len(c)] = all[Len(all)]
      BY <2>6, <3>2, SMTT(30)
    <3>4. c[Len(c)].packet = last /\ c[Len(c)].index = c[Len(c)].size
      BY <1>2, <1>4, <1>5, <3>3 DEF Remains
    <3>5. c[1].packet <= c[Len(c)].packet
      BY <2>5, <2>7, <3>2, PacketsGrow
    <3>6. n + p <= last
      BY <1>7, <3>1, <3>4, <3>5
    <3> QED BY <2>4, <2>7, <2>9, <3>1, <3>4, <3>6 DEF Remains, c
  <2>10. Len(c) = 0 \/ Len(c) > 0
    BY <2>5
  <2> QED BY <2>8, <2>9, <2>10, Zenon
<1> QED BY <1>1, <1>7, <1>8 DEF f, x, u, v

-----------------------------------------------------------------------------
(* The steps preserve the invariant *)

\* Everything the worker has put into the channel, oldest first.
log == received \o channel

LEMMA Assoc ==
  /\ \A x, y, z \in Seq(Events) : (x \o y) \o z = x \o (y \o z)
  /\ \A x, y, z \in Seq(Octets) : (x \o y) \o z = x \o (y \o z)
<1>1. \A x, y, z \in Seq(Events) : (x \o y) \o z = x \o (y \o z)
  BY ConcatAssociative
<1>2. \A x, y, z \in Seq(Octets) : (x \o y) \o z = x \o (y \o z)
  BY ConcatAssociative, SMTT(30)
<1> QED BY <1>1, <1>2, Zenon

\* What was framed, f, is what was put into the channel, l, then what was not.
Pieced(l, h, p, f) ==
    /\ l \in Seq(Events) /\ h \in Seq(Events) /\ p \in Seq(Events) /\ f \in Seq(Events)
    /\ f = l \o (h \o p)
    /\ Len(h) = 0 => f = l \o p

LEMMA Pieces ==
  \A r, c \in Seq(Events), h, p \in Seq(Packets) : Pieced(r \o c, h, p, r \o c \o h \o p)
<1> SUFFICES ASSUME NEW r \in Seq(Events), NEW c \in Seq(Events), NEW h \in Seq(Packets), NEW p \in Seq(Packets)
             PROVE  Pieced(r \o c, h, p, r \o c \o h \o p)
  OBVIOUS
<1> DEFINE l == r \o c
<1>1. h \in Seq(Events) /\ p \in Seq(Events)
  BY SeqMonotonic DEF Events
<1>2. l \in Seq(Events)
  OBVIOUS
<1> HIDE DEF l
<1>3. l \o h \in Seq(Events) /\ h \o p \in Seq(Events)
  BY <1>1, <1>2
<1>4. (l \o h) \o p \in Seq(Events)
  BY <1>1, <1>3
<1>5. (l \o h) \o p = l \o (h \o p)
  BY <1>1, <1>2, Assoc, ZenonT(40)
<1>6. Len(h) = 0 => h \o p = p
  <2>1. Len(h) = 0 => h = <<>>
    OBVIOUS
  <2> QED BY <1>1, <2>1, ConcatEmptySeq
<1> QED BY <1>1, <1>2, <1>4, <1>5, <1>6, Zenon DEF l, Pieced

LEMMA FramedIs ==
  /\ ReaderType => Pieced(log, held, pending, Framed)
  /\ ReaderType' => Pieced(log', held', pending', Framed')
BY Pieces, Zenon DEF ReaderType, log, Framed

\* A packet that leaves the head of a queue and comes before its tail.
LEMMA HeadFirst ==
  ASSUME NEW T, NEW q \in Seq(T), q # <<>>
  PROVE  /\ <<Head(q)>> \in Seq(T) /\ Tail(q) \in Seq(T) /\ <<Head(q)>> \o Tail(q) = q
         /\ Len(<<Head(q)>>) = 1
<1>1. /\ Head(q) \in T /\ Tail(q) \in Seq(T) /\ Len(Tail(q)) = Len(q) - 1 /\ Head(q) = q[1]
      /\ \A i \in 1..Len(Tail(q)) : Tail(q)[i] = q[i + 1]
  BY HeadTailProperties
<1> DEFINE h == <<Head(q)>>
           t == Tail(q)
<1>2. h \in Seq(T) /\ Len(h) = 1 /\ h[1] = q[1] /\ Len(q) \in Nat \ {0}
  BY <1>1
<1> HIDE DEF h, t
<1>3. t \in Seq(T) /\ Len(t) = Len(q) - 1 /\ \A i \in 1..Len(t) : t[i] = q[i + 1]
  BY <1>1 DEF t
<1>4. h \o t \in Seq(T) /\ Joins(h, t, h \o t)
  BY <1>2, <1>3, Join, Zenon
<1>41. Len(h \o t) = Len(q)
  BY <1>2, <1>3, <1>4 DEF Joins
<1>5. ASSUME NEW i \in 1..Len(q) PROVE (h \o t)[i] = q[i]
  <2>1. CASE i = 1
    <3>1. 1 \in 1..Len(h)
      BY <1>2
    <3> QED BY <1>2, <1>4, <2>1, <3>1 DEF Joins
  <2>2. CASE i # 1
    <3>1. i - 1 \in 1..Len(t) /\ 1 + (i - 1) = i /\ (i - 1) + 1 = i
      BY <1>2, <1>3, <2>2
    <3>2. (h \o t)[Len(h) + (i - 1)] = t[i - 1]
      BY <1>4, <3>1 DEF Joins
    <3> QED BY <1>2, <1>3, <3>1, <3>2, Zenon
  <2> QED BY <2>1, <2>2, Zenon
<1>6. h \o t = q
  BY <1>4, <1>41, <1>5, SeqEqual, Zenon
<1> QED BY <1>1, <1>2, <1>6 DEF h, t

\* A step that changes none of what was framed, and nothing of the bytes.
LEMMA SameStream ==
  ASSUME StreamInv, ReaderType', HeldToSend', Framed' = Framed, UNCHANGED <<sent, wire, bytes>>, Stopped => Stopped'
  PROVE  StreamInv'
<1> SUFFICES ASSUME NEW e \in Endpoints PROVE \E n \in Nat : Stream(e, n)'
  BY DEF StreamInv
<1>1. PICK n \in Nat : Stream(e, n)
  BY DEF StreamInv
<1>2. Stream(e, n)'
  BY <1>1 DEF Stream
<1> QED BY <1>2

LEMMA CheckStream == StreamInv /\ Check => StreamInv'
<1> SUFFICES ASSUME StreamInv, Check PROVE StreamInv'
  OBVIOUS
<1>0. /\ worker = "loop" /\ UNCHANGED <<sent, wire, bytes, channel, received>>
      /\ ReaderType /\ HeldToSend /\ Len(held) = 0
  BY DEF StreamInv, Check, HeldToSend
<1>1. ~Stopped
  BY <1>0 DEF Stopped
<1>2. CASE worker' = "end" /\ UNCHANGED <<next_endpoint, pending, held>>
  <2>1. ReaderType' /\ HeldToSend' /\ Framed' = Framed
    BY <1>0, <1>2 DEF ReaderType, HeldToSend, Framed
  <2> QED BY <1>0, <1>1, <2>1, SameStream
<1>3. CASE pending # <<>> /\ held' = <<Head(pending)>> /\ pending' = Tail(pending) /\ worker' = "send"
             /\ UNCHANGED next_endpoint
  <2>1. pending \in Seq(Packets)
    BY <1>0 DEF ReaderType
  <2>2. held' \in Seq(Packets) /\ pending' \in Seq(Packets) /\ held' \o pending' = pending /\ Len(held') = 1
    BY <1>3, <2>1, HeadFirst
  <2>3. ReaderType'
    BY <1>0, <1>3, <2>2 DEF ReaderType
  <2>4. HeldToSend'
    BY <1>3, <2>2 DEF HeldToSend
  <2>5. Framed = log \o pending
    BY <1>0, FramedIs DEF Pieced
  <2>6. Framed' = log' \o (held' \o pending') /\ log' = log
    BY <1>0, <2>3, FramedIs, SMTT(30) DEF Pieced, log
  <2> QED BY <1>0, <1>1, <2>2, <2>3, <2>4, <2>5, <2>6, SameStream, SMTT(30)
<1>4. CASE pending = <<>> /\ next_endpoint' = Alternate /\ worker' = "read" /\ UNCHANGED <<pending, held>>
  <2>1. ReaderType'
    BY <1>0, <1>4 DEF ReaderType, Alternate
  <2>2. HeldToSend' /\ Framed' = Framed
    BY <1>0, <1>4 DEF HeldToSend, Framed
  <2> QED BY <1>0, <1>1, <2>1, <2>2, SameStream
<1> QED BY <1>2, <1>3, <1>4 DEF Check

LEMMA SendPacketStream == StreamInv /\ SendPacket => StreamInv'
<1> SUFFICES ASSUME StreamInv, SendPacket PROVE StreamInv'
  OBVIOUS
<1>0. /\ worker = "send" /\ worker' = "notify" /\ channel' = channel \o held /\ held' = <<>>
      /\ UNCHANGED <<sent, wire, next_endpoint, bytes, pending, received>> /\ ReaderType
  BY DEF StreamInv, SendPacket, Send
<1>1. received \in Seq(Events) /\ channel \in Seq(Events) /\ held \in Seq(Events) /\ pending \in Seq(Events)
  BY <1>0, FramedIs, SMTT(30) DEF Pieced, ReaderType
<1>2. channel' \in Seq(Events) /\ held' \in Seq(Packets) /\ Len(held') = 0
  BY <1>0, <1>1
<1>3. ReaderType' /\ HeldToSend'
  BY <1>0, <1>2 DEF ReaderType, HeldToSend
<1>4. log' = log \o held
  BY <1>0, <1>1, Assoc, Zenon DEF log
<1>5. log \in Seq(Events) /\ Framed = log \o (held \o pending)
  BY <1>0, FramedIs DEF Pieced
<1>6. Framed' = log' \o pending'
  BY <1>2, <1>3, FramedIs DEF Pieced
<1>7. (log \o held) \o pending = log \o (held \o pending)
  BY <1>1, <1>5, Assoc, ZenonT(40)
<1>8. Framed' = Framed
  BY <1>0, <1>4, <1>5, <1>6, <1>7
<1>9. ~Stopped
  BY <1>0 DEF Stopped
<1> QED BY <1>0, <1>3, <1>8, <1>9, SameStream

\* Failed and Ended come between the packets sent and those that never will be.
LEMMA SendEndStream ==
  ASSUME StreamInv, NEW m \in {Failed, Ended}, NEW from \in {"fail", "end"}, NEW to \in {"notify_failed", "notify_ended"},
         Send(from, <<m>>, to), UNCHANGED held
  PROVE  StreamInv'
<1>0. /\ worker = from /\ worker' = to /\ channel' = channel \o <<m>> /\ ReaderType /\ HeldToSend
      /\ UNCHANGED <<sent, wire, next_endpoint, bytes, pending, received, held>>
  BY DEF StreamInv, Send
<1>1. /\ received \in Seq(Events) /\ channel \in Seq(Events) /\ pending \in Seq(Events)
      /\ log \in Seq(Events) /\ <<m>> \in Seq(Events) /\ Len(held) = 0
  <2>1. m \in Events
    BY DEF Events
  <2>2. Len(held) = 0
    BY <1>0 DEF HeldToSend
  <2> QED BY <1>0, <2>1, <2>2, FramedIs DEF Pieced, ReaderType
<1>2. ReaderType'
  <2>1. channel' \in Seq(Events)
    BY <1>0, <1>1
  <2> QED BY <1>0, <2>1 DEF ReaderType
<1>3. HeldToSend' /\ Stopped'
  BY <1>0 DEF HeldToSend, Stopped
<1>4. log' = log \o <<m>>
  BY <1>0, <1>1, ConcatAssociative, SMTT(30) DEF log
<1>5. Framed = log \o pending /\ Framed' = (log \o <<m>>) \o pending
  <2>1. Len(held') = 0 /\ pending' = pending
    BY <1>0, <1>1
  <2> QED BY <1>0, <1>1, <1>2, <1>4, <2>1, FramedIs, SMTT(30) DEF Pieced
<1> DEFINE q == Framed
           r == Framed'
           k == Len(log)
           a == log \o <<m>>
<1>6. a \in Seq(Events) /\ Len(a) = k + 1 /\ a[k + 1] = m /\ k \in Nat /\ \A i \in 1..k : a[i] = log[i]
  <2>1. Len(<<m>>) = 1 /\ <<m>>[1] = m
    OBVIOUS
  <2> QED BY <1>1, <2>1
<1> HIDE DEF a
<1>7. /\ Len(q) = k + Len(pending) /\ Len(pending) \in Nat /\ Len(r) = k + 1 + Len(pending)
      /\ (\A i \in 1..k : q[i] = log[i]) /\ (\A i \in 1..(k + 1) : r[i] = a[i])
      /\ (\A i \in 1..Len(pending) : q[k + i] = pending[i])
      /\ \A i \in 1..Len(pending) : r[k + 1 + i] = pending[i]
  <2>1. q = log \o pending /\ r = a \o pending
    BY <1>5 DEF a
  <2> HIDE DEF q, r, k
  <2>2. /\ Len(q) = k + Len(pending) /\ Len(pending) \in Nat
        /\ (\A i \in 1..k : q[i] = log[i]) /\ (\A i \in 1..Len(pending) : q[k + i] = pending[i])
    BY <1>1, <2>1, Join DEF k, Joins
  <2>3. /\ Len(r) = Len(a) + Len(pending)
        /\ (\A i \in 1..Len(a) : r[i] = a[i]) /\ (\A i \in 1..Len(pending) : r[Len(a) + i] = pending[i])
    <3>1. Joins(a, pending, a \o pending)
      BY <1>1, <1>6, Join, Zenon
    <3> QED BY <2>1, <3>1 DEF Joins
  <2> QED BY <1>6, <2>2, <2>3
<1> HIDE DEF q, r, k
<1>8. Widens(q, r, k, 1)
  <2>1. ASSUME NEW i \in (k + 1)..Len(q) PROVE r[i + 1] = q[i]
    <3>1. i - k \in 1..Len(pending) /\ k + (i - k) = i /\ k + 1 + (i - k) = i + 1
      BY <1>6, <1>7
    <3> QED BY <1>7, <3>1
  <2>2. ASSUME NEW i \in 1..k PROVE r[i] = q[i]
    <3>1. i \in 1..(k + 1)
      BY <1>6
    <3> QED BY <1>6, <1>7, <3>1
  <2>3. k \in 0..Len(q) /\ Len(q) \in Nat /\ Len(r) = Len(q) + 1 /\ 1 \in Nat
    BY <1>6, <1>7
  <2> QED BY <2>1, <2>2, <2>3 DEF Widens
<1>9. ASSUME NEW e \in Endpoints PROVE \A i \in (k + 1)..(k + 1) : i \notin Places(r, e)
  <2>1. r[k + 1] = m
    BY <1>6, <1>7
  <2>2. m.type # "Packet"
    BY DEF Failed, Ended
  <2>3. \A i \in (k + 1)..(k + 1) : i = k + 1
    BY <1>6
  <2> QED BY <2>1, <2>2, <2>3 DEF Places
<1>10. ASSUME NEW e \in Endpoints PROVE \E n \in Nat : Stream(e, n)'
  <2>1. PICK n \in Nat : Stream(e, n)
    BY DEF StreamInv
  <2>2. HasFirst(r, e, n)
    BY <1>8, <1>9, <2>1, HasFirstWider, ZenonT(40) DEF Stream, q
  <2>3. Stream(e, n)'
    BY <1>0, <1>3, <2>1, <2>2 DEF Stream, r
  <2> QED BY <2>3
<1> QED BY <1>2, <1>3, <1>10 DEF StreamInv

LEMMA ReadBytesStream == StreamInv /\ ReadBytes => StreamInv'
<1> SUFFICES ASSUME StreamInv, ReadBytes PROVE StreamInv'
  OBVIOUS
<1> PICK e \in Endpoints : e = Reading
  BY DEF Reading, Endpoints
<1>0. /\ worker = "read" /\ UNCHANGED <<sent, next_endpoint, channel, received>>
      /\ ReaderType /\ HeldToSend /\ Len(held) = 0 /\ Len(pending) = 0 /\ ~Stopped
  BY DEF StreamInv, ReadBytes, HeldToSend, Stopped
<1>1. /\ bytes[e] \in Seq(Octets) /\ wire[e] \in Seq(Octets) /\ sent[e] \in Nat
      /\ DOMAIN wire = Endpoints /\ DOMAIN bytes = Endpoints
  BY <1>0 DEF ReaderType, Reading, Endpoints
<1>2. PICK k \in 1..Len(wire[e]) :
        LET frames == Frames(bytes[e] \o SubSeq(wire[e], 1, k))
        IN  /\ wire' = [wire EXCEPT ![e] = SubSeq(@, k + 1, Len(@))]
            /\ bytes' = [bytes EXCEPT ![e] = frames.rest]
            /\ \/ /\ ~frames.ok
                  /\ worker' = "fail"
                  /\ UNCHANGED <<held, pending>>
               \/ /\ frames.ok /\ frames.packets = <<>>
                  /\ worker' = "loop"
                  /\ UNCHANGED <<held, pending>>
               \/ /\ frames.ok /\ frames.packets # <<>>
                  /\ held' = <<Head(frames.packets)>> /\ pending' = Tail(frames.packets)
                  /\ worker' = "send"
  BY Zenon DEF ReadBytes
<1> DEFINE f == frame_packets[bytes[e] \o SubSeq(wire[e], 1, k)]
           v == SubSeq(wire[e], k + 1, Len(wire[e]))
<1>3. PICK n \in Nat : Stream(e, n)
  BY <1>1 DEF StreamInv
<1>4. Remains(bytes[e] \o wire[e], e, n, sent[e])
  BY <1>0, <1>3, SMTT(30) DEF Stream
<1>5. /\ f \in Results /\ v \in Seq(Octets)
      /\ f.ok => /\ n + Len(f.packets) <= sent[e]
                 /\ \A i \in 1..Len(f.packets) : f.packets[i].from = e /\ f.packets[i].packet = n + i
                 /\ Remains(f.rest \o v, e, n + Len(f.packets), sent[e])
  BY <1>1, <1>4, RemainsLess
<1>6. /\ wire' = [wire EXCEPT ![e] = v] /\ bytes' = [bytes EXCEPT ![e] = f.rest]
      /\ \/ ~f.ok /\ worker' = "fail" /\ UNCHANGED <<held, pending>>
         \/ f.ok /\ f.packets = <<>> /\ worker' = "loop" /\ UNCHANGED <<held, pending>>
         \/ /\ f.ok /\ f.packets # <<>> /\ worker' = "send"
            /\ held' = <<Head(f.packets)>> /\ pending' = Tail(f.packets)
  BY <1>2, ZenonT(40) DEF Frames
<1> HIDE DEF f, v
<1>7. f.rest \in Seq(Octets) /\ f.packets \in Seq(Packets) /\ Len(f.packets) \in Nat
  BY <1>5, SMTT(30) DEF Results
<1>8. /\ wire' \in [Endpoints -> Seq(Octets)] /\ bytes' \in [Endpoints -> Seq(Octets)]
      /\ wire'[e] = v /\ bytes'[e] = f.rest
      /\ \A d \in Endpoints \ {e} : wire'[d] = wire[d] /\ bytes'[d] = bytes[d]
  BY <1>0, <1>1, <1>5, <1>6, <1>7 DEF ReaderType
<1>9. ASSUME UNCHANGED <<held, pending>>, worker' \in {"loop", "fail"}
      PROVE  ReaderType' /\ HeldToSend' /\ Framed' = Framed
  BY <1>0, <1>8, <1>9 DEF ReaderType, HeldToSend, Framed
<1>10. CASE ~f.ok /\ worker' = "fail" /\ UNCHANGED <<held, pending>>
  <2>1. ReaderType' /\ HeldToSend' /\ Framed' = Framed /\ Stopped'
    BY <1>9, <1>10 DEF Stopped
  <2>2. ASSUME NEW d \in Endpoints PROVE \E m \in Nat : Stream(d, m)'
    <3>1. PICK m \in Nat : Stream(d, m)
      BY DEF StreamInv
    <3>2. Stream(d, m)'
      BY <1>0, <2>1, <3>1 DEF Stream
    <3> QED BY <3>2
  <2> QED BY <2>1, <2>2 DEF StreamInv
<1>11. ASSUME f.ok, ReaderType', HeldToSend', Framed' = Framed \o f.packets
       PROVE  StreamInv'
  <2> PICK m \in Nat : m = n + Len(f.packets)
    BY <1>7, SMTT(30)
  <2>1. Stream(e, m)'
    <3>1. HasFirst(Framed', e, m)
      <4>1. Framed \in Seq(Events)
        BY <1>0, FramedIs DEF Pieced
      <4> QED BY <1>1, <1>3, <1>5, <1>7, <1>11, <4>1, HasFirstMore, Zenon DEF Stream
    <3> QED BY <1>0, <1>5, <1>8, <1>11, <3>1, SMTT(30) DEF Stream
  <2>2. ASSUME NEW d \in Endpoints \ {e} PROVE \E l \in Nat : Stream(d, l)'
    <3>1. PICK l \in Nat : Stream(d, l)
      BY DEF StreamInv
    <3> DEFINE q == Framed
               p == f.packets
               r == Framed'
    <3>2. q \in Seq(Events) /\ p \in Seq(Events) /\ r = q \o p
      BY <1>0, <1>7, <1>11, FramedIs, SeqMonotonic DEF Pieced, Events
    <3> HIDE DEF q, p, r
    <3>3. Joins(q, p, r)
      BY <3>2, Join, Zenon
    <3>4. Widens(q, r, Len(q), Len(p))
      BY <3>3 DEF Widens, Joins
    <3>5. ASSUME NEW i \in (Len(q) + 1)..(Len(q) + Len(p)) PROVE i \notin Places(r, d)
      <4>1. i - Len(q) \in 1..Len(p) /\ Len(q) + (i - Len(q)) = i
        BY <3>3 DEF Joins
      <4>2. r[i] = p[i - Len(q)]
        BY <3>3, <4>1 DEF Joins
      <4>3. p[i - Len(q)].from = e
        BY <1>5, <1>11, <4>1 DEF p
      <4> QED BY <4>2, <4>3 DEF Places
    <3>6. HasFirst(r, d, l)
      BY <3>1, <3>4, <3>5, HasFirstWider, SMTT(30) DEF Stream, q
    <3>7. Stream(d, l)'
      BY <1>0, <1>8, <3>1, <3>6 DEF Stream, r
    <3> QED BY <3>7
  <2> QED BY <1>11, <2>1, <2>2 DEF StreamInv
<1>12. CASE f.ok /\ f.packets = <<>> /\ worker' = "loop" /\ UNCHANGED <<held, pending>>
  <2>1. ReaderType' /\ HeldToSend' /\ Framed' = Framed
    BY <1>9, <1>12
  <2>2. Framed \o <<>> = Framed
    BY <1>0, FramedIs, ConcatEmptySeq DEF Pieced
  <2> QED BY <1>11, <1>12, <2>1, <2>2
<1>13. CASE /\ f.ok /\ f.packets # <<>> /\ worker' = "send"
            /\ held' = <<Head(f.packets)>> /\ pending' = Tail(f.packets)
  <2>1. held' \in Seq(Packets) /\ pending' \in Seq(Packets) /\ held' \o pending' = f.packets /\ Len(held') = 1
    BY <1>7, <1>13, HeadFirst
  <2>2. ReaderType'
    BY <1>0, <1>8, <2>1 DEF ReaderType
  <2>3. HeldToSend'
    BY <1>13, <2>1 DEF HeldToSend
  <2>4. Framed' = log \o f.packets
    BY <1>0, <2>1, <2>2, FramedIs, Zenon DEF Pieced, log
  <2>5. Framed = log
    <3>1. Framed = log \o pending /\ log \in Seq(Events) /\ pending \in Seq(Events)
      BY <1>0, FramedIs DEF Pieced
    <3>2. pending = <<>>
      BY <1>0, <3>1
    <3> QED BY <3>1, <3>2, ConcatEmptySeq
  <2> QED BY <1>11, <1>13, <2>2, <2>3, <2>4, <2>5, SMTT(30)
<1> QED BY <1>6, <1>10, <1>12, <1>13

LEMMA RecvKeepsLog ==
  ASSUME ReaderType, Recv
  PROVE  received' \in Seq(Events) /\ channel' \in Seq(Events) /\ log' = log
<1>0. received \in Seq(Events) /\ channel \in Seq(Events)
  BY DEF ReaderType
<1>1. CASE channel = <<>>
  <2>1. UNCHANGED <<channel, received>>
    BY <1>1 DEF Recv
  <2> QED BY <1>0, <2>1 DEF log
<1>2. CASE channel # <<>>
  <2>1. received' = Append(received, Head(channel)) /\ channel' = Tail(channel)
    BY <1>2 DEF Recv
  <2>2. <<Head(channel)>> \in Seq(Events) /\ channel' \in Seq(Events) /\ <<Head(channel)>> \o channel' = channel
    BY <1>0, <1>2, <2>1, HeadFirst
  <2>3. received' = received \o <<Head(channel)>> /\ received' \in Seq(Events)
    <3>1. Head(channel) \in Events
      BY <1>0, <1>2
    <3> QED BY <1>0, <2>1, <3>1, AppendIsConcat, AppendProperties
  <2>4. (received \o <<Head(channel)>>) \o channel' = received \o (<<Head(channel)>> \o channel')
    BY <1>0, <2>2, Assoc, ZenonT(40)
  <2> QED BY <2>2, <2>3, <2>4, Zenon DEF log
<1> QED BY <1>1, <1>2

LEMMA RecvStream == StreamInv /\ Recv => StreamInv'
<1> SUFFICES ASSUME StreamInv, Recv PROVE StreamInv'
  OBVIOUS
<1>1. ReaderType /\ HeldToSend /\ UNCHANGED <<sent, wire, next_endpoint, bytes, pending, worker, held>>
  BY DEF StreamInv, Recv
<1>2. HeldToSend' /\ (Stopped => Stopped')
  BY <1>1 DEF HeldToSend, Stopped
<1>3. received' \in Seq(Events) /\ channel' \in Seq(Events) /\ log' = log
  BY <1>1, RecvKeepsLog
<1>4. ReaderType'
  BY <1>1, <1>3 DEF ReaderType
<1>5. Framed' = Framed
  BY <1>1, <1>3, Zenon DEF Framed, log
<1> QED BY <1>1, <1>2, <1>4, <1>5, SameStream

LEMMA DeviceSendsStream == StreamInv /\ DeviceSends => StreamInv'
<1> SUFFICES ASSUME StreamInv, DeviceSends PROVE StreamInv'
  OBVIOUS
<1>1. PICK e \in Endpoints, size \in Sizes :
        /\ sent' = [sent EXCEPT ![e] = @ + 1]
        /\ wire' = [wire EXCEPT ![e] = @ \o Bytes(e, sent'[e], size)]
        /\ UNCHANGED <<next_endpoint, bytes, pending, worker, held, channel, received>>
  BY Zenon DEF DeviceSends
<1>2. ReaderType /\ HeldToSend /\ size \in Nat /\ size >= 2
  BY SizeAssumption DEF StreamInv
<1>3. /\ sent[e] \in Nat /\ sent'[e] = sent[e] + 1 /\ bytes[e] \in Seq(Octets) /\ wire[e] \in Seq(Octets)
      /\ sent' \in [Endpoints -> Nat] /\ \A d \in Endpoints \ {e} : sent'[d] = sent[d]
  BY <1>1, <1>2 DEF ReaderType
<1> DEFINE x == Bytes(e, sent[e] + 1, size)
<1>4. x \in Seq(Octets)
  <2>1. \A i \in 1..size : [from |-> e, packet |-> sent[e] + 1, index |-> i, size |-> size] \in Octets
    BY <1>2, <1>3 DEF Octets, Header
  <2> QED BY <1>2, <2>1, SMTT(30) DEF Bytes
<1>5. wire' = [wire EXCEPT ![e] = wire[e] \o x]
  BY <1>1, <1>3, ZenonT(40)
<1>6. ASSUME NEW n \in Nat, Remains(bytes[e] \o wire[e], e, n, sent[e])
      PROVE  Remains((bytes[e] \o wire[e]) \o x, e, n, sent[e] + 1)
  <2>1. bytes[e] \o wire[e] \in Seq(Octets)
    BY <1>3
  <2> QED BY <1>2, <1>3, <1>6, <2>1, RemainsMore, Zenon
<1> HIDE DEF x
<1>7. wire[e] \o x \in Seq(Octets)
  BY <1>3, <1>4
<1>8. /\ wire'[e] = wire[e] \o x /\ wire' \in [Endpoints -> Seq(Octets)]
      /\ \A d \in Endpoints \ {e} : wire'[d] = wire[d]
  BY <1>2, <1>5, <1>7, SMTT(30) DEF ReaderType
<1>9. ReaderType' /\ HeldToSend' /\ Framed' = Framed /\ (Stopped' <=> Stopped)
  BY <1>1, <1>2, <1>3, <1>8 DEF ReaderType, HeldToSend, Framed, Stopped
<1>10. (bytes[e] \o wire[e]) \o x = bytes[e] \o (wire[e] \o x)
  BY <1>3, <1>4, Assoc, Zenon
<1>11. ASSUME NEW d \in Endpoints PROVE \E n \in Nat : Stream(d, n)'
  <2>1. PICK n \in Nat : Stream(d, n)
    BY DEF StreamInv
  <2>2. CASE d = e
    <3>1. n <= sent'[e] /\ HasFirst(Framed', e, n)
      BY <1>3, <1>9, <2>1, <2>2, SMTT(30) DEF Stream
    <3>2. ~Stopped' => Remains(bytes'[e] \o wire'[e], e, n, sent'[e])
      BY <1>1, <1>3, <1>6, <1>8, <1>9, <1>10, <2>1, <2>2, Zenon DEF Stream
    <3>3. Stream(d, n)'
      BY <2>2, <3>1, <3>2 DEF Stream
    <3> QED BY <3>3, SMTT(30)
  <2>3. CASE d # e
    <3>1. Stream(d, n)'
      BY <1>1, <1>3, <1>8, <1>9, <2>1, <2>3 DEF Stream
    <3> QED BY <3>1
  <2> QED BY <2>2, <2>3
<1> QED BY <1>9, <1>11 DEF StreamInv

LEMMA NextStream == StreamInv /\ [Next]_vars => StreamInv'
<1> SUFFICES ASSUME StreamInv, [Next]_vars PROVE StreamInv'
  OBVIOUS
<1>1. CASE ReadTimeout \/ ReadError \/ Notify
  <2>1. /\ UNCHANGED <<sent, wire, next_endpoint, bytes, pending, held, channel, received>>
        /\ worker # "send" /\ worker' \notin {"send", "read"} /\ (Stopped => Stopped')
    BY <1>1 DEF ReadTimeout, ReadError, Notify, After, Stopped
  <2>2. ReaderType' /\ HeldToSend' /\ Framed' = Framed
    BY <2>1 DEF StreamInv, ReaderType, HeldToSend, Framed
  <2> QED BY <2>1, <2>2, SameStream, SMTT(30)
<1>2. CASE Wake \/ Close \/ Joined \/ UNCHANGED vars
  <2>1. UNCHANGED <<sent, wire, next_endpoint, bytes, pending, held, channel, received, worker>>
    BY <1>2, Zenon DEF Wake, Close, Joined, vars
  <2>2. ReaderType' /\ HeldToSend' /\ Framed' = Framed /\ (Stopped => Stopped')
    BY <2>1 DEF StreamInv, ReaderType, HeldToSend, Framed, Stopped
  <2> QED BY <2>1, <2>2, SameStream
<1>3. CASE SendFailed
  BY <1>3, SendEndStream DEF SendFailed
<1>4. CASE SendEnded
  BY <1>4, SendEndStream DEF SendEnded
<1> QED BY <1>1, <1>2, <1>3, <1>4, CheckStream, ReadBytesStream, SendPacketStream, RecvStream, DeviceSendsStream, ZenonT(40)
        DEF Next, Worker

LEMMA InitStream == Init => StreamInv
<1> SUFFICES ASSUME Init PROVE StreamInv
  OBVIOUS
<1>1. /\ <<>> \in Seq(Octets) /\ <<>> \in Seq(Events) /\ <<>> \in Seq(Packets) /\ Len(<<>>) = 0
      /\ <<>> \o <<>> = <<>>
  OBVIOUS
<1>2. ReaderType /\ HeldToSend
  <2>1. ReaderType
    BY <1>1, Zenon DEF Init, ReaderType
  <2>2. Len(held) = 0 /\ Len(pending) = 0 /\ worker = "loop"
    BY <1>1, Zenon DEF Init
  <2> QED BY <2>1, <2>2 DEF HeldToSend
<1>3. Framed = <<>>
  BY <1>1 DEF Init, Framed
<1>4. ASSUME NEW e \in Endpoints PROVE Stream(e, 0)
  <2>1. bytes[e] \o wire[e] = <<>> /\ sent[e] = 0
    BY <1>1 DEF Init
  <2>2. Places(<<>>, e) = {}
    BY <1>1 DEF Places
  <2>3. HasFirst(Framed, e, 0)
    BY <1>3, <2>2 DEF HasFirst
  <2>4. Remains(<<>>, e, 0, 0)
    BY <1>1 DEF Remains, Stretch
  <2> QED BY <2>1, <2>3, <2>4 DEF Stream
<1> QED BY <1>2, <1>4 DEF StreamInv

\* However the transfers cut the bytes of the endpoints, and however the reads
\* of the two interleave, each endpoint's packets are framed whole, in order and
\* without loss, and the reader resumes where it stopped.
THEOREM StreamsAreIntact == Spec => []StreamIntact
<1>1. StreamInv => StreamIntact
  <2> SUFFICES ASSUME StreamInv, NEW e \in Endpoints
               PROVE  \E n \in 0..sent[e] :
                        /\ HasFirst(Framed, e, n)
                        /\ LET rest == bytes[e] \o wire[e] IN
                           ~Stopped => IF rest = <<>>
                                       THEN n = sent[e]
                                       ELSE rest[1].packet = n + 1 /\ rest[1].index = 1
    BY Zenon DEF StreamIntact
  <2>1. PICK n \in Nat : Stream(e, n)
    BY DEF StreamInv
  <2>2. bytes[e] \in Seq(Octets) /\ wire[e] \in Seq(Octets) /\ sent[e] \in Nat
    BY DEF StreamInv, ReaderType
  <2> DEFINE rest == bytes[e] \o wire[e]
  <2> HIDE DEF rest
  <2>3. Len(rest) \in Nat /\ (rest = <<>> <=> Len(rest) = 0)
    <3>1. rest \in Seq(Octets)
      BY <2>2, Join, Zenon DEF rest
    <3> QED BY <3>1
  <2>4. ASSUME ~Stopped PROVE IF rest = <<>> THEN n = sent[e] ELSE rest[1].packet = n + 1 /\ rest[1].index = 1
    <3>1. Remains(rest, e, n, sent[e])
      BY <2>1, <2>4 DEF Stream, rest
    <3> QED BY <2>3, <3>1 DEF Remains, Stretch
  <2>5. n \in 0..sent[e] /\ HasFirst(Framed, e, n)
    BY <2>1, <2>2 DEF Stream
  <2> QED BY <2>4, <2>5, Zenon DEF rest
<1> QED BY <1>1, InitStream, NextStream, PTL DEF Spec

-----------------------------------------------------------------------------
(* The end of the stream *)

\* Whether a further send keeps EndIsLast depends on where the worker is: before
\* it fails or ends there are only packets, and between the two a failure is the
\* last entry.
EndInv ==
    \A i \in 1..Len(log) :
        /\ log[i].type = "Ended" => i = Len(log) /\ worker \in {"notify_ended", "done"}
        /\ log[i].type = "Failed" =>
              \/ i = Len(log) /\ worker \in {"notify_failed", "end"}
              \/ i >= Len(log) - 1 /\ worker \in {"notify_ended", "done"}

\* The worker puts one more message into the channel.
LEMMA SendExtendsLog ==
  ASSUME ReaderType, NEW m \in Events, channel' = channel \o <<m>>, UNCHANGED received
  PROVE  /\ Len(log) \in Nat /\ Len(log') = Len(log) + 1
         /\ log'[Len(log) + 1] = m /\ \A i \in 1..Len(log) : log'[i] = log[i]
<1>1. received \in Seq(Events) /\ channel \in Seq(Events) /\ log \in Seq(Events) /\ <<m>> \in Seq(Events)
  BY FramedIs DEF ReaderType, Pieced
<1>2. log' = log \o <<m>>
  BY <1>1, Assoc, ZenonT(40) DEF log
<1>3. Joins(log, <<m>>, log')
  BY <1>1, <1>2, Join, Zenon
<1>4. Len(<<m>>) = 1 /\ <<m>>[1] = m
  OBVIOUS
<1> HIDE DEF log
<1> QED BY <1>3, <1>4 DEF Joins

LEMMA NextEndInv == StreamInv /\ EndInv /\ [Next]_vars => EndInv'
<1> SUFFICES ASSUME StreamInv, EndInv, [Next]_vars PROVE EndInv'
  OBVIOUS
<1>1. CASE SendPacket
  <2>0. channel' = channel \o held /\ UNCHANGED received /\ worker = "send" /\ worker' = "notify"
    BY <1>1 DEF SendPacket, Send
  <2> DEFINE m == held[1]
  <2>1. m \in Packets /\ held = <<m>>
    <3>1. held \in Seq(Packets) /\ Len(held) = 1
      BY <2>0 DEF StreamInv, ReaderType, HeldToSend
    <3> QED BY <3>1
  <2> HIDE DEF m
  <2>2. m \in Events /\ m.type = "Packet" /\ channel' = channel \o <<m>>
    BY <2>0, <2>1, SMTT(30) DEF Events, Packets
  <2>3. /\ Len(log) \in Nat /\ Len(log') = Len(log) + 1
        /\ log'[Len(log) + 1] = m /\ \A i \in 1..Len(log) : log'[i] = log[i]
    BY <2>0, <2>2, SendExtendsLog, SMTT(30) DEF StreamInv
  <2>4. \A i \in 1..Len(log) : log[i].type \notin {"Ended", "Failed"}
    BY <2>0 DEF EndInv
  <2>5. \A i \in 1..Len(log') : log'[i].type \notin {"Ended", "Failed"}
    BY <2>2, <2>3, <2>4, SMTT(30)
  <2> QED BY <2>3, <2>5 DEF EndInv
<1>2. CASE SendFailed
  <2>1. Failed.type = "Failed"
    BY DEF Failed
  <2>2. channel' = channel \o <<Failed>> /\ UNCHANGED received /\ worker = "fail" /\ worker' = "notify_failed"
    BY <1>2 DEF SendFailed, Send
  <2>3. /\ Len(log) \in Nat /\ Len(log') = Len(log) + 1
        /\ log'[Len(log) + 1] = Failed /\ \A i \in 1..Len(log) : log'[i] = log[i]
    BY <2>2, SendExtendsLog DEF StreamInv, Events
  <2>4. \A i \in 1..Len(log) : log[i].type \notin {"Ended", "Failed"}
    BY <2>2 DEF EndInv
  <2>5. \A i \in 1..Len(log') : log'[i].type # "Ended" /\ (log'[i].type = "Failed" => i = Len(log'))
    BY <2>1, <2>3, <2>4
  <2> QED BY <2>2, <2>3, <2>5 DEF EndInv
<1>3. CASE SendEnded
  <2>1. Ended.type = "Ended"
    BY DEF Ended
  <2>2. channel' = channel \o <<Ended>> /\ UNCHANGED received /\ worker = "end" /\ worker' = "notify_ended"
    BY <1>3 DEF SendEnded, Send
  <2>3. /\ Len(log) \in Nat /\ Len(log') = Len(log) + 1
        /\ log'[Len(log) + 1] = Ended /\ \A i \in 1..Len(log) : log'[i] = log[i]
    BY <2>2, SendExtendsLog DEF StreamInv, Events
  <2>4. \A i \in 1..Len(log) : log[i].type # "Ended" /\ (log[i].type = "Failed" => i = Len(log))
    BY <2>2 DEF EndInv
  <2>5. \A i \in 1..Len(log') : /\ log'[i].type = "Ended" => i = Len(log')
                              /\ log'[i].type = "Failed" => i >= Len(log') - 1
    BY <2>1, <2>3, <2>4
  <2> QED BY <2>2, <2>3, <2>5, SMTT(30) DEF EndInv
<1>4. CASE Notify
  <2>1. UNCHANGED <<channel, received>>
    BY <1>4 DEF Notify
  <2>2. /\ worker \in {"notify", "notify_failed", "notify_ended"}
        /\ worker = "notify_failed" => worker' = "end"
        /\ worker = "notify_ended" => worker' = "done"
    BY <1>4 DEF Notify, After
  <2> QED BY <2>1, <2>2, SMTT(30) DEF EndInv, log
<1>5. CASE Check \/ ReadBytes \/ ReadTimeout \/ ReadError
  <2>1. UNCHANGED <<channel, received>> /\ worker \in {"loop", "read"}
    BY <1>5 DEF Check, ReadBytes, ReadTimeout, ReadError
  <2> QED BY <2>1, SMTT(30) DEF EndInv, log
<1>6. CASE Recv
  <2>1. UNCHANGED worker /\ log' = log
    BY <1>6, RecvKeepsLog DEF Recv, StreamInv
  <2> QED BY <2>1 DEF EndInv
<1>7. CASE Wake \/ Close \/ Joined \/ DeviceSends \/ UNCHANGED vars
  <2>1. UNCHANGED <<channel, received, worker>>
    BY <1>7, Zenon DEF Wake, Close, Joined, DeviceSends, vars
  <2> QED BY <2>1 DEF EndInv, log
<1> QED BY <1>1, <1>2, <1>3, <1>4, <1>5, <1>6, <1>7 DEF Next, Worker

\* The session learns of a failure before the end of the stream, and nothing
\* comes after the end.
THEOREM EndComesLast == Spec => []EndIsLast
<1>1. Init => EndInv
  <2> SUFFICES ASSUME Init PROVE EndInv
    OBVIOUS
  <2>1. log = <<>>
    BY DEF Init, log
  <2>2. Len(log) = 0
    BY <2>1
  <2> QED BY <2>2 DEF EndInv
<1>2. StreamInv /\ EndInv => EndIsLast
  <2> SUFFICES ASSUME StreamInv, EndInv PROVE EndIsLast
    OBVIOUS
  <2>1. log \in Seq(Events)
    BY FramedIs DEF StreamInv, Pieced
  <2>2. Len(log) \in Nat
    BY <2>1
  <2> QED BY <2>2 DEF EndInv, EndIsLast, log, Stopped
<1> QED BY <1>1, <1>2, InitStream, NextStream, NextEndInv, PTL DEF Spec

=============================================================================
