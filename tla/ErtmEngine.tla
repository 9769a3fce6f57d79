----------------------------- MODULE ErtmEngine -----------------------------
(***************************************************************************)
(* The invariant by which two retransmission engines over lossy links        *)
(* implement a reliable stream of SDUs, and what each engine operation does  *)
(* to it, for every modulus, every window smaller than it, every script and  *)
(* any number of faults. The invariant replaces the wrapping sequence        *)
(* numbers by the absolute positions they stand for: a window smaller than   *)
(* the modulus and links that keep the order of frames leave only one        *)
(* position that a sequence number can mean where it is read.                *)
(***************************************************************************)
EXTENDS Ertm, SequenceTheorems, TLAPS

-----------------------------------------------------------------------------
(* Arithmetic modulo a positive number *)

LEMMA DivMod ==
  ASSUME NEW M \in Nat, M > 0, NEW a \in Int
  PROVE  \E q \in Int : a = q * M + (a % M)
<1>1. a = (a \div M) * M + (a % M)
  OBVIOUS
<1>2. a \div M \in Int
  OBVIOUS
<1> QED BY <1>1, <1>2

LEMMA ModRange ==
  ASSUME NEW M \in Nat, M > 0, NEW a \in Int
  PROVE  a % M \in 0..(M - 1)
  OBVIOUS

LEMMA Multiples ==
  ASSUME NEW M \in Nat, M > 0, NEW p \in Int, NEW q \in Int,
         q * M - p * M < M, p * M - q * M < M
  PROVE  p = q
<1>1. p * M \in Int /\ q * M \in Int
  OBVIOUS
<1>2. p < q => q * M >= (p + 1) * M
  OBVIOUS
<1>3. q < p => p * M >= (q + 1) * M
  OBVIOUS
<1>4. (p + 1) * M = p * M + M /\ (q + 1) * M = q * M + M
  OBVIOUS
<1> QED BY <1>1, <1>2, <1>3, <1>4

LEMMA ModUnique ==
  ASSUME NEW M \in Nat, M > 0, NEW a \in Int, NEW b \in Int, a % M = b % M, a - b < M, b - a < M
  PROVE  a = b
<1>1. PICK q \in Int : a = q * M + (a % M)
  BY DivMod
<1>2. PICK p \in Int : b = p * M + (b % M)
  BY DivMod
<1>3. q * M \in Int /\ p * M \in Int /\ a % M \in Int
  BY ModRange
<1>4. q * M - p * M < M /\ p * M - q * M < M
  BY <1>1, <1>2, <1>3
<1> QED BY <1>1, <1>2, <1>4, Multiples

LEMMA ModIs ==
  ASSUME NEW M \in Nat, M > 0, NEW a \in Int, NEW q \in Int, NEW c \in 0..(M-1), a = q * M + c
  PROVE  a % M = c
<1>1. PICK p \in Int : a = p * M + (a % M)
  BY DivMod
<1>2. q * M \in Int /\ p * M \in Int /\ a % M \in 0..(M-1)
  BY ModRange
<1>3. q * M - p * M < M /\ p * M - q * M < M
  BY <1>1, <1>2
<1>4. p = q
  BY <1>3, Multiples
<1> QED BY <1>1, <1>2, <1>4

LEMMA ModAdd ==
  ASSUME NEW M \in Nat, M > 0, NEW a \in Int, NEW b \in Int
  PROVE  ((a % M) + b) % M = (a + b) % M
<1> DEFINE c == (a % M) + b
<1>1. PICK q \in Int : a = q * M + (a % M)
  BY DivMod
<1>2. c \in Int
  BY ModRange
<1>3. q * M \in Int /\ a + b = q * M + c
  BY <1>1, ModRange
<1> HIDE DEF c
<1>4. PICK p \in Int : c = p * M + (c % M)
  BY <1>2, DivMod
<1>5. c % M \in 0..(M - 1)
  BY <1>2, ModRange
<1>6. (q + p) * M = q * M + p * M /\ p * M \in Int
  OBVIOUS
<1>7. a + b = (q + p) * M + (c % M)
  BY <1>2, <1>3, <1>4, <1>5, <1>6
<1>8. a + b \in Int /\ q + p \in Int
  OBVIOUS
<1>9. (a + b) % M = c % M
  BY <1>5, <1>7, <1>8, ModIs, Zenon
<1> QED BY <1>9 DEF c

LEMMA ModDistance ==
  ASSUME NEW M \in Nat, M > 0, NEW a \in Int, NEW b \in Int, a <= b, b - a < M
  PROVE  ((b % M) + M - (a % M)) % M = b - a
<1> DEFINE c == a % M
<1> DEFINE d == b % M
<1>0. c \in 0..(M-1) /\ d \in 0..(M-1)
  BY ModRange
<1>1. PICK q \in Int : a = q * M + c
  BY DivMod
<1>2. PICK p \in Int : b = p * M + d
  BY DivMod, Zenon
<1> HIDE DEF c, d
<1>3. (q - p + 1) * M = q * M - p * M + M
  OBVIOUS
<1>4. q * M \in Int /\ p * M \in Int
  OBVIOUS
<1>5. d + M - c = (q - p + 1) * M + (b - a)
  BY <1>0, <1>1, <1>2, <1>3, <1>4
<1>6. (d + M - c) % M = b - a
  BY <1>0, <1>5, ModIs
<1> QED BY <1>6 DEF c, d
-----------------------------------------------------------------------------
(* The inductive invariant *)

Wrapped == 0..(Modulus - 1)
SduType == [number : Nat \ {0}, of : Nat \ {0}]
SegmentType == [sdu : SduType, index : Nat \ {0}]
FrameType == [tx_seq : Wrapped, segment : SegmentType, transmissions : Nat]
MessageType ==
    [type : {"RR", "RNR", "REJ"}, req_seq : Wrapped]
        \cup [type : {"I"}, req_seq : Wrapped, tx_seq : Wrapped, segment : SegmentType]
EngineType ==
    [pending : Seq(FrameType), tx_window : Seq(FrameType), outbound : Seq(MessageType),
     received : Seq(Seq(SegmentType)), next_tx_seq : Wrapped, last_acked_tx_seq : Wrapped,
     expected_tx_seq : Wrapped, last_acked_rx_seq : Wrapped, remote_busy : BOOLEAN,
     local_busy : BOOLEAN, input_sdu : Seq(SegmentType), error : {"none", "failed"}]

\* stream is all segments of the SDUs sdus, in order.
Follows(g, next) ==
    IF g.index = g.sdu.of
    THEN next.index = 1 /\ next.sdu.number = g.sdu.number + 1
    ELSE next.index = g.index + 1 /\ next.sdu = g.sdu

Streams(stream, sdus) ==
    /\ stream \in Seq(SegmentType) /\ sdus \in Seq(SduType)
    /\ \A i \in 1..Len(sdus) : sdus[i].number = i
    /\ \A i \in 1..Len(stream) :
        /\ stream[i].sdu.number \in 1..Len(sdus)
        /\ stream[i].sdu = sdus[stream[i].sdu.number]
        /\ stream[i].index <= stream[i].sdu.of
    /\ \A i \in 1..(Len(stream) - 1) : Follows(stream[i], stream[i + 1])
    /\ stream = <<>> => sdus = <<>>
    /\ stream # <<>> =>
        /\ stream[1].index = 1 /\ stream[1].sdu.number = 1
        /\ stream[Len(stream)].index = stream[Len(stream)].sdu.of
        /\ stream[Len(stream)].sdu.number = Len(sdus)

\* frames are the segments of stream from position from + 1 on, with the
\* sequence numbers that those positions wrap to.
Numbered(frames, stream, from) ==
    \A i \in 1..Len(frames) :
        /\ frames[i].tx_seq = (from + i - 1) % Modulus
        /\ frames[i].segment = stream[from + i]

\* Engine s sends stream and has seen its first acked segments acknowledged.
Sends(s, stream, acked) ==
    /\ s \in EngineType /\ stream \in Seq(SegmentType) /\ acked \in Nat
    /\ Len(s.tx_window) <= Window
    /\ Len(stream) = acked + Len(s.tx_window) + Len(s.pending)
    /\ Numbered(s.tx_window, stream, acked)
    /\ Numbered(s.pending, stream, acked + Len(s.tx_window))
    /\ s.last_acked_tx_seq = acked % Modulus
    /\ s.next_tx_seq = Len(stream) % Modulus

\* Engine t has accepted the first taken segments of stream: every SDU that is
\* complete among them, and the beginning of one that is not.
Takes(t, stream, taken, sdus) ==
    /\ taken \in 0..Len(stream)
    /\ t.expected_tx_seq = taken % Modulus
    /\ taken = 0 => t.input_sdu = <<>> /\ t.received = <<>>
    /\ taken > 0 =>
        LET g == stream[taken] IN
        IF g.index = g.sdu.of
        THEN t.input_sdu = <<>> /\ Len(t.received) = g.sdu.number
        ELSE /\ t.input_sdu = [i \in 1..g.index |-> Segment(g.sdu, i)]
             /\ Len(t.received) = g.sdu.number - 1
    /\ \A i \in 1..Len(t.received) : t.received[i] = Segments(sdus[i])

\* The messages on a link stand for positions: at[i] for what information
\* message i carries and ack[i] for what message i acknowledges. What is carried
\* lies below top, and close enough to the receiver's position and to what comes
\* after it on the link that its number is read as the position it stands for.
\* What is acknowledged grows along the link, from low to high.
Carries(link, at, ack, stream, top, taken, low, high) ==
    /\ at \in [1..Len(link) -> Nat] /\ ack \in [1..Len(link) -> Nat]
    /\ \A i \in 1..Len(link) :
        /\ link[i].req_seq = ack[i] % Modulus
        /\ low <= ack[i] /\ ack[i] <= high
        /\ link[i].type = "I" =>
            /\ at[i] < top /\ taken <= at[i] + Window
            /\ link[i].tx_seq = at[i] % Modulus
            /\ link[i].segment = stream[at[i] + 1]
    /\ \A i, j \in 1..Len(link) : i < j =>
        /\ ack[i] <= ack[j]
        /\ link[i].type = "I" /\ link[j].type = "I" => at[i] < at[j] + Window

Carried(link, stream, top, taken, low, high) ==
    \E at, ack : Carries(link, at, ack, stream, top, taken, low, high)

\* One direction: s sends to t, which acknowledges no more than it has taken;
\* the link also carries s's acknowledgements of the other direction, between
\* low and high.
Direction(s, t, sdus, stream, acked, taken, low, high) ==
    /\ Streams(stream, sdus)
    /\ Sends(s, stream, acked)
    /\ Takes(t, stream, taken, sdus)
    /\ acked <= taken /\ taken <= acked + Len(s.tx_window)
    /\ Carried(s.outbound, stream, acked + Len(s.tx_window), taken, low, high)

Positions(stream, acked, taken) ==
    /\ acked \in [Sides -> Nat] /\ taken \in [Sides -> Nat]
    /\ \A e \in Sides :
        Direction(engine[e], engine[Other(e)], sent[e], stream[e], acked[e], taken[e],
                  acked[Other(e)], taken[Other(e)])

IInv ==
    /\ engine \in [Sides -> EngineType] /\ sent \in [Sides -> Seq(SduType)]
    /\ \E stream, acked, taken : Positions(stream, acked, taken)

-----------------------------------------------------------------------------
(* Links *)

LEMMA WindowFacts == Modulus \in Nat /\ Modulus > 0 /\ Window \in Nat /\ Window < Modulus /\ Window > 0
  BY WindowAssumption

LEMMA FunctionIsSeq ==
  ASSUME NEW S, NEW n \in Nat, NEW f \in [1..n -> S]
  PROVE  f \in Seq(S) /\ Len(f) = n
<1>1. f \in Seq(S)
  BY SeqDef
<1> QED BY <1>1, LenProperties

\* The head of a link leaves the rest with higher bounds.
LEMMA CarriedHead ==
  ASSUME NEW link \in Seq(MessageType), link # <<>>, NEW stream, NEW top \in Nat,
         NEW taken \in Nat, NEW low \in Nat, NEW high \in Nat,
         Carried(link, stream, top, taken, low, high)
  PROVE  \E k \in low..high :
            /\ Head(link).req_seq = k % Modulus
            /\ Carried(Tail(link), stream, top, taken, k, high)
            /\ Head(link).type = "I" =>
                 \E p \in Nat :
                    /\ p < top /\ taken <= p + Window
                    /\ Head(link).tx_seq = p % Modulus
                    /\ Head(link).segment = stream[p + 1]
                    /\ Carried(Tail(link), stream, top, p + 1, k, high)
<1>1. PICK at, ack : Carries(link, at, ack, stream, top, taken, low, high)
  BY DEF Carried
<1> DEFINE rest == Tail(link)
           n == Len(rest)
           at2 == [i \in 1..n |-> at[i + 1]]
           ack2 == [i \in 1..n |-> ack[i + 1]]
<1>2. /\ Len(link) \in Nat /\ Len(link) >= 1 /\ n = Len(link) - 1
      /\ \A i \in 1..n : rest[i] = link[i + 1] /\ i + 1 \in 1..Len(link)
      /\ Head(link) = link[1]
  BY HeadTailProperties, EmptySeq, LenProperties
<1>3. /\ ack[1] \in low..high /\ Head(link).req_seq = ack[1] % Modulus
      /\ at2 \in [1..n -> Nat] /\ ack2 \in [1..n -> Nat]
  BY <1>1, <1>2, SMTT(30) DEF Carries
<1> HIDE DEF n, rest
<1>4. /\ \A i \in 1..n :
          /\ rest[i].req_seq = ack2[i] % Modulus
          /\ ack[1] <= ack2[i] /\ ack2[i] <= high
          /\ rest[i].type = "I" =>
              /\ at2[i] < top /\ taken <= at2[i] + Window
              /\ rest[i].tx_seq = at2[i] % Modulus
              /\ rest[i].segment = stream[at2[i] + 1]
      /\ \A i, j \in 1..n : i < j =>
          /\ ack2[i] <= ack2[j]
          /\ rest[i].type = "I" /\ rest[j].type = "I" => at2[i] < at2[j] + Window
  BY <1>1, <1>2, SMTT(30) DEF Carries
<1>5. Carries(rest, at2, ack2, stream, top, taken, ack[1], high)
  BY <1>3, <1>4 DEF Carries, n
<1>6. ASSUME Head(link).type = "I"
      PROVE  \E p \in Nat :
                /\ p < top /\ taken <= p + Window
                /\ Head(link).tx_seq = p % Modulus
                /\ Head(link).segment = stream[p + 1]
                /\ Carried(rest, stream, top, p + 1, ack[1], high)
  <2>0. 1 \in 1..Len(link) /\ link[1].type = "I" /\ at \in [1..Len(link) -> Nat]
    BY <1>1, <1>2, <1>6 DEF Carries
  <2>1. /\ at[1] \in Nat /\ at[1] < top /\ taken <= at[1] + Window
        /\ link[1].tx_seq = at[1] % Modulus
        /\ link[1].segment = stream[at[1] + 1]
    BY <1>1, <2>0, SMTT(30) DEF Carries
  <2>2. \A i \in 1..n : rest[i].type = "I" => at[1] + 1 <= at2[i] + Window
    <3> SUFFICES ASSUME NEW i \in 1..n, rest[i].type = "I" PROVE at[1] + 1 <= at2[i] + Window
      OBVIOUS
    <3>1. i + 1 \in 1..Len(link) /\ link[i + 1].type = "I" /\ 1 < i + 1
      BY <1>2
    <3>2. at[1] < at[i + 1] + Window /\ at[i + 1] \in Nat
      BY <1>1, <2>0, <3>1 DEF Carries
    <3> QED BY <2>1, <3>2, WindowFacts
  <2>3. Carries(rest, at2, ack2, stream, top, at[1] + 1, ack[1], high)
    BY <1>3, <1>4, <2>2 DEF Carries, n
  <2> QED BY <1>2, <2>1, <2>3, SMTT(30) DEF Carried
<1> QED BY <1>3, <1>5, <1>6 DEF Carried, rest


\* A message that an engine puts on its link, whose window covers the positions
\* from acked to top and which expects position next.
Emitted(m, stream, acked, top, position) ==
    /\ m.req_seq = position % Modulus
    /\ m.type = "I" =>
        \E p \in Nat :
            /\ acked <= p /\ p < top
            /\ m.tx_seq = p % Modulus /\ m.segment = stream[p + 1]

\* A link carries what the engine adds to it, when the stream, the window and
\* the position that is acknowledged have grown.
LEMMA CarriedMore ==
  ASSUME NEW link \in Seq(MessageType), NEW more \in Seq(MessageType),
         NEW stream, NEW longer, NEW top \in Nat, NEW top2 \in Nat, NEW acked \in Nat,
         NEW taken \in Nat, NEW low \in Nat, NEW high \in Nat, NEW high2 \in Nat,
         \A i \in 1..top : longer[i] = stream[i],
         top <= top2, top2 <= acked + Window, taken <= acked + Window,
         low <= high2, high <= high2,
         Carried(link, stream, top, taken, low, high),
         \A i \in 1..Len(more) : Emitted(more[i], longer, acked, top2, high2)
  PROVE  Carried(link \o more, longer, top2, taken, low, high2)
<1>1. PICK at, ack : Carries(link, at, ack, stream, top, taken, low, high)
  BY DEF Carried
<1> DEFINE all == link \o more
           L == Len(link)
           Place(m, p) == /\ acked <= p /\ p < top2
                          /\ m.tx_seq = p % Modulus /\ m.segment = longer[p + 1]
           place == [j \in 1..Len(more) |->
                       IF more[j].type = "I" THEN CHOOSE p \in Nat : Place(more[j], p) ELSE 0]
           at2 == [i \in 1..Len(all) |-> IF i <= L THEN at[i] ELSE place[i - L]]
           ack2 == [i \in 1..Len(all) |-> IF i <= L THEN ack[i] ELSE high2]
<1>2. /\ L \in Nat /\ Len(more) \in Nat /\ Len(all) = L + Len(more)
      /\ \A i \in 1..L : all[i] = link[i] /\ i \in 1..Len(all)
      /\ \A i \in 1..Len(all) : ~(i <= L) => all[i] = more[i - L] /\ i - L \in 1..Len(more)
  BY ConcatProperties, LenProperties
<1>3. \A j \in 1..Len(more) :
        /\ place[j] \in Nat
        /\ more[j].type = "I" => Place(more[j], place[j])
  <2> SUFFICES ASSUME NEW j \in 1..Len(more)
               PROVE  place[j] \in Nat /\ (more[j].type = "I" => Place(more[j], place[j]))
    BY Zenon
  <2>1. CASE more[j].type = "I"
    <3>1. \E p \in Nat : Place(more[j], p)
      BY <2>1 DEF Emitted
    <3>2. place[j] = CHOOSE p \in Nat : Place(more[j], p)
      BY <2>1
    <3> HIDE DEF Place, place
    <3> QED BY <3>1, <3>2, SMTT(30)
  <2>2. CASE more[j].type # "I"
    BY <2>2
  <2> QED BY <2>1, <2>2
<1> HIDE DEF place, all, L
<1>4. at2 \in [1..Len(all) -> Nat] /\ ack2 \in [1..Len(all) -> Nat]
  BY <1>1, <1>2, <1>3, SMTT(30) DEF Carries, L
<1>5. ASSUME NEW i \in 1..Len(all)
      PROVE  /\ all[i].req_seq = ack2[i] % Modulus
             /\ low <= ack2[i] /\ ack2[i] <= high2
             /\ all[i].type = "I" =>
                 /\ at2[i] < top2 /\ taken <= at2[i] + Window
                 /\ all[i].tx_seq = at2[i] % Modulus
                 /\ all[i].segment = longer[at2[i] + 1]
  <2>1. CASE i <= L
    <3>1. i \in 1..Len(link) /\ all[i] = link[i] /\ at2[i] = at[i] /\ ack2[i] = ack[i]
      BY <1>2, <2>1 DEF L
    <3>2. /\ link[i].req_seq = ack[i] % Modulus
          /\ low <= ack[i] /\ ack[i] <= high /\ ack[i] \in Nat /\ at[i] \in Nat
          /\ link[i].type = "I" =>
              /\ at[i] < top /\ taken <= at[i] + Window
              /\ link[i].tx_seq = at[i] % Modulus
              /\ link[i].segment = stream[at[i] + 1]
      BY <1>1, <3>1, SMTT(30) DEF Carries
    <3>3. ASSUME at[i] < top PROVE longer[at[i] + 1] = stream[at[i] + 1] /\ at[i] < top2
      <4>1. at[i] + 1 \in 1..top /\ at[i] < top2
        BY <3>2, <3>3, SMTT(30)
      <4> QED BY <4>1
    <3> HIDE DEF at2, ack2
    <3> QED BY <3>1, <3>2, <3>3, SMTT(30)
  <2>2. CASE ~(i <= L)
    <3>1. i - L \in 1..Len(more) /\ all[i] = more[i - L] /\ at2[i] = place[i - L] /\ ack2[i] = high2
      BY <1>2, <2>2, SMTT(30)
    <3>2. more[i - L].req_seq = high2 % Modulus
      BY <3>1 DEF Emitted
    <3>3. place[i - L] \in Nat /\ (more[i - L].type = "I" => Place(more[i - L], place[i - L]))
      BY <1>3, <3>1, SMTT(30)
    <3> HIDE DEF at2, ack2
    <3>4. low <= ack2[i] /\ ack2[i] <= high2 /\ all[i].req_seq = ack2[i] % Modulus
      BY <3>1, <3>2
    <3>5. all[i].type = "I" => Place(all[i], at2[i])
      BY <3>1, <3>3
    <3>6. at2[i] \in Nat
      BY <3>1, <3>3
    <3>7. acked <= at2[i] => taken <= at2[i] + Window
      BY <3>6, WindowFacts, SMTT(30)
    <3> QED BY <3>4, <3>5, <3>7
  <2> QED BY <2>1, <2>2
<1>6. ASSUME NEW i \in 1..Len(all), NEW j \in 1..Len(all), i < j
      PROVE  /\ ack2[i] <= ack2[j]
             /\ all[i].type = "I" /\ all[j].type = "I" => at2[i] < at2[j] + Window
  <2>1. CASE j <= L
    <3>1. /\ i \in 1..Len(link) /\ all[i] = link[i] /\ at2[i] = at[i] /\ ack2[i] = ack[i]
          /\ j \in 1..Len(link) /\ all[j] = link[j] /\ at2[j] = at[j] /\ ack2[j] = ack[j]
      BY <1>2, <1>6, <2>1 DEF L
    <3> QED BY <1>1, <1>6, <3>1 DEF Carries
  <2>2. CASE ~(j <= L)
    <3>1. j - L \in 1..Len(more) /\ all[j] = more[j - L] /\ at2[j] = place[j - L] /\ ack2[j] = high2
      BY <1>2, <2>2, SMTT(30)
    <3>2. all[j].type = "I" => at2[j] \in Nat /\ acked <= at2[j]
      BY <1>3, <3>1, Zenon
    <3>3. ack2[i] <= high2 /\ (all[i].type = "I" => at2[i] < top2 /\ at2[i] \in Nat)
      BY <1>4, <1>5, SMTT(30)
    <3> HIDE DEF at2, ack2
    <3>4. ASSUME all[i].type = "I", all[j].type = "I" PROVE at2[i] < at2[j] + Window
      <4>1. at2[j] \in Nat /\ acked <= at2[j] /\ at2[i] \in Nat /\ at2[i] < top2
        BY <3>2, <3>3, <3>4, SMTT(30)
      <4>2. \A x, y \in Nat : x < top2 /\ acked <= y => x < y + Window
        BY WindowFacts, SMTT(30)
      <4> QED BY <4>1, <4>2, SMTT(30)
    <3> QED BY <3>1, <3>3, <3>4
  <2> QED BY <1>2, <2>1, <2>2
<1> HIDE DEF at2, ack2
<1>7. Carries(all, at2, ack2, longer, top2, taken, low, high2)
  BY <1>4, <1>5, <1>6 DEF Carries
<1> QED BY <1>7 DEF Carried, all

-----------------------------------------------------------------------------
(* What a method of the engine puts on the link *)

\* A step of a sending method from s to s2: the window may grow, and what is put
\* on the link comes from the window and acknowledges position.
Outputs(s, s2, stream, acked, position) ==
    /\ Sends(s2, stream, acked)
    /\ s2.expected_tx_seq = s.expected_tx_seq
    /\ s2.received = s.received /\ s2.input_sdu = s.input_sdu
    /\ Len(s.tx_window) <= Len(s2.tx_window)
    /\ \E more \in Seq(MessageType) :
        /\ s2.outbound = s.outbound \o more
        /\ \A i \in 1..Len(more) :
            Emitted(more[i], stream, acked, acked + Len(s2.tx_window), position)

LEMMA MessagesAssociate == \A a, b, c \in Seq(MessageType) : (a \o b) \o c = a \o (b \o c)
  BY ConcatAssociative

LEMMA OutputsTransitive ==
  ASSUME NEW s \in EngineType, NEW s2, NEW s3, NEW stream, NEW acked, NEW position,
         Outputs(s, s2, stream, acked, position), Outputs(s2, s3, stream, acked, position)
  PROVE  Outputs(s, s3, stream, acked, position)
<1>1. s2 \in EngineType /\ s3 \in EngineType /\ acked \in Nat
  BY DEF Outputs, Sends
<1>2. PICK m2 \in Seq(MessageType) :
        /\ s2.outbound = s.outbound \o m2
        /\ \A i \in 1..Len(m2) : Emitted(m2[i], stream, acked, acked + Len(s2.tx_window), position)
  BY Zenon DEF Outputs
<1>3. PICK m3 \in Seq(MessageType) :
        /\ s3.outbound = s2.outbound \o m3
        /\ \A i \in 1..Len(m3) : Emitted(m3[i], stream, acked, acked + Len(s3.tx_window), position)
  BY Zenon DEF Outputs
<1> DEFINE more == m2 \o m3
<1>4. /\ s.outbound \in Seq(MessageType)
      /\ Len(s.tx_window) \in Nat /\ Len(s2.tx_window) \in Nat /\ Len(s3.tx_window) \in Nat
  BY <1>1, LenProperties DEF EngineType
<1>5. more \in Seq(MessageType) /\ s3.outbound = s.outbound \o more
  <2>1. (s.outbound \o m2) \o m3 = s.outbound \o (m2 \o m3)
    BY <1>4, MessagesAssociate, Zenon
  <2> QED BY <1>2, <1>3, <2>1, ConcatProperties
<1>6. ASSUME NEW i \in 1..Len(more)
      PROVE  Emitted(more[i], stream, acked, acked + Len(s3.tx_window), position)
  <2>1. Len(s2.tx_window) <= Len(s3.tx_window)
    BY DEF Outputs
  <2>2. \/ i \in 1..Len(m2) /\ more[i] = m2[i]
        \/ i - Len(m2) \in 1..Len(m3) /\ more[i] = m3[i - Len(m2)]
    BY ConcatProperties, LenProperties
  <2>3. CASE i \in 1..Len(m2) /\ more[i] = m2[i]
    <3> HIDE DEF more
    <3> QED BY <1>1, <1>2, <1>4, <2>1, <2>3, SMTT(30) DEF Emitted
  <2>4. CASE i - Len(m2) \in 1..Len(m3) /\ more[i] = m3[i - Len(m2)]
    <3> HIDE DEF more
    <3> QED BY <1>3, <2>4
  <2> QED BY <2>2, <2>3, <2>4
<1>7. /\ Sends(s3, stream, acked)
      /\ s3.expected_tx_seq = s.expected_tx_seq
      /\ s3.received = s.received /\ s3.input_sdu = s.input_sdu
      /\ Len(s.tx_window) <= Len(s3.tx_window)
  BY <1>4 DEF Outputs
<1> HIDE DEF more
<1> QED BY <1>5, <1>6, <1>7, Zenon DEF Outputs

LEMMA OutputsNothing ==
  ASSUME NEW s, NEW stream, NEW acked, NEW position, Sends(s, stream, acked)
  PROVE  Outputs(s, s, stream, acked, position)
<1>1. s.outbound \in Seq(MessageType) /\ Len(s.tx_window) \in Nat
  BY LenProperties DEF Sends, EngineType
<1>2. <<>> \in Seq(MessageType) /\ s.outbound = s.outbound \o <<>>
  BY <1>1, EmptySeq, ConcatEmptySeq
<1>3. \A i \in 1..Len(<<>>) :
        Emitted(<<>>[i], stream, acked, acked + Len(s.tx_window), position)
  OBVIOUS
<1>4. Len(s.tx_window) <= Len(s.tx_window)
  BY <1>1
<1> QED BY <1>2, <1>3, <1>4, Zenon DEF Outputs

LEMMA Supervises ==
  ASSUME NEW s, NEW stream, NEW acked, NEW position \in Nat,
         NEW type \in {"RR", "RNR", "REJ"},
         Sends(s, stream, acked), s.expected_tx_seq = position % Modulus
  PROVE  Outputs(s, send_supervisory(s, type), stream, acked, position)
<1> DEFINE m == Supervisory(type, s.expected_tx_seq)
           s2 == send_supervisory(s, type)
<1>1. s \in EngineType
  BY DEF Sends
<1>2. m \in MessageType /\ m.req_seq = position % Modulus /\ m.type # "I"
  BY <1>1 DEF EngineType, MessageType, Supervisory
<1>3. s2 = [s EXCEPT !.outbound = Append(@, m), !.last_acked_rx_seq = s.expected_tx_seq]
  BY DEF send_supervisory
<1> HIDE DEF m, s2
<1>4. Append(s.outbound, m) \in Seq(MessageType) /\ Append(s.outbound, m) = s.outbound \o <<m>>
  BY <1>1, <1>2, AppendIsConcat, AppendProperties DEF EngineType
<1>5. /\ s2 \in EngineType /\ s2.outbound = s.outbound \o <<m>>
      /\ s2.tx_window = s.tx_window /\ s2.pending = s.pending
      /\ s2.last_acked_tx_seq = s.last_acked_tx_seq /\ s2.next_tx_seq = s.next_tx_seq
      /\ s2.expected_tx_seq = s.expected_tx_seq
      /\ s2.received = s.received /\ s2.input_sdu = s.input_sdu
  BY <1>1, <1>3, <1>4, Zenon DEF EngineType
<1>6. Sends(s2, stream, acked)
  BY <1>5 DEF Sends
<1>7. <<m>> \in Seq(MessageType) /\ Len(<<m>>) = 1 /\ <<m>>[1] = m
  BY <1>2
<1>8. \A i \in 1..Len(<<m>>) :
        Emitted(<<m>>[i], stream, acked, acked + Len(s2.tx_window), position)
  BY <1>2, <1>7 DEF Emitted
<1>9. Len(s.tx_window) <= Len(s2.tx_window)
  BY <1>1, <1>5, LenProperties DEF EngineType
<1> QED BY <1>5, <1>6, <1>7, <1>8, <1>9, Zenon DEF Outputs, s2

\* Frames of the window, put on the link.
LEMMA Transmits ==
  ASSUME NEW s \in EngineType, NEW frames \in Seq(FrameType), NEW stream, NEW acked \in Nat,
         NEW from \in Nat, NEW top \in Nat, NEW position \in Nat,
         acked <= from, from + Len(frames) <= top,
         Numbered(frames, stream, from), s.expected_tx_seq = position % Modulus
  PROVE  LET s2 == Transmit(s, frames) IN
         /\ s2 \in EngineType
         /\ s2.tx_window = s.tx_window /\ s2.pending = s.pending
         /\ s2.last_acked_tx_seq = s.last_acked_tx_seq /\ s2.next_tx_seq = s.next_tx_seq
         /\ s2.expected_tx_seq = s.expected_tx_seq
         /\ s2.received = s.received /\ s2.input_sdu = s.input_sdu
         /\ \E more \in Seq(MessageType) :
              /\ s2.outbound = s.outbound \o more
              /\ \A i \in 1..Len(more) : Emitted(more[i], stream, acked, top, position)
<1> DEFINE s2 == Transmit(s, frames)
           more == [i \in 1..Len(frames) |-> Information(frames[i], s.expected_tx_seq)]
           rx == IF frames = <<>> THEN s.last_acked_rx_seq ELSE s.expected_tx_seq
<1>1. Len(frames) \in Nat /\ \A i \in 1..Len(frames) : frames[i] \in FrameType
  BY LenProperties, ElementOfSeq
<1>2. \A i \in 1..Len(frames) : Information(frames[i], s.expected_tx_seq) \in MessageType
  BY <1>1, SMTT(30) DEF Information, MessageType, FrameType, EngineType
<1>3. more \in Seq(MessageType) /\ Len(more) = Len(frames)
  <2>1. more \in [1..Len(frames) -> MessageType]
    BY <1>2
  <2> HIDE DEF more
  <2> QED BY <1>1, <2>1, FunctionIsSeq
<1>4. \A i \in 1..Len(frames) : more[i] = Information(frames[i], s.expected_tx_seq)
  OBVIOUS
<1>5. rx \in Wrapped
  BY DEF EngineType
<1>6. s2 = [s EXCEPT !.outbound = @ \o more, !.last_acked_rx_seq = rx]
  BY DEF Transmit
<1> HIDE DEF more, rx, s2
<1>7. s.outbound \o more \in Seq(MessageType)
  BY <1>3, ConcatProperties DEF EngineType
<1>8. /\ s2 \in EngineType
      /\ s2.tx_window = s.tx_window /\ s2.pending = s.pending
      /\ s2.last_acked_tx_seq = s.last_acked_tx_seq /\ s2.next_tx_seq = s.next_tx_seq
      /\ s2.expected_tx_seq = s.expected_tx_seq
      /\ s2.received = s.received /\ s2.input_sdu = s.input_sdu
      /\ s2.outbound = s.outbound \o more
  BY <1>5, <1>6, <1>7, Zenon DEF EngineType
<1>9. ASSUME NEW i \in 1..Len(more)
      PROVE  Emitted(more[i], stream, acked, top, position)
  <2> DEFINE p == from + i - 1
  <2>1. i \in 1..Len(frames) /\ more[i] = Information(frames[i], s.expected_tx_seq)
    BY <1>3, <1>4
  <2>2. frames[i].tx_seq = p % Modulus /\ frames[i].segment = stream[from + i]
    BY <2>1 DEF Numbered
  <2>3. p \in Nat /\ acked <= p /\ p < top /\ from + i = p + 1
    BY <1>1, <2>1
  <2>4. /\ more[i].req_seq = position % Modulus
        /\ more[i].tx_seq = p % Modulus /\ more[i].segment = stream[p + 1]
    BY <2>1, <2>2, <2>3 DEF Information
  <2> HIDE DEF p
  <2> QED BY <2>3, <2>4 DEF Emitted
<1> QED BY <1>3, <1>8, <1>9, Zenon DEF s2

LEMMA RetransmitsAll ==
  ASSUME NEW s, NEW stream, NEW acked, NEW position \in Nat,
         Sends(s, stream, acked), s.expected_tx_seq = position % Modulus
  PROVE  Outputs(s, retransmit_all(s), stream, acked, position)
<1> DEFINE w == s.tx_window
           s1 == Transmit(s, w)
           again == [i \in 1..Len(w) |-> Again(w[i])]
<1>1. /\ s \in EngineType /\ acked \in Nat /\ Numbered(w, stream, acked)
      /\ w \in Seq(FrameType) /\ Len(w) \in Nat /\ s.outbound \in Seq(MessageType)
  BY LenProperties DEF Sends, EngineType
<1>2. \A i \in 1..Len(w) :
        /\ Again(w[i]) \in FrameType
        /\ Again(w[i]).tx_seq = w[i].tx_seq /\ Again(w[i]).segment = w[i].segment
  <2> SUFFICES ASSUME NEW f \in FrameType
               PROVE  Again(f) \in FrameType /\ Again(f).tx_seq = f.tx_seq /\ Again(f).segment = f.segment
    BY <1>1, ElementOfSeq
  <2> QED BY DEF Again, FrameType
<1>3. /\ again \in Seq(FrameType) /\ Len(again) = Len(w)
      /\ \A i \in 1..Len(w) : again[i] = Again(w[i])
  <2>1. again \in [1..Len(w) -> FrameType]
    BY <1>2
  <2>2. \A i \in 1..Len(w) : again[i] = Again(w[i])
    OBVIOUS
  <2> HIDE DEF again, w
  <2> QED BY <1>1, <2>1, <2>2, FunctionIsSeq
<1>4. Outputs(s, s, stream, acked, position)
  BY OutputsNothing
<1>5. Outputs(s, [s EXCEPT !.error = "failed"], stream, acked, position)
  <2> DEFINE s2 == [s EXCEPT !.error = "failed"]
  <2>1. /\ s2 \in EngineType /\ s2.outbound = s.outbound
        /\ s2.tx_window = s.tx_window /\ s2.pending = s.pending
        /\ s2.last_acked_tx_seq = s.last_acked_tx_seq /\ s2.next_tx_seq = s.next_tx_seq
        /\ s2.expected_tx_seq = s.expected_tx_seq
        /\ s2.received = s.received /\ s2.input_sdu = s.input_sdu
    BY <1>1, Zenon DEF EngineType
  <2> HIDE DEF s2
  <2>2. Sends(s2, stream, acked)
    BY <2>1 DEF Sends
  <2> QED BY <1>4, <2>1, <2>2 DEF Outputs, s2
<1>6. Outputs(s, [s1 EXCEPT !.tx_window = again], stream, acked, position)
  <2> DEFINE s2 == [s1 EXCEPT !.tx_window = again]
  <2>1. /\ s1 \in EngineType
        /\ s1.tx_window = s.tx_window /\ s1.pending = s.pending
        /\ s1.last_acked_tx_seq = s.last_acked_tx_seq /\ s1.next_tx_seq = s.next_tx_seq
        /\ s1.expected_tx_seq = s.expected_tx_seq
        /\ s1.received = s.received /\ s1.input_sdu = s.input_sdu
        /\ \E more \in Seq(MessageType) :
             /\ s1.outbound = s.outbound \o more
             /\ \A i \in 1..Len(more) : Emitted(more[i], stream, acked, acked + Len(w), position)
    <3>1. acked + Len(w) \in Nat /\ acked <= acked /\ acked + Len(w) <= acked + Len(w)
      BY <1>1
    <3> HIDE DEF w
    <3> QED BY <1>1, <3>1, Transmits, ZenonT(40)
  <2> HIDE DEF s1, again
  <2>2. /\ s2 \in EngineType /\ s2.outbound = s1.outbound
        /\ s2.tx_window = again /\ s2.pending = s.pending
        /\ s2.last_acked_tx_seq = s.last_acked_tx_seq /\ s2.next_tx_seq = s.next_tx_seq
        /\ s2.expected_tx_seq = s.expected_tx_seq
        /\ s2.received = s.received /\ s2.input_sdu = s.input_sdu
    BY <1>3, <2>1, Zenon DEF EngineType
  <2> HIDE DEF s2
  <2>3. Numbered(again, stream, acked)
    BY <1>1, <1>2, <1>3 DEF Numbered
  <2>4. Sends(s2, stream, acked)
    BY <1>1, <1>3, <2>2, <2>3, Zenon DEF Sends
  <2>5. Len(s.tx_window) <= Len(s2.tx_window)
    BY <1>1, <1>3, <2>2
  <2> QED BY <1>3, <2>1, <2>2, <2>4, <2>5, SMTT(30) DEF Outputs, s2
<1>7. [s1 EXCEPT !.tx_window = again]
        = [Transmit(s, s.tx_window) EXCEPT !.tx_window = [i \in 1..Len(@) |-> Again(@[i])]]
  <2>1. s1.tx_window = w
    BY DEF Transmit
  <2> QED BY <2>1
<1> HIDE DEF s1, again
<1> QED BY <1>4, <1>5, <1>6, <1>7 DEF retransmit_all

LEMMA ProcessesOutput ==
  ASSUME NEW s, NEW stream, NEW acked, NEW position \in Nat,
         Sends(s, stream, acked), s.expected_tx_seq = position % Modulus
  PROVE  Outputs(s, process_output(s), stream, acked, position)
<1> DEFINE w == s.tx_window
           W == Len(w)
           P == Len(s.pending)
           n == MinOf(P, Window - W)
           frames == SubSeq(s.pending, 1, n)
           rest == SubSeq(s.pending, n + 1, P)
           first == [i \in 1..n |-> [frames[i] EXCEPT !.transmissions = 1]]
           s1 == Transmit(s, frames)
           s2 == [s1 EXCEPT !.pending = rest, !.tx_window = w \o first]
<1>1. /\ s \in EngineType /\ acked \in Nat /\ Numbered(w, stream, acked)
      /\ Numbered(s.pending, stream, acked + W)
      /\ w \in Seq(FrameType) /\ W \in Nat /\ s.pending \in Seq(FrameType) /\ P \in Nat
      /\ s.outbound \in Seq(MessageType) /\ W <= Window
      /\ \A i \in 1..P : s.pending[i] \in FrameType
  BY LenProperties, ElementOfSeq DEF Sends, EngineType
<1>2. n \in 0..P /\ W + n <= Window
  BY <1>1, WindowFacts, SMTT(30) DEF MinOf
<1> HIDE DEF n, W, P
<1>3. /\ frames \in Seq(FrameType) /\ Len(frames) = n
      /\ \A i \in 1..n : frames[i] = s.pending[i] /\ frames[i] \in FrameType
  <2>1. \A i \in 1..n : s.pending[i] \in FrameType /\ 1 + i - 1 = i
    BY <1>1, <1>2
  <2> QED BY <1>2, <2>1, SubSeqProperties
<1>4. /\ rest \in Seq(FrameType) /\ Len(rest) = P - n
      /\ \A i \in 1..(P - n) : rest[i] = s.pending[n + i]
  <2>1. \A i \in (n + 1)..P : s.pending[i] \in FrameType
    BY <1>1, <1>2
  <2>2. /\ rest \in Seq(FrameType) /\ Len(rest) = IF n + 1 <= P THEN P - (n + 1) + 1 ELSE 0
        /\ \A i \in 1..(P - (n + 1) + 1) : rest[i] = s.pending[n + 1 + i - 1]
    <3>1. n + 1 \in Int /\ P \in Int
      BY <1>1, <1>2
    <3> QED BY <2>1, <3>1, SubSeqProperties
  <2>3. P - (n + 1) + 1 = P - n /\ \A i \in 1..(P - n) : n + 1 + i - 1 = n + i
    BY <1>1, <1>2
  <2> HIDE DEF rest
  <2> QED BY <1>1, <1>2, <2>2, <2>3
<1> HIDE DEF frames, rest
<1>5. /\ first \in Seq(FrameType) /\ Len(first) = n
      /\ \A i \in 1..n :
           /\ first[i].tx_seq = s.pending[i].tx_seq
           /\ first[i].segment = s.pending[i].segment
  <2>1. ASSUME NEW f \in FrameType
        PROVE  LET g == [f EXCEPT !.transmissions = 1] IN
               g \in FrameType /\ g.tx_seq = f.tx_seq /\ g.segment = f.segment
    BY DEF FrameType
  <2>2. first \in [1..n -> FrameType]
    BY <1>3, <2>1
  <2>3. \A i \in 1..n : first[i] = [frames[i] EXCEPT !.transmissions = 1]
    OBVIOUS
  <2> HIDE DEF first
  <2>4. \A i \in 1..n : first[i].tx_seq = frames[i].tx_seq /\ first[i].segment = frames[i].segment
    BY <1>3, <2>1, <2>3, Zenon
  <2> QED BY <1>2, <1>3, <2>2, <2>4, FunctionIsSeq
<1> HIDE DEF first
<1>6. /\ w \o first \in Seq(FrameType) /\ Len(w \o first) = W + n
      /\ \A i \in 1..(W + n) : (w \o first)[i] = IF i <= W THEN w[i] ELSE first[i - W]
  BY <1>1, <1>5, ConcatProperties, ZenonT(40) DEF W
<1>7. /\ s1 \in EngineType
      /\ s1.tx_window = s.tx_window /\ s1.pending = s.pending
      /\ s1.last_acked_tx_seq = s.last_acked_tx_seq /\ s1.next_tx_seq = s.next_tx_seq
      /\ s1.expected_tx_seq = s.expected_tx_seq
      /\ s1.received = s.received /\ s1.input_sdu = s.input_sdu
      /\ \E more \in Seq(MessageType) :
           /\ s1.outbound = s.outbound \o more
           /\ \A i \in 1..Len(more) : Emitted(more[i], stream, acked, acked + (W + n), position)
  <2> DEFINE from == acked + W
             top == acked + (W + n)
  <2>1. /\ from \in Nat /\ top \in Nat
        /\ acked <= from /\ from + Len(frames) <= top
    BY <1>1, <1>2, <1>3, SMTT(30)
  <2>2. Numbered(frames, stream, from)
    <3> SUFFICES ASSUME NEW i \in 1..n
                 PROVE  /\ frames[i].tx_seq = (from + i - 1) % Modulus
                        /\ frames[i].segment = stream[from + i]
      BY <1>3 DEF Numbered
    <3>1. i \in 1..P /\ frames[i] = s.pending[i]
      BY <1>1, <1>2, <1>3, SMTT(30)
    <3> QED BY <1>1, <3>1 DEF Numbered, P
  <2> HIDE DEF from
  <2>3. /\ s1 \in EngineType
        /\ s1.tx_window = s.tx_window /\ s1.pending = s.pending
        /\ s1.last_acked_tx_seq = s.last_acked_tx_seq /\ s1.next_tx_seq = s.next_tx_seq
        /\ s1.expected_tx_seq = s.expected_tx_seq
        /\ s1.received = s.received /\ s1.input_sdu = s.input_sdu
        /\ \E more \in Seq(MessageType) :
             /\ s1.outbound = s.outbound \o more
             /\ \A i \in 1..Len(more) : Emitted(more[i], stream, acked, top, position)
    <3> HIDE DEF top
    <3> QED BY <1>1, <1>3, <2>1, <2>2, Transmits, ZenonT(40)
  <2> QED BY <2>3
<1> HIDE DEF s1
<1>8. /\ s2 \in EngineType /\ s2.outbound = s1.outbound
      /\ s2.tx_window = w \o first /\ s2.pending = rest
      /\ s2.last_acked_tx_seq = s.last_acked_tx_seq /\ s2.next_tx_seq = s.next_tx_seq
      /\ s2.expected_tx_seq = s.expected_tx_seq
      /\ s2.received = s.received /\ s2.input_sdu = s.input_sdu
  BY <1>4, <1>6, <1>7, Zenon DEF EngineType
<1>9. s2 = [Transmit(s, frames) EXCEPT
              !.pending = SubSeq(@, n + 1, Len(@)),
              !.tx_window = @ \o [i \in 1..n |-> [frames[i] EXCEPT !.transmissions = 1]]]
  BY <1>7 DEF s1, rest, first, P
<1> HIDE DEF s2
<1>10. Numbered(w \o first, stream, acked)
  <2> SUFFICES ASSUME NEW i \in 1..(W + n)
               PROVE  /\ (w \o first)[i].tx_seq = (acked + i - 1) % Modulus
                      /\ (w \o first)[i].segment = stream[acked + i]
    BY <1>6 DEF Numbered
  <2>1. CASE i <= W
    <3>1. i \in 1..Len(w) /\ (w \o first)[i] = w[i]
      BY <1>1, <1>6, <2>1 DEF W
    <3> QED BY <1>1, <3>1 DEF Numbered
  <2>2. CASE ~(i <= W)
    <3> DEFINE j == i - W
    <3>1. j \in 1..n /\ j \in 1..P
      BY <1>1, <1>2, <2>2
    <3>4. (w \o first)[i] = first[j]
      BY <1>6, <2>2
    <3>2. (acked + W) + j - 1 = acked + i - 1 /\ (acked + W) + j = acked + i
      BY <1>1, <1>2
    <3>3. /\ s.pending[j].tx_seq = ((acked + W) + j - 1) % Modulus
          /\ s.pending[j].segment = stream[(acked + W) + j]
      BY <1>1, <3>1 DEF Numbered, P
    <3> HIDE DEF j
    <3> QED BY <1>5, <3>1, <3>2, <3>3, <3>4
  <2> QED BY <2>1, <2>2, Zenon
<1>11. Numbered(rest, stream, acked + (W + n))
  <2> SUFFICES ASSUME NEW i \in 1..(P - n)
               PROVE  /\ rest[i].tx_seq = ((acked + (W + n)) + i - 1) % Modulus
                      /\ rest[i].segment = stream[(acked + (W + n)) + i]
    BY <1>4 DEF Numbered
  <2>1. n + i \in 1..P /\ rest[i] = s.pending[n + i]
    <3>1. n + i \in 1..P
      BY <1>1, <1>2
    <3> QED BY <1>4, <3>1
  <2>2. /\ (acked + W) + (n + i) - 1 = (acked + (W + n)) + i - 1
        /\ (acked + W) + (n + i) = (acked + (W + n)) + i
    BY <1>1, <1>2
  <2>3. /\ s.pending[n + i].tx_seq = ((acked + W) + (n + i) - 1) % Modulus
        /\ s.pending[n + i].segment = stream[(acked + W) + (n + i)]
    BY <1>1, <2>1, SMTT(30) DEF Numbered, P
  <2> QED BY <2>1, <2>2, <2>3
<1>12. /\ Len(s2.tx_window) = W + n /\ Len(s2.pending) = P - n
       /\ acked + (W + n) + (P - n) = acked + W + P
  BY <1>1, <1>2, <1>4, <1>6, <1>8
<1>13. Sends(s2, stream, acked)
  <2>1. Len(stream) = acked + Len(s2.tx_window) + Len(s2.pending)
    BY <1>12, Zenon DEF Sends, W, P
  <2> QED BY <1>1, <1>2, <1>8, <1>10, <1>11, <1>12, <2>1, Zenon DEF Sends
<1>14. Outputs(s, s2, stream, acked, position)
  <2>1. Len(s.tx_window) <= Len(s2.tx_window)
    BY <1>1, <1>2, <1>12 DEF W
  <2> QED BY <1>7, <1>8, <1>12, <1>13, <2>1, Zenon DEF Outputs
<1>15. Outputs(s, s, stream, acked, position)
  BY OutputsNothing
<1> QED BY <1>9, <1>14, <1>15, Zenon DEF process_output, frames, n, P, W

\* The parts of an engine that sending uses.
SameSending(s, s2) ==
    /\ s2.outbound = s.outbound /\ s2.tx_window = s.tx_window /\ s2.pending = s.pending
    /\ s2.last_acked_tx_seq = s.last_acked_tx_seq /\ s2.next_tx_seq = s.next_tx_seq

\* An acknowledgement of a position inside the window moves the window there.
LEMMA Acknowledges ==
  ASSUME NEW s, NEW stream, NEW acked, NEW k \in Nat, Sends(s, stream, acked),
         acked <= k, k <= acked + Len(s.tx_window)
  PROVE  LET s2 == acknowledge(s, k % Modulus) IN
         /\ Sends(s2, stream, k)
         /\ k + Len(s2.tx_window) = acked + Len(s.tx_window)
         /\ s2.outbound = s.outbound /\ s2.expected_tx_seq = s.expected_tx_seq
         /\ s2.received = s.received /\ s2.input_sdu = s.input_sdu
         /\ s2.error = s.error
<1> DEFINE w == s.tx_window
           W == Len(w)
           n == k - acked
           rest == SubSeq(w, n + 1, W)
           req == k % Modulus
           s2 == [s EXCEPT !.tx_window = rest, !.last_acked_tx_seq = req]
<1>1. /\ s \in EngineType /\ acked \in Nat /\ Numbered(w, stream, acked)
      /\ s.last_acked_tx_seq = acked % Modulus /\ W <= Window
      /\ w \in Seq(FrameType) /\ W \in Nat /\ \A i \in 1..W : w[i] \in FrameType
      /\ Len(s.pending) \in Nat
  BY LenProperties, ElementOfSeq DEF Sends, EngineType
<1>2. n \in 0..W /\ acked <= k /\ k - acked < Modulus
  BY <1>1, WindowFacts
<1>3. sequence_distance(s.last_acked_tx_seq, req) = n
  <2>1. ((k % Modulus) + Modulus - (acked % Modulus)) % Modulus = k - acked
    <3>1. acked \in Int /\ k \in Int
      BY <1>1
    <3> HIDE DEF n, W, w, rest, req, s2
    <3> QED BY <1>2, <3>1, WindowFacts, ModDistance
  <2> QED BY <1>1, <2>1 DEF sequence_distance
<1>4. req \in Wrapped
  BY WindowFacts, ModRange DEF Wrapped
<1> HIDE DEF n, W
<1>5. /\ rest \in Seq(FrameType) /\ Len(rest) = W - n
      /\ \A i \in 1..(W - n) : rest[i] = w[n + i]
  <2>1. \A i \in (n + 1)..W : w[i] \in FrameType
    <3> SUFFICES ASSUME NEW i \in (n + 1)..W PROVE i \in 1..W
      BY <1>1
    <3> QED BY <1>1, <1>2
  <2>2. /\ rest \in Seq(FrameType) /\ Len(rest) = IF n + 1 <= W THEN W - (n + 1) + 1 ELSE 0
        /\ \A i \in 1..(W - (n + 1) + 1) : rest[i] = w[n + 1 + i - 1]
    <3>1. n + 1 \in Int /\ W \in Int
      BY <1>1, <1>2
    <3> HIDE DEF w
    <3> QED BY <2>1, <3>1, SubSeqProperties
  <2>3. W - (n + 1) + 1 = W - n /\ \A i \in 1..(W - n) : n + 1 + i - 1 = n + i
    BY <1>1, <1>2
  <2> HIDE DEF rest
  <2> QED BY <1>1, <1>2, <2>2, <2>3
<1>6. acknowledge(s, req) = s2
  <2>1. ~(n > Len(s.tx_window))
    BY <1>1, <1>2 DEF W
  <2> HIDE DEF req
  <2> QED BY <1>3, <2>1 DEF acknowledge, W
<1> HIDE DEF rest, req
<1>7. /\ s2 \in EngineType /\ s2.tx_window = rest /\ s2.last_acked_tx_seq = req
      /\ s2.pending = s.pending /\ s2.next_tx_seq = s.next_tx_seq
      /\ s2.outbound = s.outbound /\ s2.expected_tx_seq = s.expected_tx_seq
      /\ s2.received = s.received /\ s2.input_sdu = s.input_sdu /\ s2.error = s.error
  BY <1>1, <1>4, <1>5, Zenon DEF EngineType
<1> HIDE DEF s2
<1>8. k + (W - n) = acked + W
  BY <1>1, <1>2 DEF n
<1>9. Numbered(rest, stream, k)
  <2> SUFFICES ASSUME NEW i \in 1..(W - n)
               PROVE  /\ rest[i].tx_seq = (k + i - 1) % Modulus
                      /\ rest[i].segment = stream[k + i]
    BY <1>5 DEF Numbered
  <2>1. n + i \in 1..W
    BY <1>1, <1>2
  <2>2. acked + (n + i) - 1 = k + i - 1 /\ acked + (n + i) = k + i
    BY <1>1, <1>2 DEF n
  <2>3. /\ w[n + i].tx_seq = (acked + (n + i) - 1) % Modulus
        /\ w[n + i].segment = stream[acked + (n + i)]
    BY <1>1, <2>1, SMTT(30) DEF Numbered, W
  <2> QED BY <1>5, <2>2, <2>3
<1>10. Sends(s2, stream, k)
  <2>1. Len(s2.tx_window) = W - n /\ W - n <= Window
    BY <1>1, <1>2, <1>5, <1>7, WindowFacts
  <2>2. Len(stream) = k + Len(s2.tx_window) + Len(s2.pending)
    BY <1>1, <1>7, <1>8, <2>1, Zenon DEF Sends, W
  <2>3. k + Len(s2.tx_window) = acked + Len(s.tx_window)
    BY <1>8, <2>1 DEF W
  <2> QED BY <1>7, <1>9, <2>1, <2>2, <2>3, Zenon DEF Sends, req
<1> QED BY <1>5, <1>6, <1>7, <1>8, <1>10, SMTT(30) DEF req, W

\* Where the next segment belongs: behind its predecessors in input_sdu.
LEMMA Awaited ==
  ASSUME NEW s \in EngineType, NEW stream, NEW sdus, NEW taken \in Nat,
         Streams(stream, sdus), Takes(s, stream, taken, sdus), taken < Len(stream)
  PROVE  LET g == stream[taken + 1] IN
         /\ g \in SegmentType /\ g.index <= g.sdu.of
         /\ g.sdu.number \in 1..Len(sdus) /\ g.sdu = sdus[g.sdu.number]
         /\ s.input_sdu \in Seq(SegmentType) /\ Len(s.input_sdu) = g.index - 1
         /\ \A i \in 1..(g.index - 1) : s.input_sdu[i] = Segment(g.sdu, i)
         /\ Len(s.received) = g.sdu.number - 1
<1> DEFINE g == stream[taken + 1]
           h == stream[taken]
<1>1. /\ stream \in Seq(SegmentType) /\ Len(stream) \in Nat
      /\ taken + 1 \in 1..Len(stream) /\ (taken > 0 => taken \in 1..(Len(stream) - 1))
      /\ (taken > 0 => taken \in 1..Len(stream))
  BY LenProperties DEF Streams
<1>2. /\ g \in SegmentType /\ g.index <= g.sdu.of
      /\ g.sdu.number \in 1..Len(sdus) /\ g.sdu = sdus[g.sdu.number]
  BY <1>1, ElementOfSeq DEF Streams
<1>3. /\ g.index \in Nat /\ g.index >= 1 /\ g.sdu.number \in Nat
      /\ s.input_sdu \in Seq(SegmentType)
  BY <1>2, SMTT(30) DEF SegmentType, SduType, EngineType
<1>4. CASE taken = 0
  <2>1. g.index = 1 /\ g.sdu.number = 1
    BY <1>1, <1>4, EmptySeq DEF Streams
  <2>2. s.input_sdu = <<>> /\ s.received = <<>>
    BY <1>4, SMTT(30) DEF Takes
  <2> HIDE DEF g
  <2> QED BY <1>2, <1>3, <2>1, <2>2 DEF g
<1>5. CASE taken > 0
  <2>1. h \in SegmentType /\ h.index \in Nat /\ h.index >= 1 /\ h.sdu.number \in Nat
    <3>1. h \in SegmentType
      BY <1>1, <1>5, ElementOfSeq
    <3> HIDE DEF h
    <3> QED BY <3>1 DEF SegmentType, SduType
  <2>2. Follows(h, g)
    BY <1>1, <1>5 DEF Streams
  <2>3. IF h.index = h.sdu.of
        THEN s.input_sdu = <<>> /\ Len(s.received) = h.sdu.number
        ELSE /\ s.input_sdu = [i \in 1..h.index |-> Segment(h.sdu, i)]
             /\ Len(s.received) = h.sdu.number - 1
    BY <1>5 DEF Takes
  <2> HIDE DEF g, h
  <2>4. CASE h.index = h.sdu.of
    <3>1. g.index = 1 /\ g.sdu.number = h.sdu.number + 1
      BY <2>2, <2>4 DEF Follows
    <3>2. s.input_sdu = <<>> /\ Len(s.received) = h.sdu.number
      BY <2>3, <2>4
    <3>3. Len(s.received) = g.sdu.number - 1
      BY <2>1, <3>1, <3>2, SMTT(30)
    <3> QED BY <1>2, <1>3, <3>1, <3>2, <3>3 DEF g
  <2>5. CASE h.index # h.sdu.of
    <3>1. g.index = h.index + 1 /\ g.sdu = h.sdu
      BY <2>2, <2>5 DEF Follows
    <3>2. s.input_sdu = [i \in 1..h.index |-> Segment(h.sdu, i)] /\ Len(s.received) = h.sdu.number - 1
      BY <2>3, <2>5
    <3>3. Len(s.input_sdu) = h.index
      BY <1>3, <2>1, <3>2, LenProperties
    <3>4. g.index - 1 = h.index
      BY <2>1, <3>1
    <3>5. \A i \in 1..(g.index - 1) : s.input_sdu[i] = Segment(g.sdu, i)
      BY <3>1, <3>2, <3>4
    <3> QED BY <1>2, <1>3, <3>1, <3>2, <3>3, <3>4, <3>5, SMTT(30) DEF g
  <2> QED BY <2>4, <2>5
<1> QED BY <1>4, <1>5

\* The list of received SDUs grows by at most one.
Grows(s, s2) == s2.received = s.received \/ \E x : s2.received = Append(s.received, x)

\* accept_information of the segment that is due takes it, with no error.
LEMMA Accepts ==
  ASSUME NEW s \in EngineType, NEW stream, NEW sdus, NEW taken \in Nat,
         Streams(stream, sdus), Takes(s, stream, taken, sdus), taken < Len(stream)
  PROVE  LET s1 == [s EXCEPT !.expected_tx_seq = sequence_add(@, 1)]
             s2 == accept_information(s1, stream[taken + 1])
         IN  /\ s2 \in EngineType /\ Takes(s2, stream, taken + 1, sdus)
             /\ SameSending(s, s2) /\ Grows(s, s2) /\ s2.error = s.error
<1> DEFINE g == stream[taken + 1]
           next == sequence_add(s.expected_tx_seq, 1)
           s1 == [s EXCEPT !.expected_tx_seq = sequence_add(@, 1)]
           s2 == accept_information(s1, g)
           input == Append(s.input_sdu, g)
<1>1. /\ g \in SegmentType /\ g.index <= g.sdu.of
      /\ g.sdu.number \in 1..Len(sdus) /\ g.sdu = sdus[g.sdu.number]
      /\ s.input_sdu \in Seq(SegmentType) /\ Len(s.input_sdu) = g.index - 1
      /\ \A i \in 1..(g.index - 1) : s.input_sdu[i] = Segment(g.sdu, i)
      /\ Len(s.received) = g.sdu.number - 1
  BY Awaited
<1>2. taken + 1 \in 0..Len(stream) /\ taken + 1 > 0
  BY LenProperties DEF Streams
<1>3. next = (taken + 1) % Modulus /\ next \in Wrapped
  <2>1. s.expected_tx_seq = taken % Modulus
    BY DEF Takes
  <2>2. ((taken % Modulus) + 1) % Modulus = (taken + 1) % Modulus
    <3>1. taken \in Int /\ 1 \in Int
      OBVIOUS
    <3> HIDE DEF g, next, s1, s2, input
    <3> QED BY <3>1, WindowFacts, ModAdd, Zenon
  <2>3. (taken + 1) % Modulus \in Wrapped
    BY WindowFacts, ModRange DEF Wrapped
  <2> QED BY <2>1, <2>2, <2>3 DEF sequence_add
<1> HIDE DEF next
<1>4. s1 = [s EXCEPT !.expected_tx_seq = next]
  BY DEF next
<1>5. /\ s1 \in EngineType /\ s1.expected_tx_seq = next
      /\ s1.input_sdu = s.input_sdu /\ s1.received = s.received /\ SameSending(s, s1)
      /\ s1.error = s.error
  BY <1>3, <1>4, Zenon DEF EngineType, SameSending
<1> HIDE DEF s1, g
<1>6. g = Segment(g.sdu, g.index) /\ g.index \in Nat /\ g.index >= 1 /\ g.sdu.of \in Nat
      /\ g.sdu.number \in Nat
  BY <1>1 DEF SegmentType, SduType, Segment
<1>7. /\ input \in Seq(SegmentType) /\ Len(input) = g.index
      /\ \A i \in 1..g.index : input[i] = Segment(g.sdu, i)
  <2>1. /\ input \in Seq(SegmentType) /\ Len(input) = (g.index - 1) + 1
        /\ \A i \in 1..(g.index - 1) : input[i] = s.input_sdu[i]
        /\ input[(g.index - 1) + 1] = g
    BY <1>1, AppendProperties
  <2>2. (g.index - 1) + 1 = g.index
    BY <1>6
  <2>3. \A i \in 1..g.index : i \in 1..(g.index - 1) \/ i = g.index
    BY <1>6
  <2> HIDE DEF input
  <2> QED BY <1>1, <1>6, <2>1, <2>2, <2>3, SMTT(30)
<1>8. (g.index = 1) <=> (s.input_sdu = <<>>)
  BY <1>1, <1>6, EmptySeq
<1> HIDE DEF input
<1>9. CASE g.index # g.sdu.of
  <2>1. s2 = [s1 EXCEPT !.input_sdu = input]
    BY <1>5, <1>8, <1>9 DEF accept_information, input
  <2> HIDE DEF s2
  <2>2. /\ s2 \in EngineType /\ s2.expected_tx_seq = next /\ s2.input_sdu = input
        /\ s2.received = s.received /\ SameSending(s, s2) /\ s2.error = s.error
    BY <1>5, <1>7, <2>1, Zenon DEF EngineType, SameSending
  <2>3. input = [i \in 1..g.index |-> Segment(g.sdu, i)]
    <3> DEFINE all == [i \in 1..g.index |-> Segment(g.sdu, i)]
    <3>1. all \in [1..g.index -> SegmentType]
      BY <1>1, <1>7, ElementOfSeq, Zenon
    <3>2. \A i \in 1..g.index : all[i] = Segment(g.sdu, i)
      OBVIOUS
    <3> HIDE DEF all
    <3>3. all \in Seq(SegmentType) /\ Len(all) = g.index
      BY <1>6, <3>1, FunctionIsSeq, SMTT(30)
    <3>4. input = all
      BY <1>7, <3>2, <3>3, SeqEqual
    <3> QED BY <3>4 DEF all
  <2>4. Takes(s2, stream, taken + 1, sdus)
    <3>1. \A i \in 1..Len(s2.received) : s2.received[i] = Segments(sdus[i])
      BY <2>2 DEF Takes
    <3>2. s2.expected_tx_seq = (taken + 1) % Modulus
      BY <1>3, <2>2
    <3>3. s2.input_sdu = [i \in 1..g.index |-> Segment(g.sdu, i)] /\ Len(s2.received) = g.sdu.number - 1
      BY <1>1, <2>2, <2>3
    <3> QED BY <1>2, <1>9, <3>1, <3>2, <3>3 DEF Takes, g
  <2> QED BY <2>2, <2>4 DEF Grows, s2, g, s1
<1>10. CASE g.index = g.sdu.of
  <2>0. input[1] = Segment(g.sdu, 1) /\ Len(input) = input[1].sdu.of
    BY <1>6, <1>7, <1>10 DEF Segment
  <2>1. s2 = [s1 EXCEPT !.received = Append(@, input), !.input_sdu = <<>>]
    BY <1>5, <1>8, <1>10, <2>0 DEF accept_information, input
  <2> HIDE DEF s2
  <2>2. input = Segments(g.sdu)
    <3> DEFINE all == Segments(g.sdu)
    <3>1. all \in [1..g.index -> SegmentType]
      BY <1>1, <1>7, <1>10, ElementOfSeq, SMTT(30) DEF Segments
    <3>2. \A i \in 1..g.index : all[i] = Segment(g.sdu, i)
      BY <1>10 DEF Segments
    <3> HIDE DEF all
    <3>3. all \in Seq(SegmentType) /\ Len(all) = g.index
      BY <1>6, <3>1, FunctionIsSeq
    <3>4. input = all
      BY <1>7, <3>2, <3>3, SeqEqual
    <3> QED BY <3>4 DEF all
  <2>3. /\ s1.received \in Seq(Seq(SegmentType)) /\ <<>> \in Seq(SegmentType)
        /\ Append(s1.received, input) \in Seq(Seq(SegmentType))
        /\ Len(Append(s1.received, input)) = g.sdu.number
        /\ \A i \in 1..(g.sdu.number - 1) : Append(s1.received, input)[i] = s.received[i]
        /\ Append(s1.received, input)[g.sdu.number] = input
    <3>1. s1.received \in Seq(Seq(SegmentType)) /\ Len(s1.received) = g.sdu.number - 1
      BY <1>1, <1>5 DEF EngineType
    <3>2. (g.sdu.number - 1) + 1 = g.sdu.number
      BY <1>6
    <3> QED BY <1>5, <1>7, <3>1, <3>2, AppendProperties, EmptySeq, SMTT(30)
  <2>4. /\ s2 \in EngineType /\ s2.expected_tx_seq = next /\ s2.input_sdu = <<>>
        /\ s2.received = Append(s1.received, input) /\ SameSending(s, s2) /\ s2.error = s.error
    BY <1>5, <2>1, <2>3, ZenonT(40) DEF EngineType, SameSending
  <2>5. Takes(s2, stream, taken + 1, sdus)
    <3>1. ASSUME NEW i \in 1..g.sdu.number
          PROVE  s2.received[i] = Segments(sdus[i])
      <4>1. CASE i = g.sdu.number
        BY <1>1, <2>2, <2>3, <2>4, <4>1
      <4>2. CASE i # g.sdu.number
        <5>1. i \in 1..(g.sdu.number - 1)
          BY <1>6, <4>2
        <5>2. s.received[i] = Segments(sdus[i])
          BY <1>1, <5>1 DEF Takes
        <5> QED BY <2>3, <2>4, <5>1, <5>2
      <4> QED BY <4>1, <4>2
    <3>2. s2.expected_tx_seq = (taken + 1) % Modulus
      BY <1>3, <2>4
    <3>3. Len(s2.received) = g.sdu.number
      BY <2>3, <2>4
    <3> QED BY <1>2, <1>10, <2>4, <3>1, <3>2, <3>3 DEF Takes, g
  <2>6. Grows(s, s2)
    BY <1>5, <2>4 DEF Grows
  <2> QED BY <2>4, <2>5, <2>6 DEF s2, g, s1
<1> QED BY <1>9, <1>10

\* The segments of a further SDU at the end of a stream.
LEMMA LongerStream ==
  ASSUME NEW stream, NEW sdus, Streams(stream, sdus), NEW sdu \in SduType,
         sdu.number = Len(sdus) + 1
  PROVE  LET longer == stream \o Segments(sdu) IN
         /\ Streams(longer, Append(sdus, sdu))
         /\ Len(longer) = Len(stream) + sdu.of
         /\ \A i \in 1..Len(stream) : longer[i] = stream[i]
         /\ \A i \in 1..sdu.of : longer[Len(stream) + i] = Segment(sdu, i)
<1> DEFINE segments == Segments(sdu)
           longer == stream \o segments
           more == Append(sdus, sdu)
           n == Len(stream)
           k == sdu.of
           S == Len(sdus)
<1>1. k \in Nat /\ k >= 1 /\ n \in Nat /\ S \in Nat /\ sdu.number = S + 1
  BY LenProperties DEF SduType, Streams
<1>2. /\ segments \in Seq(SegmentType) /\ Len(segments) = k
      /\ \A i \in 1..k : segments[i] = Segment(sdu, i)
  <2>1. \A i \in 1..k : Segment(sdu, i) \in SegmentType
    BY <1>1 DEF Segment, SegmentType
  <2>2. segments \in [1..k -> SegmentType] /\ \A i \in 1..k : segments[i] = Segment(sdu, i)
    BY <2>1 DEF Segments
  <2> HIDE DEF segments, k
  <2> QED BY <1>1, <2>2, FunctionIsSeq
<1> HIDE DEF segments
<1>3. /\ longer \in Seq(SegmentType) /\ Len(longer) = n + k
      /\ \A i \in 1..(n + k) : longer[i] = IF i <= n THEN stream[i] ELSE segments[i - n]
  BY <1>1, <1>2, ConcatProperties, SMTT(30) DEF Streams
<1>4. /\ more \in Seq(SduType) /\ Len(more) = S + 1
      /\ \A i \in 1..S : more[i] = sdus[i]
      /\ more[S + 1] = sdu
  BY AppendProperties DEF Streams
<1> HIDE DEF longer, more, n, k, S
<1>5. \A i \in 1..n : longer[i] = stream[i]
  <2> SUFFICES ASSUME NEW i \in 1..n PROVE i \in 1..(n + k) /\ i <= n
    BY <1>3
  <2> QED BY <1>1
<1>6. \A i \in 1..k : longer[n + i] = Segment(sdu, i)
  <2> SUFFICES ASSUME NEW i \in 1..k PROVE n + i \in 1..(n + k) /\ ~(n + i <= n) /\ (n + i) - n = i
    BY <1>2, <1>3
  <2> QED BY <1>1
<1>7. \A i \in 1..Len(more) : more[i].number = i
  <2> SUFFICES ASSUME NEW i \in 1..(S + 1) PROVE more[i].number = i
    BY <1>4
  <2>1. i \in 1..S \/ i = S + 1
    BY <1>1
  <2> QED BY <1>1, <1>4, <2>1, SMTT(30) DEF Streams, S
<1>8. ASSUME NEW i \in 1..(n + k)
      PROVE  /\ longer[i].sdu.number \in 1..(S + 1)
             /\ longer[i].sdu = more[longer[i].sdu.number]
             /\ longer[i].index <= longer[i].sdu.of
  <2>1. CASE i <= n
    <3> DEFINE g == stream[i]
    <3>1. i \in 1..n /\ longer[i] = g
      BY <1>1, <1>3, <2>1
    <3>2. g.sdu.number \in 1..S /\ g.sdu = sdus[g.sdu.number] /\ g.index <= g.sdu.of
      BY <3>1 DEF Streams, n, S
    <3> HIDE DEF g
    <3>3. g.sdu.number \in 1..(S + 1)
      BY <1>1, <3>2
    <3> QED BY <1>4, <3>1, <3>2, <3>3
  <2>2. CASE ~(i <= n)
    <3> DEFINE j == i - n
    <3>1. j \in 1..k /\ i = n + j
      BY <1>1, <2>2
    <3>2. longer[i] = Segment(sdu, j)
      BY <1>6, <3>1
    <3>3. S + 1 \in 1..(S + 1) /\ j <= k
      BY <1>1, <3>1
    <3> HIDE DEF j
    <3>4. longer[i].sdu = sdu /\ longer[i].index = j
      BY <3>2 DEF Segment
    <3> QED BY <1>1, <1>4, <3>3, <3>4 DEF k
  <2> QED BY <2>1, <2>2
<1>9. ASSUME NEW i \in 1..(n + k - 1)
      PROVE  Follows(longer[i], longer[i + 1])
  <2>1. CASE i < n
    <3>1. i \in 1..n /\ i + 1 \in 1..n /\ i \in 1..(n - 1)
      BY <1>1, <2>1
    <3>2. longer[i] = stream[i] /\ longer[i + 1] = stream[i + 1]
      BY <1>5, <3>1
    <3>3. Follows(stream[i], stream[i + 1])
      BY <3>1 DEF Streams, n
    <3> QED BY <3>2, <3>3
  <2>2. CASE i = n
    <3>1. n \in 1..n /\ 1 \in 1..k /\ stream # <<>>
      BY <1>1, <2>2 DEF n
    <3>2. stream[n].index = stream[n].sdu.of /\ stream[n].sdu.number = S
      BY <3>1 DEF Streams, n, S
    <3>3. longer[i] = stream[n] /\ longer[i + 1] = Segment(sdu, 1)
      BY <1>5, <1>6, <2>2, <3>1
    <3>4. longer[i + 1].index = 1 /\ longer[i + 1].sdu.number = S + 1
      BY <1>1, <3>3 DEF Segment
    <3> QED BY <3>2, <3>3, <3>4 DEF Follows
  <2>3. CASE i > n
    <3> DEFINE j == i - n
    <3>1. j \in 1..k /\ j + 1 \in 1..k /\ i = n + j /\ i + 1 = n + (j + 1) /\ j # k
      BY <1>1, <2>3
    <3>2. longer[i] = Segment(sdu, j) /\ longer[i + 1] = Segment(sdu, j + 1)
      BY <1>6, <3>1
    <3> HIDE DEF j
    <3>3. /\ longer[i].index = j /\ longer[i].sdu = sdu
          /\ longer[i + 1].index = j + 1 /\ longer[i + 1].sdu = sdu
      BY <3>2 DEF Segment
    <3> QED BY <3>1, <3>3 DEF Follows, k
  <2>4. i < n \/ i = n \/ i > n
    BY <1>1
  <2> QED BY <2>1, <2>2, <2>3, <2>4
<1>10. longer # <<>> /\ longer[1].index = 1 /\ longer[1].sdu.number = 1
  <2>0. longer # <<>>
    BY <1>1, <1>3
  <2>1. CASE stream = <<>>
    <3>1. n = 0 /\ S = 0
      BY <2>1 DEF Streams, n, S
    <3>2. longer[0 + 1] = Segment(sdu, 1)
      BY <1>1, <1>6, <3>1
    <3> QED BY <1>1, <2>0, <3>1, <3>2 DEF Segment
  <2>2. CASE stream # <<>>
    <3>1. 1 \in 1..n
      BY <1>1, <2>2, EmptySeq DEF Streams, n
    <3>2. longer[1] = stream[1]
      BY <1>5, <3>1
    <3> QED BY <2>0, <2>2, <3>2 DEF Streams
  <2> QED BY <2>1, <2>2
<1>11. longer[n + k].index = longer[n + k].sdu.of /\ longer[n + k].sdu.number = S + 1
  <2>1. longer[n + k] = Segment(sdu, k)
    BY <1>1, <1>6, SMTT(30)
  <2> QED BY <1>1, <2>1 DEF Segment, k
<1>12. Streams(longer, more)
  <2>1. Len(longer) - 1 = n + k - 1
    BY <1>1, <1>3
  <2> QED BY <1>3, <1>4, <1>7, <1>8, <1>9, <1>10, <1>11, <2>1 DEF Streams
<1> QED BY <1>3, <1>5, <1>6, <1>12, Zenon DEF longer, more, n, k, segments

LEMMA SendsSame ==
  ASSUME NEW s, NEW s2 \in EngineType, NEW stream, NEW acked,
         Sends(s, stream, acked), SameSending(s, s2)
  PROVE  Sends(s2, stream, acked)
  BY DEF Sends, SameSending

LEMMA TakesSame ==
  ASSUME NEW s, NEW s2, NEW stream, NEW taken, NEW sdus, Takes(s, stream, taken, sdus),
         s2.expected_tx_seq = s.expected_tx_seq,
         s2.received = s.received, s2.input_sdu = s.input_sdu
  PROVE  Takes(s2, stream, taken, sdus)
  BY DEF Takes

\* send_sdu: the sender's stream grows by the segments of the SDU.
LEMMA SendsSdu ==
  ASSUME NEW s, NEW stream, NEW acked, NEW position \in Nat, NEW sdus, NEW sdu \in SduType,
         Sends(s, stream, acked), Streams(stream, sdus), sdu.number = Len(sdus) + 1,
         s.expected_tx_seq = position % Modulus
  PROVE  Outputs(s, send_sdu(s, sdu), stream \o Segments(sdu), acked, position)
<1> DEFINE longer == stream \o Segments(sdu)
           n == Len(stream)
           k == sdu.of
           W == Len(s.tx_window)
           P == Len(s.pending)
           Queued(i) == [tx_seq |-> sequence_add(s.next_tx_seq, i - 1),
                         segment |-> Segment(sdu, i), transmissions |-> 0]
           new == [i \in 1..k |-> Queued(i)]
           s1 == [s EXCEPT !.pending = @ \o new, !.next_tx_seq = sequence_add(@, k)]
<1>1. /\ Len(longer) = n + k /\ longer \in Seq(SegmentType)
      /\ \A i \in 1..n : longer[i] = stream[i]
      /\ \A i \in 1..k : longer[n + i] = Segment(sdu, i)
  <2>1. /\ Streams(longer, Append(sdus, sdu)) /\ Len(longer) = n + k
        /\ \A i \in 1..n : longer[i] = stream[i]
        /\ \A i \in 1..k : longer[n + i] = Segment(sdu, i)
    BY LongerStream, ZenonT(40)
  <2> HIDE DEF longer
  <2> QED BY <2>1, SMTT(30) DEF Streams
<1>2. /\ k \in Nat /\ n \in Nat /\ W \in Nat /\ P \in Nat /\ acked \in Nat
      /\ s \in EngineType /\ s.pending \in Seq(FrameType) /\ s.tx_window \in Seq(FrameType)
      /\ n = acked + W + P /\ s.next_tx_seq = n % Modulus
  BY LenProperties DEF SduType, Streams, Sends, EngineType
<1>3. \A j \in Int : ((n % Modulus) + j) % Modulus = (n + j) % Modulus /\ (n + j) % Modulus \in Wrapped
  <2> SUFFICES ASSUME NEW j \in Int
               PROVE  /\ ((n % Modulus) + j) % Modulus = (n + j) % Modulus
                      /\ (n + j) % Modulus \in Wrapped
    BY Zenon
  <2>1. n \in Int /\ n + j \in Int
    BY <1>2
  <2> HIDE DEF n, new, s1, longer, k, W, P
  <2> QED BY <2>1, WindowFacts, ModAdd, ModRange, Zenon DEF Wrapped
<1> HIDE DEF n, k, W, P, longer
<1>4. \A i \in 1..k : Queued(i) \in FrameType /\ sequence_add(s.next_tx_seq, i - 1) = (n + i - 1) % Modulus
  <2> SUFFICES ASSUME NEW i \in 1..k
               PROVE  Queued(i) \in FrameType /\ sequence_add(s.next_tx_seq, i - 1) = (n + i - 1) % Modulus
    OBVIOUS
  <2>1. i - 1 \in Int /\ n + (i - 1) = n + i - 1
    BY <1>2
  <2>2. sequence_add(s.next_tx_seq, i - 1) = (n + (i - 1)) % Modulus
    BY <1>2, <1>3, <2>1 DEF sequence_add
  <2>3. (n + (i - 1)) % Modulus \in Wrapped
    BY <1>3, <2>1
  <2>4. Segment(sdu, i) \in SegmentType
    BY <1>2 DEF Segment, SegmentType
  <2> QED BY <2>1, <2>2, <2>3, <2>4 DEF FrameType
<1>5. /\ new \in Seq(FrameType) /\ Len(new) = k /\ \A i \in 1..k : new[i] = Queued(i)
  <2>1. new \in [1..k -> FrameType] /\ \A i \in 1..k : new[i] = Queued(i)
    BY <1>4
  <2> HIDE DEF new, Queued
  <2> QED BY <1>2, <2>1, FunctionIsSeq
<1>6. s1 = [s EXCEPT !.pending = @ \o [i \in 1..sdu.of |->
                               [tx_seq |-> sequence_add(s.next_tx_seq, i - 1),
                                segment |-> Segment(sdu, i), transmissions |-> 0]],
                     !.next_tx_seq = sequence_add(@, sdu.of)]
  BY DEF k
<1>7. sequence_add(s.next_tx_seq, k) = (n + k) % Modulus /\ (n + k) % Modulus \in Wrapped
  <2>1. k \in Int
    BY <1>2
  <2> QED BY <1>2, <1>3, <2>1, Zenon DEF sequence_add
<1>8. \A i \in 1..k : new[i].tx_seq = (n + i - 1) % Modulus /\ new[i].segment = Segment(sdu, i)
  BY <1>4, <1>5
<1> HIDE DEF new, Queued
<1>9. /\ s.pending \o new \in Seq(FrameType) /\ Len(s.pending \o new) = P + k
      /\ \A i \in 1..(P + k) : (s.pending \o new)[i] = IF i <= P THEN s.pending[i] ELSE new[i - P]
  <2>1. /\ s.pending \o new \in Seq(FrameType) /\ Len(s.pending \o new) = Len(s.pending) + Len(new)
        /\ \A i \in 1..(Len(s.pending) + Len(new)) :
             (s.pending \o new)[i] = IF i <= Len(s.pending) THEN s.pending[i] ELSE new[i - Len(s.pending)]
    <3> HIDE DEF s1
    <3> QED BY <1>2, <1>5, ConcatProperties, ZenonT(40)
  <2> QED BY <1>5, <2>1 DEF P
<1>10. /\ s1 \in EngineType /\ s1.outbound = s.outbound
       /\ s1.tx_window = s.tx_window /\ s1.pending = s.pending \o new
       /\ s1.last_acked_tx_seq = s.last_acked_tx_seq /\ s1.next_tx_seq = (n + k) % Modulus
       /\ s1.expected_tx_seq = s.expected_tx_seq
       /\ s1.received = s.received /\ s1.input_sdu = s.input_sdu
  BY <1>2, <1>7, <1>9, Zenon DEF EngineType
<1>11. send_sdu(s, sdu) = process_output(s1)
  BY <1>6 DEF send_sdu
<1> HIDE DEF s1
<1>12. Numbered(s.tx_window, longer, acked)
  <2> SUFFICES ASSUME NEW i \in 1..W PROVE longer[acked + i] = stream[acked + i]
    BY Zenon DEF Numbered, Sends, W
  <2> QED BY <1>1, <1>2
<1>13. Numbered(s.pending \o new, longer, acked + W)
  <2> SUFFICES ASSUME NEW i \in 1..(P + k)
               PROVE  /\ (s.pending \o new)[i].tx_seq = ((acked + W) + i - 1) % Modulus
                      /\ (s.pending \o new)[i].segment = longer[(acked + W) + i]
    BY <1>9, SMTT(30) DEF Numbered
  <2>1. CASE i <= P
    <3>1. i \in 1..P /\ (s.pending \o new)[i] = s.pending[i]
      BY <1>2, <1>9, <2>1
    <3>2. /\ s.pending[i].tx_seq = ((acked + W) + i - 1) % Modulus
          /\ s.pending[i].segment = stream[(acked + W) + i]
      BY <3>1, Zenon DEF Numbered, Sends, W, P
    <3>3. (acked + W) + i \in 1..n
      BY <1>2, <3>1
    <3> QED BY <1>1, <3>1, <3>2, <3>3
  <2>2. CASE ~(i <= P)
    <3> DEFINE j == i - P
    <3>1. j \in 1..k /\ n + j - 1 = (acked + W) + i - 1 /\ n + j = (acked + W) + i
      BY <1>2, <2>2
    <3>2. (s.pending \o new)[i] = new[j]
      BY <1>9, <2>2
    <3> HIDE DEF j
    <3> QED BY <1>1, <1>8, <3>1, <3>2
  <2> QED BY <2>1, <2>2, Zenon
<1>14. Sends(s1, longer, acked)
  <2>1. Len(longer) = acked + Len(s1.tx_window) + Len(s1.pending) /\ Len(longer) = n + k
    <3>1. n + k = acked + W + (P + k)
      BY <1>2
    <3> QED BY <1>1, <1>9, <1>10, <3>1 DEF W
  <2> QED BY <1>1, <1>10, <1>12, <1>13, <2>1, Zenon DEF Sends, W
<1>15. Outputs(s1, process_output(s1), longer, acked, position)
  BY <1>10, <1>14, ProcessesOutput
<1>16. Outputs(s, process_output(s1), longer, acked, position)
  BY <1>10, <1>15, Zenon DEF Outputs
<1> QED BY <1>11, <1>16, SMTT(30) DEF longer

LEMMA TakesLonger ==
  ASSUME NEW t, NEW stream, NEW taken, NEW sdus, NEW sdu \in SduType,
         Streams(stream, sdus), Takes(t, stream, taken, sdus), t \in EngineType,
         sdu.number = Len(sdus) + 1
  PROVE  Takes(t, stream \o Segments(sdu), taken, Append(sdus, sdu))
<1> DEFINE longer == stream \o Segments(sdu)
           more == Append(sdus, sdu)
<1>1. /\ Len(longer) = Len(stream) + sdu.of
      /\ \A i \in 1..Len(stream) : longer[i] = stream[i]
  BY LongerStream
<1>2. sdu.of \in Nat /\ Len(stream) \in Nat /\ taken \in 0..Len(stream) /\ Len(sdus) \in Nat
  BY LenProperties DEF SduType, Streams, Takes
<1>3. \A i \in 1..Len(sdus) : more[i] = sdus[i]
  BY AppendProperties DEF Streams
<1> HIDE DEF longer, more
<1>4. \A i \in 1..Len(t.received) : i \in 1..Len(sdus)
  <2>1. Len(t.received) \in Nat
    BY LenProperties DEF EngineType
  <2>2. CASE taken = 0
    BY <2>2 DEF Takes
  <2>3. CASE taken > 0
    <3>1. stream[taken].sdu.number \in 1..Len(sdus)
      BY <1>2, <2>3 DEF Streams
    <3>2. Len(t.received) = stream[taken].sdu.number \/ Len(t.received) = stream[taken].sdu.number - 1
      BY <2>3, SMTT(30) DEF Takes
    <3> QED BY <1>2, <2>1, <3>1, <3>2, SMTT(30)
  <2> QED BY <1>2, <2>2, <2>3
<1>5. \A i \in 1..Len(t.received) : t.received[i] = Segments(more[i])
  BY <1>3, <1>4 DEF Takes
<1>6. taken \in 0..Len(longer) /\ (taken > 0 => longer[taken] = stream[taken])
  BY <1>1, <1>2, SMTT(30)
<1> QED BY <1>5, <1>6, Zenon DEF Takes, longer, more

\* What a received frame leaves of engine s, which sends stream out and takes
\* stream in: it goes on from the acknowledged position k and from taken2.
Handles(s, s2, out, top, k, in, taken2, sdus) ==
    /\ Sends(s2, out, k) /\ Takes(s2, in, taken2, sdus) /\ Grows(s, s2)
    /\ top <= k + Len(s2.tx_window)
    /\ \E more \in Seq(MessageType) :
        /\ s2.outbound = s.outbound \o more
        /\ \A i \in 1..Len(more) : Emitted(more[i], out, k, k + Len(s2.tx_window), taken2)

LEMMA HandlesOutputs ==
  ASSUME NEW s, NEW s1 \in EngineType, NEW s2, NEW out, NEW k \in Nat, NEW in, NEW taken2,
         NEW sdus, Takes(s1, in, taken2, sdus), Grows(s, s1), s1.outbound = s.outbound,
         Outputs(s1, s2, out, k, taken2)
  PROVE  Handles(s, s2, out, k + Len(s1.tx_window), k, in, taken2, sdus)
<1>1. Sends(s2, out, k) /\ s2 \in EngineType
  BY SMTT(30) DEF Outputs, Sends
<1>2. Takes(s2, in, taken2, sdus)
  BY TakesSame, SMTT(30) DEF Outputs
<1>3. Grows(s, s2)
  BY Zenon DEF Grows, Outputs
<1>4. k + Len(s1.tx_window) <= k + Len(s2.tx_window)
  BY <1>1, LenProperties DEF Outputs, EngineType
<1> QED BY <1>1, <1>2, <1>3, <1>4, SMTT(30) DEF Handles, Outputs

\* Message m carries position p of in, close enough to taken to be told from others.
Reads(m, p, in, taken) ==
    m.type = "I" => /\ p < taken + Window /\ taken <= p + Window /\ p < Len(in)
                    /\ m.tx_seq = p % Modulus /\ m.segment = in[p + 1]

\* receive_frame of a message whose numbers are read as the positions they stand
\* for: what is acknowledged leaves the window, and the segment that is due, and
\* no other, is taken.
LEMMA ReceivesFrame ==
  ASSUME NEW s \in EngineType, s.error = "none", NEW out, NEW acked \in Nat,
         NEW in, NEW taken \in Nat, NEW sdus,
         Sends(s, out, acked), Streams(in, sdus), Takes(s, in, taken, sdus),
         NEW m \in MessageType, NEW k \in Nat, acked <= k, k <= acked + Len(s.tx_window),
         m.req_seq = k % Modulus, NEW p \in Nat, Reads(m, p, in, taken)
  PROVE  \E taken2 \in Nat :
            /\ Handles(s, receive_frame(s, m), out, acked + Len(s.tx_window), k, in, taken2, sdus)
            /\ taken2 = taken \/ (m.type = "I" /\ p = taken /\ taken2 = p + 1)
<1> DEFINE s1 == acknowledge(s, m.req_seq)
           top == acked + Len(s.tx_window)
<1>1. /\ Sends(s1, out, k) /\ k + Len(s1.tx_window) = top
      /\ s1.outbound = s.outbound /\ s1.expected_tx_seq = s.expected_tx_seq
      /\ s1.received = s.received /\ s1.input_sdu = s.input_sdu /\ s1.error = "none"
  <2> DEFINE r == k % Modulus
             a == acknowledge(s, r)
  <2> HIDE DEF s1, top
  <2>1. /\ Sends(a, out, k) /\ k + Len(a.tx_window) = acked + Len(s.tx_window)
        /\ a.outbound = s.outbound /\ a.expected_tx_seq = s.expected_tx_seq
        /\ a.received = s.received /\ a.input_sdu = s.input_sdu /\ a.error = s.error
    <3>1. LET s2 == acknowledge(s, k % Modulus) IN
          /\ Sends(s2, out, k)
          /\ k + Len(s2.tx_window) = acked + Len(s.tx_window)
          /\ s2.outbound = s.outbound /\ s2.expected_tx_seq = s.expected_tx_seq
          /\ s2.received = s.received /\ s2.input_sdu = s.input_sdu
          /\ s2.error = s.error
      BY Acknowledges, ZenonT(40)
    <3> QED BY <3>1
  <2>2. s1 = a
    BY DEF s1
  <2> HIDE DEF a
  <2> QED BY <2>1, <2>2 DEF top
<1> HIDE DEF s1, top
<1>2. s1 \in EngineType /\ Takes(s1, in, taken, sdus) /\ s1.expected_tx_seq = taken % Modulus
  BY <1>1, TakesSame DEF Sends, Takes
<1>3. Grows(s, s1)
  BY <1>1 DEF Grows
<1>4. ASSUME NEW s2, Outputs(s1, s2, out, k, taken)
      PROVE  Handles(s, s2, out, top, k, in, taken, sdus)
  BY <1>1, <1>2, <1>3, <1>4, HandlesOutputs
<1>5. CASE m.type # "I"
  <2> DEFINE told == [s1 EXCEPT !.remote_busy = (m.type = "RNR")]
             repeated == IF m.type = "REJ" THEN retransmit_all(told) ELSE told
             s2 == receive_supervisory(s1, m.type)
  <2>1. /\ told \in EngineType /\ SameSending(s1, told)
        /\ told.expected_tx_seq = s1.expected_tx_seq
        /\ told.received = s1.received /\ told.input_sdu = s1.input_sdu
    BY <1>2, ZenonT(40) DEF EngineType, SameSending
  <2> HIDE DEF told
  <2>2. Sends(told, out, k)
    BY <1>1, <2>1, SendsSame
  <2>3. Outputs(told, repeated, out, k, taken)
    BY <1>2, <2>1, <2>2, RetransmitsAll, OutputsNothing
  <2> HIDE DEF repeated
  <2>4. Sends(repeated, out, k) /\ repeated.expected_tx_seq = taken % Modulus
    BY <1>2, <2>1, <2>3 DEF Outputs
  <2>5. Outputs(repeated, process_output(repeated), out, k, taken)
    BY <2>4, ProcessesOutput
  <2>6. Outputs(told, process_output(repeated), out, k, taken)
    BY <2>1, <2>3, <2>5, OutputsTransitive
  <2>7. s2 = repeated \/ s2 = process_output(repeated)
    BY DEF receive_supervisory, repeated, told
  <2>8. Outputs(told, s2, out, k, taken)
    BY <2>3, <2>6, <2>7, SMTT(30)
  <2> HIDE DEF s2
  <2>9. Outputs(s1, s2, out, k, taken)
    BY <2>1, <2>8, Zenon DEF Outputs, SameSending
  <2>10. receive_frame(s, m) = s2
    BY <1>1, <1>5 DEF receive_frame, s1, s2
  <2> QED BY <1>4, <2>9, <2>10 DEF top
<1>6. CASE m.type = "I"
  <2>0. /\ p < taken + Window /\ taken <= p + Window /\ p < Len(in)
        /\ m.tx_seq = p % Modulus /\ m.segment = in[p + 1]
    BY <1>6 DEF Reads
  <2> DEFINE s2 == receive_information(s1, m)
  <2>1. receive_frame(s, m) = s2
    BY <1>1, <1>6 DEF receive_frame, s1
  <2>2. CASE s1.local_busy
    <3>1. s2 = send_supervisory(s1, "RNR")
      BY <2>2 DEF receive_information
    <3>2. Outputs(s1, s2, out, k, taken)
      BY <1>1, <1>2, <3>1, Supervises
    <3> HIDE DEF s2
    <3> QED BY <1>4, <2>1, <3>2 DEF top
  <2>3. CASE ~s1.local_busy /\ ~InSequence(s1, m)
    <3>1. s2 = send_supervisory(s1, "REJ")
      BY <2>3 DEF receive_information
    <3>2. Outputs(s1, s2, out, k, taken)
      BY <1>1, <1>2, <3>1, Supervises, SMTT(30)
    <3> HIDE DEF s2
    <3> QED BY <1>4, <2>1, <3>2 DEF top
  <2>4. CASE ~s1.local_busy /\ InSequence(s1, m)
    <3>1. p % Modulus = taken % Modulus
      BY <1>2, <2>0, <2>4, SMTT(30) DEF InSequence
    <3>2. p - taken < Modulus /\ taken - p < Modulus /\ p \in Int /\ taken \in Int
      BY <2>0, WindowFacts
    <3>3. p = taken
      BY <3>1, <3>2, WindowFacts, ModUnique, SMTT(30)
    <3>4. taken < Len(in) /\ m.segment = in[taken + 1] /\ taken + 1 \in Nat
      BY <2>0, <3>3
    <3> DEFINE a == accept_information([s1 EXCEPT !.expected_tx_seq = sequence_add(@, 1)], m.segment)
               answered == process_output(a)
    <3>5. /\ a \in EngineType /\ Takes(a, in, taken + 1, sdus)
          /\ SameSending(s1, a) /\ Grows(s1, a) /\ a.error = "none"
      BY <1>1, <1>2, <3>4, Accepts, SMTT(30)
    <3> HIDE DEF a
    <3>6. Sends(a, out, k) /\ a.expected_tx_seq = (taken + 1) % Modulus
      BY <1>1, <3>5, SendsSame, ZenonT(40) DEF Takes
    <3>7. Outputs(a, answered, out, k, taken + 1)
      BY <3>4, <3>6, ProcessesOutput
    <3> HIDE DEF answered
    <3>8. Sends(answered, out, k) /\ answered.expected_tx_seq = (taken + 1) % Modulus
      BY <3>6, <3>7, SMTT(30) DEF Outputs
    <3>9. Outputs(answered, send_supervisory(answered, "RR"), out, k, taken + 1)
      BY <3>4, <3>8, Supervises, SMTT(30)
    <3>10. Outputs(a, send_supervisory(answered, "RR"), out, k, taken + 1)
      BY <3>5, <3>7, <3>9, OutputsTransitive
    <3>11. s2 = send_supervisory(answered, "RR") \/ s2 = answered
      BY <2>4, <3>5 DEF receive_information, a, answered
    <3>12. Outputs(a, s2, out, k, taken + 1)
      BY <3>7, <3>10, <3>11, SMTT(30)
    <3> HIDE DEF s2
    <3>13. Grows(s, a) /\ a.outbound = s.outbound /\ k + Len(a.tx_window) = top
      BY <1>1, <3>5, ZenonT(40) DEF Grows, SameSending
    <3>14. Handles(s, s2, out, top, k, in, taken + 1, sdus)
      BY <3>5, <3>12, <3>13, HandlesOutputs
    <3> QED BY <1>6, <2>1, <3>3, <3>4, <3>14, SMTT(30) DEF top
  <2> QED BY <2>2, <2>3, <2>4
<1> QED BY <1>5, <1>6

=============================================================================
