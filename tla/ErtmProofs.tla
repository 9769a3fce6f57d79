----------------------------- MODULE ErtmProofs -----------------------------
(***************************************************************************)
(* The theorems about the retransmission engines: every step preserves the   *)
(* invariant of ErtmEngine, no frame is ever refused, and what the engines   *)
(* deliver is what a reliable stream would.                                  *)
(***************************************************************************)
EXTENDS ErtmEngine

-----------------------------------------------------------------------------
(* What the steps do to one direction *)

LEMMA CarriedLower ==
  ASSUME NEW link, NEW stream, NEW top, NEW taken, NEW k \in Nat, NEW low \in Nat, NEW high,
         low <= k, Carried(link, stream, top, taken, k, high)
  PROVE  Carried(link, stream, top, taken, low, high)
<1>1. PICK at, ack : Carries(link, at, ack, stream, top, taken, k, high)
  BY DEF Carried
<1>2. \A i \in 1..Len(link) : low <= ack[i]
  <2> SUFFICES ASSUME NEW i \in 1..Len(link) PROVE low <= ack[i]
    OBVIOUS
  <2>1. ack[i] \in Nat /\ k <= ack[i]
    BY <1>1 DEF Carries
  <2> QED BY <2>1
<1>3. Carries(link, at, ack, stream, top, taken, low, high)
  BY <1>1, <1>2, SMTT(30) DEF Carries
<1> QED BY <1>3 DEF Carried

\* The sender puts frames on the link, perhaps those of a further SDU.
LEMMA DirectionSends ==
  ASSUME NEW s, NEW s2, NEW t, NEW sdus, NEW stream, NEW longer, NEW more,
         NEW acked \in Nat, NEW taken \in Nat, NEW low \in Nat, NEW high \in Nat, low <= high,
         Direction(s, t, sdus, stream, acked, taken, low, high),
         Streams(longer, more), Takes(t, longer, taken, more),
         \A i \in 1..Len(stream) : longer[i] = stream[i],
         Outputs(s, s2, longer, acked, high)
  PROVE  Direction(s2, t, more, longer, acked, taken, low, high)
<1> DEFINE top == acked + Len(s.tx_window)
           top2 == acked + Len(s2.tx_window)
<1>1. /\ s \in EngineType /\ s2 \in EngineType /\ Sends(s2, longer, acked)
      /\ s.outbound \in Seq(MessageType) /\ Len(s.tx_window) <= Len(s2.tx_window)
      /\ Len(s2.tx_window) <= Window /\ Len(stream) = top + Len(s.pending)
  BY ZenonT(40) DEF Direction, Sends, Outputs, EngineType
<1>2. Len(s.tx_window) \in Nat /\ Len(s2.tx_window) \in Nat /\ Len(s.pending) \in Nat
  BY <1>1, LenProperties, Zenon DEF EngineType
<1>3. /\ top \in Nat /\ top2 \in Nat /\ top <= top2 /\ top2 <= acked + Window
      /\ acked <= taken /\ taken <= top /\ taken <= top2 /\ taken <= acked + Window
  BY <1>1, <1>2, WindowFacts, SMTT(30) DEF Direction
<1>4. \A i \in 1..top : longer[i] = stream[i]
  <2> SUFFICES ASSUME NEW i \in 1..top PROVE i \in 1..Len(stream)
    OBVIOUS
  <2> HIDE DEF top, top2
  <2> QED BY <1>1, <1>2, <1>3
<1>5. Carried(s.outbound, stream, top, taken, low, high)
  BY SMTT(30) DEF Direction
<1>6. PICK frames \in Seq(MessageType) :
        /\ s2.outbound = s.outbound \o frames
        /\ \A i \in 1..Len(frames) : Emitted(frames[i], longer, acked, top2, high)
  BY SMTT(30) DEF Outputs
<1> HIDE DEF top, top2
<1>7. Carried(s.outbound \o frames, longer, top2, taken, low, high)
  <2>1. high <= high
    OBVIOUS
  <2> QED BY <1>1, <1>3, <1>4, <1>5, <1>6, <2>1, CarriedMore, ZenonT(40)
<1> QED BY <1>1, <1>3, <1>6, <1>7, SMTT(30) DEF Direction, top2

\* A step of the receiver that takes nothing.
LEMMA DirectionReceiver ==
  ASSUME NEW s, NEW t, NEW t2, NEW sdus, NEW stream, NEW acked, NEW taken, NEW low, NEW high,
         Direction(s, t, sdus, stream, acked, taken, low, high),
         t2.expected_tx_seq = t.expected_tx_seq,
         t2.received = t.received, t2.input_sdu = t.input_sdu
  PROVE  Direction(s, t2, sdus, stream, acked, taken, low, high)
  BY TakesSame DEF Direction

\* The first message leaves the link: lost, or taken by the receiver.
LEMMA DirectionTail ==
  ASSUME NEW s, NEW t, NEW t2, NEW sdus, NEW stream, NEW acked \in Nat, NEW taken \in Nat,
         NEW taken2 \in Nat, NEW low, NEW high, NEW k, NEW high2,
         Direction(s, t, sdus, stream, acked, taken, low, high),
         taken <= taken2, taken2 <= acked + Len(s.tx_window),
         s.outbound # <<>>, Takes(t2, stream, taken2, sdus),
         Carried(Tail(s.outbound), stream, acked + Len(s.tx_window), taken2, k, high2)
  PROVE  Direction([s EXCEPT !.outbound = Tail(@)], t2, sdus, stream, acked, taken2, k, high2)
<1> DEFINE s2 == [s EXCEPT !.outbound = Tail(@)]
<1>1. s \in EngineType
  BY DEF Direction, Sends
<1>2. Tail(s.outbound) \in Seq(MessageType)
  BY <1>1, HeadTailProperties DEF EngineType
<1>3. /\ s2 \in EngineType /\ s2.outbound = Tail(s.outbound)
      /\ s2.tx_window = s.tx_window /\ s2.pending = s.pending
      /\ s2.last_acked_tx_seq = s.last_acked_tx_seq /\ s2.next_tx_seq = s.next_tx_seq
  BY <1>1, <1>2, ZenonT(40) DEF EngineType
<1> HIDE DEF s2
<1>4. Sends(s2, stream, acked)
  BY <1>3 DEF Direction, Sends
<1>5. acked <= taken2
  BY DEF Direction
<1>6. Direction(s2, t2, sdus, stream, acked, taken2, k, high2)
  BY <1>3, <1>4, <1>5 DEF Direction
<1> QED BY <1>6, SMTT(30) DEF s2

\* The sender handles a frame of the other direction.
LEMMA DirectionHandles ==
  ASSUME NEW s, NEW s2, NEW t, NEW sdus, NEW stream, NEW acked \in Nat, NEW taken \in Nat,
         NEW low \in Nat, NEW high \in Nat, NEW k \in Nat, NEW high2 \in Nat, NEW in, NEW others,
         Direction(s, t, sdus, stream, acked, taken, low, high),
         Handles(s, s2, stream, acked + Len(s.tx_window), k, in, high2, others),
         acked <= k, k <= taken, low <= high, high <= high2
  PROVE  Direction(s2, t, sdus, stream, k, taken, low, high2)
<1> DEFINE top == acked + Len(s.tx_window)
           top2 == k + Len(s2.tx_window)
<1>1. /\ s \in EngineType /\ s2 \in EngineType /\ Sends(s2, stream, k)
      /\ s.outbound \in Seq(MessageType) /\ Len(s2.tx_window) <= Window
  BY Zenon DEF Direction, Sends, Handles, EngineType
<1>2. Len(s.tx_window) \in Nat /\ Len(s2.tx_window) \in Nat
  BY <1>1, LenProperties DEF EngineType
<1>3. /\ top \in Nat /\ top2 \in Nat /\ top <= top2 /\ top2 <= k + Window
      /\ taken <= top /\ taken <= top2 /\ taken <= k + Window /\ low <= high2
  <2>1. taken <= top /\ top <= top2
    BY DEF Direction, Handles
  <2> QED BY <1>1, <1>2, <2>1, WindowFacts, SMTT(30)
<1>4. Carried(s.outbound, stream, top, taken, low, high)
  BY DEF Direction
<1>5. PICK frames \in Seq(MessageType) :
        /\ s2.outbound = s.outbound \o frames
        /\ \A i \in 1..Len(frames) : Emitted(frames[i], stream, k, top2, high2)
  BY Zenon DEF Handles
<1> HIDE DEF top, top2
<1>6. Carried(s.outbound \o frames, stream, top2, taken, low, high2)
  <2>1. \A i \in 1..top : stream[i] = stream[i]
    OBVIOUS
  <2> QED BY <1>1, <1>3, <1>4, <1>5, <2>1, CarriedMore, Zenon
<1> QED BY <1>1, <1>3, <1>5, <1>6, SMTT(30) DEF Direction, top2

-----------------------------------------------------------------------------
(* The invariant *)

LEMMA Sidedness ==
  ASSUME NEW e \in Sides
  PROVE  /\ Other(e) \in Sides /\ Other(e) # e /\ Other(Other(e)) = e
         /\ \A f \in Sides : f = e \/ f = Other(e)
  BY SMTT(30) DEF Sides, Other

\* It is enough to look at the two directions of one side.
LEMMA BothDirections ==
  ASSUME NEW e \in Sides, NEW en, NEW se, NEW stream, NEW acked, NEW taken,
         Direction(en[e], en[Other(e)], se[e], stream[e], acked[e], taken[e],
                   acked[Other(e)], taken[Other(e)]),
         Direction(en[Other(e)], en[e], se[Other(e)], stream[Other(e)], acked[Other(e)],
                   taken[Other(e)], acked[e], taken[e])
  PROVE  \A f \in Sides :
            Direction(en[f], en[Other(f)], se[f], stream[f], acked[f], taken[f],
                      acked[Other(f)], taken[Other(f)])
<1> SUFFICES ASSUME NEW f \in Sides
             PROVE  Direction(en[f], en[Other(f)], se[f], stream[f], acked[f], taken[f],
                              acked[Other(f)], taken[Other(f)])
  OBVIOUS
<1>1. CASE f = e
  BY <1>1, SMTT(30)
<1>2. CASE f = Other(e)
  <2>1. Other(f) = e
    BY <1>2, Sidedness
  <2> QED BY <1>2, <2>1, SMTT(30)
<1> QED BY <1>1, <1>2, Sidedness, ZenonT(40)

LEMMA InitInvariant == Init => IInv
<1> SUFFICES ASSUME Init PROVE IInv
  OBVIOUS
<1>1. engine = [e \in Sides |-> New] /\ sent = [e \in Sides |-> <<>>]
  BY SMTT(30) DEF Init
<1>2. /\ New \in EngineType /\ New.tx_window = <<>> /\ New.pending = <<>> /\ New.outbound = <<>>
      /\ New.last_acked_tx_seq = 0 /\ New.next_tx_seq = 0 /\ New.expected_tx_seq = 0
      /\ New.input_sdu = <<>> /\ New.received = <<>>
  <2>1. 0 \in Wrapped
    BY WindowFacts DEF Wrapped
  <2>2. \A S : <<>> \in Seq(S)
    BY EmptySeq
  <2> QED BY <2>1, <2>2 DEF New, EngineType
<1>3. 0 % Modulus = 0
  BY WindowFacts
<1>4. Sends(New, <<>>, 0)
  <2>1. <<>> \in Seq(SegmentType) /\ Len(<<>>) = 0
    OBVIOUS
  <2>2. Numbered(<<>>, <<>>, 0) /\ 0 + 0 + 0 = 0 /\ 0 + 0 = 0
    BY DEF Numbered
  <2> QED BY <1>2, <1>3, <2>1, <2>2, WindowFacts DEF Sends
<1>5. Streams(<<>>, <<>>)
  BY EmptySeq DEF Streams
<1>6. Takes(New, <<>>, 0, <<>>)
  BY <1>2, <1>3 DEF Takes
<1>7. Carried(<<>>, <<>>, 0, 0, 0, 0)
  <2>1. Carries(<<>>, <<>>, <<>>, <<>>, 0, 0, 0, 0)
    BY DEF Carries
  <2> QED BY <2>1 DEF Carried
<1>8. Direction(New, New, <<>>, <<>>, 0, 0, 0, 0)
  BY <1>2, <1>4, <1>5, <1>6, <1>7, SMTT(30) DEF Direction
<1> DEFINE zero == [e \in Sides |-> 0]
<1>9. Positions(sent, zero, zero)
  <2>1. zero \in [Sides -> Nat]
    OBVIOUS
  <2>2. \A e \in Sides :
          Direction(engine[e], engine[Other(e)], sent[e], sent[e], zero[e], zero[e],
                    zero[Other(e)], zero[Other(e)])
    <3> SUFFICES ASSUME NEW e \in Sides
                 PROVE  Direction(engine[e], engine[Other(e)], sent[e], sent[e], zero[e], zero[e],
                                  zero[Other(e)], zero[Other(e)])
      OBVIOUS
    <3>1. /\ engine[e] = New /\ engine[Other(e)] = New /\ sent[e] = <<>>
          /\ zero[e] = 0 /\ zero[Other(e)] = 0
      BY <1>1, Sidedness
    <3> QED BY <1>8, <3>1, SMTT(30)
  <2> HIDE DEF zero
  <2> QED BY <2>1, <2>2 DEF Positions
<1>10. engine \in [Sides -> EngineType] /\ sent \in [Sides -> Seq(SduType)]
  BY <1>1, <1>2, EmptySeq, SMTT(30)
<1> HIDE DEF zero
<1> QED BY <1>9, <1>10 DEF IInv

\* What the invariant says of a side and its peer.
LEMMA BothSides ==
  ASSUME NEW e \in Sides, NEW stream, NEW acked, NEW taken, Positions(stream, acked, taken)
  PROVE  LET f == Other(e) IN
         /\ Direction(engine[e], engine[f], sent[e], stream[e], acked[e], taken[e],
                      acked[f], taken[f])
         /\ Direction(engine[f], engine[e], sent[f], stream[f], acked[f], taken[f],
                      acked[e], taken[e])
         /\ acked[e] \in Nat /\ taken[e] \in Nat /\ acked[f] \in Nat /\ taken[f] \in Nat
         /\ acked[e] <= taken[e] /\ acked[f] <= taken[f]
         /\ Sends(engine[e], stream[e], acked[e])
         /\ engine[e].expected_tx_seq = taken[f] % Modulus
         /\ Streams(stream[e], sent[e]) /\ Streams(stream[f], sent[f])
         /\ Takes(engine[f], stream[e], taken[e], sent[e])
         /\ Takes(engine[e], stream[f], taken[f], sent[f])
<1> DEFINE f == Other(e)
<1>1. f \in Sides /\ Other(f) = e
  BY Sidedness, SMTT(30)
<1> HIDE DEF f
<1>2. /\ Direction(engine[e], engine[f], sent[e], stream[e], acked[e], taken[e],
                   acked[f], taken[f])
      /\ Direction(engine[f], engine[e], sent[f], stream[f], acked[f], taken[f],
                   acked[e], taken[e])
  BY <1>1, SMTT(30) DEF Positions, f
<1>3. acked[e] \in Nat /\ taken[e] \in Nat /\ acked[f] \in Nat /\ taken[f] \in Nat
  BY <1>1, SMTT(30) DEF Positions
<1>4. /\ acked[e] <= taken[e] /\ acked[f] <= taken[f]
      /\ Sends(engine[e], stream[e], acked[e])
      /\ Streams(stream[e], sent[e]) /\ Streams(stream[f], sent[f])
      /\ Takes(engine[f], stream[e], taken[e], sent[e])
      /\ Takes(engine[e], stream[f], taken[f], sent[f])
  BY <1>2, ZenonT(40) DEF Direction
<1>5. engine[e].expected_tx_seq = taken[f] % Modulus
  BY <1>4, ZenonT(40) DEF Takes
<1> QED BY <1>2, <1>3, <1>4, <1>5, Zenon DEF f

\* Side e sends, by a timeout or by announcing that it is busy or ready.
LEMMA StepSends ==
  ASSUME NEW e \in Sides, NEW stream, NEW acked, NEW taken, Positions(stream, acked, taken),
         NEW s2, Outputs(engine[e], s2, stream[e], acked[e], taken[Other(e)]), NEW en,
         en[e] = s2, en[Other(e)] = engine[Other(e)]
  PROVE  /\ s2 \in EngineType /\ s2.received = engine[e].received
         /\ \A g \in Sides :
              Direction(en[g], en[Other(g)], sent[g], stream[g], acked[g], taken[g],
                        acked[Other(g)], taken[Other(g)])
<1> DEFINE f == Other(e)
           s == engine[e]
<1>1. f \in Sides /\ f # e /\ Other(f) = e
  BY Sidedness, SMTT(30)
<1>2. /\ Direction(s, engine[f], sent[e], stream[e], acked[e], taken[e], acked[f], taken[f])
      /\ Direction(engine[f], s, sent[f], stream[f], acked[f], taken[f], acked[e], taken[e])
      /\ acked[e] \in Nat /\ taken[e] \in Nat /\ acked[f] \in Nat /\ taken[f] \in Nat
      /\ acked[f] <= taken[f]
      /\ Streams(stream[e], sent[e]) /\ Takes(engine[f], stream[e], taken[e], sent[e])
  BY BothSides, ZenonT(40)
<1>3. s2 \in EngineType /\ s2.expected_tx_seq = s.expected_tx_seq
      /\ s2.received = s.received /\ s2.input_sdu = s.input_sdu
  BY SMTT(30) DEF Outputs, Sends
<1>4. en[e] = s2 /\ en[f] = engine[f]
  OBVIOUS
<1>5. Outputs(s, s2, stream[e], acked[e], taken[f])
  OBVIOUS
<1> HIDE DEF f, s
<1>6. Direction(s2, engine[f], sent[e], stream[e], acked[e], taken[e], acked[f], taken[f])
  BY <1>2, <1>5, DirectionSends, ZenonT(40)
<1>7. Direction(engine[f], s2, sent[f], stream[f], acked[f], taken[f], acked[e], taken[e])
  BY <1>2, <1>3, DirectionReceiver, ZenonT(40)
<1>8. /\ Direction(en[e], en[f], sent[e], stream[e], acked[e], taken[e], acked[f], taken[f])
      /\ Direction(en[f], en[e], sent[f], stream[f], acked[f], taken[f], acked[e], taken[e])
  BY <1>4, <1>6, <1>7, Zenon
<1>9. \A g \in Sides :
        Direction(en[g], en[Other(g)], sent[g], stream[g], acked[g], taken[g],
                  acked[Other(g)], taken[Other(g)])
  BY <1>8, BothDirections, ZenonT(40) DEF f
<1> QED BY <1>3, <1>9, ZenonT(40) DEF s

\* No SDU is received in a step.
Quiet == \A g \in Sides : engine'[g].received = engine[g].received

LEMMA StepTick ==
  ASSUME IInv, NEW e \in Sides, Tick(e)
  PROVE  IInv' /\ Quiet
<1>1. PICK stream, acked, taken : Positions(stream, acked, taken)
  BY DEF IInv
<1> DEFINE s2 == retransmit_all(engine[e])
<1>2. /\ engine \in [Sides -> EngineType] /\ sent \in [Sides -> Seq(SduType)]
      /\ engine' = [engine EXCEPT ![e] = s2] /\ sent' = sent
  BY SMTT(30) DEF IInv, Tick
<1>3. /\ Sends(engine[e], stream[e], acked[e]) /\ taken[Other(e)] \in Nat
      /\ engine[e].expected_tx_seq = taken[Other(e)] % Modulus
  BY <1>1, BothSides, ZenonT(40)
<1>4. Outputs(engine[e], s2, stream[e], acked[e], taken[Other(e)])
  BY <1>3, RetransmitsAll, ZenonT(40)
<1> HIDE DEF s2
<1>5. IInv' /\ s2.received = engine[e].received
  <2>1. engine'[e] = s2 /\ engine'[Other(e)] = engine[Other(e)]
    BY <1>2, Sidedness, SMTT(30)
  <2>2. /\ s2 \in EngineType /\ s2.received = engine[e].received
        /\ \A g \in Sides :
             Direction(engine'[g], engine'[Other(g)], sent[g], stream[g], acked[g], taken[g],
                       acked[Other(g)], taken[Other(g)])
    BY <1>1, <1>4, <2>1, StepSends, SMTT(30)
  <2>3. Positions(stream, acked, taken)'
    BY <1>1, <1>2, <2>2 DEF Positions
  <2> QED BY <1>2, <2>2, <2>3 DEF IInv
<1>6. Quiet
  BY <1>2, <1>5 DEF Quiet
<1> QED BY <1>5, <1>6

LEMMA StepSetReceiverBusy ==
  ASSUME IInv, NEW e \in Sides, SetReceiverBusy(e)
  PROVE  IInv' /\ Quiet
<1>1. PICK stream, acked, taken : Positions(stream, acked, taken)
  BY DEF IInv
<1> DEFINE now == ~engine[e].local_busy
           type == IF now THEN "RNR" ELSE "RR"
           s1 == [engine[e] EXCEPT !.local_busy = now]
           s2 == send_supervisory(s1, type)
<1>2. /\ engine \in [Sides -> EngineType] /\ sent \in [Sides -> Seq(SduType)]
      /\ engine' = [engine EXCEPT ![e] = s2] /\ sent' = sent
  BY DEF IInv, SetReceiverBusy
<1>3. /\ Sends(engine[e], stream[e], acked[e]) /\ taken[Other(e)] \in Nat
      /\ engine[e].expected_tx_seq = taken[Other(e)] % Modulus
  BY <1>1, BothSides, Zenon
<1>4. engine[e] \in EngineType /\ now \in BOOLEAN /\ type \in {"RR", "RNR", "REJ"}
  BY <1>2
<1> HIDE DEF type, now
<1>5. /\ s1 \in EngineType /\ SameSending(engine[e], s1)
      /\ s1.expected_tx_seq = engine[e].expected_tx_seq
      /\ s1.received = engine[e].received /\ s1.input_sdu = engine[e].input_sdu
  BY <1>4, ZenonT(40) DEF EngineType, SameSending
<1> HIDE DEF s1
<1>6. Sends(s1, stream[e], acked[e])
  BY <1>3, <1>5, SendsSame, Zenon
<1>7. Outputs(s1, s2, stream[e], acked[e], taken[Other(e)])
  BY <1>3, <1>4, <1>5, <1>6, Supervises, SMTT(30)
<1> HIDE DEF s2
<1>8. Outputs(engine[e], s2, stream[e], acked[e], taken[Other(e)])
  BY <1>5, <1>7, ZenonT(40) DEF Outputs, SameSending
<1>9. IInv' /\ s2.received = engine[e].received
  <2>1. engine'[e] = s2 /\ engine'[Other(e)] = engine[Other(e)]
    BY <1>2, Sidedness
  <2>2. /\ s2 \in EngineType /\ s2.received = engine[e].received
        /\ \A g \in Sides :
             Direction(engine'[g], engine'[Other(g)], sent[g], stream[g], acked[g], taken[g],
                       acked[Other(g)], taken[Other(g)])
    BY <1>1, <1>8, <2>1, StepSends, SMTT(30)
  <2>3. Positions(stream, acked, taken)'
    BY <1>1, <1>2, <2>2 DEF Positions
  <2> QED BY <1>2, <2>2, <2>3 DEF IInv
<1>10. Quiet
  BY <1>2, <1>9 DEF Quiet
<1> QED BY <1>9, <1>10

LEMMA StepLose ==
  ASSUME IInv, NEW e \in Sides, Lose(e)
  PROVE  IInv' /\ Quiet
<1>1. PICK stream, acked, taken : Positions(stream, acked, taken)
  BY DEF IInv
<1> DEFINE f == Other(e)
           s == engine[e]
           s2 == [s EXCEPT !.outbound = Tail(@)]
           top == acked[e] + Len(s.tx_window)
<1>2. /\ engine \in [Sides -> EngineType] /\ engine' = [engine EXCEPT ![e] = s2] /\ sent' = sent
      /\ s.outbound # <<>> /\ sent \in [Sides -> Seq(SduType)]
  BY DEF IInv, Lose
<1>3. f \in Sides /\ f # e /\ Other(f) = e
  BY Sidedness, SMTT(30)
<1>4. /\ Direction(s, engine[f], sent[e], stream[e], acked[e], taken[e], acked[f], taken[f])
      /\ Direction(engine[f], s, sent[f], stream[f], acked[f], taken[f], acked[e], taken[e])
      /\ acked[e] \in Nat /\ taken[e] \in Nat /\ acked[f] \in Nat /\ taken[f] \in Nat
      /\ Takes(engine[f], stream[e], taken[e], sent[e])
  BY <1>1, BothSides, Zenon
<1> HIDE DEF f, s
<1>5. s \in EngineType /\ s.outbound \in Seq(MessageType) /\ Len(s.tx_window) \in Nat
  BY <1>2, LenProperties, SMTT(30) DEF s, EngineType
<1>6. top \in Nat /\ taken[e] <= top /\ Carried(s.outbound, stream[e], top, taken[e], acked[f], taken[f])
  BY <1>4, <1>5, SMTT(30) DEF Direction
<1> HIDE DEF top
<1>7. PICK k \in acked[f]..taken[f] : Carried(Tail(s.outbound), stream[e], top, taken[e], k, taken[f])
  BY <1>2, <1>4, <1>5, <1>6, CarriedHead, Zenon
<1>8. Carried(Tail(s.outbound), stream[e], top, taken[e], acked[f], taken[f])
  BY <1>4, <1>7, CarriedLower, SMTT(30)
<1>9. Direction(s2, engine[f], sent[e], stream[e], acked[e], taken[e], acked[f], taken[f])
  <2>1. taken[e] <= taken[e]
    BY <1>4
  <2> QED BY <1>2, <1>4, <1>6, <1>8, <2>1, DirectionTail, ZenonT(40) DEF top
<1>10. /\ s2 \in EngineType /\ s2.expected_tx_seq = s.expected_tx_seq
       /\ s2.received = s.received /\ s2.input_sdu = s.input_sdu
  <2>1. Tail(s.outbound) \in Seq(MessageType)
    BY <1>2, <1>5, HeadTailProperties
  <2> QED BY <1>5, <2>1, ZenonT(40) DEF EngineType
<1> HIDE DEF s2
<1>11. Direction(engine[f], s2, sent[f], stream[f], acked[f], taken[f], acked[e], taken[e])
  BY <1>4, <1>10, DirectionReceiver, Zenon
<1>12. engine' \in [Sides -> EngineType] /\ engine'[e] = s2 /\ engine'[f] = engine[f]
  BY <1>2, <1>3, <1>10, SMTT(30)
<1>13. \A g \in Sides :
        Direction(engine'[g], engine'[Other(g)], sent'[g], stream[g], acked[g], taken[g],
                  acked[Other(g)], taken[Other(g)])
  <2> DEFINE en == engine'
  <2>1. /\ Direction(en[e], en[f], sent[e], stream[e], acked[e], taken[e], acked[f], taken[f])
        /\ Direction(en[f], en[e], sent[f], stream[f], acked[f], taken[f], acked[e], taken[e])
    BY <1>9, <1>11, <1>12
  <2> HIDE DEF en
  <2>2. \A g \in Sides :
          Direction(en[g], en[Other(g)], sent[g], stream[g], acked[g], taken[g],
                    acked[Other(g)], taken[Other(g)])
    BY <2>1, BothDirections, ZenonT(40) DEF f
  <2> QED BY <1>2, <2>2, ZenonT(40) DEF en
<1>14. Positions(stream, acked, taken)'
  BY <1>1, <1>13, SMTT(30) DEF Positions
<1>15. Quiet
  BY <1>2, <1>10 DEF Quiet, s
<1> QED BY <1>2, <1>12, <1>14, <1>15, Zenon DEF IInv

LEMMA StepSend ==
  ASSUME IInv, NEW e \in Sides, Send(e)
  PROVE  IInv' /\ Quiet
<1>1. PICK stream, acked, taken : Positions(stream, acked, taken)
  BY DEF IInv
<1> DEFINE f == Other(e)
           s == engine[e]
           n == Len(sent[e]) + 1
           sdu == [number |-> n, of |-> Script[e][n]]
           s2 == send_sdu(s, sdu)
           longer == stream[e] \o Segments(sdu)
           stream2 == [g \in Sides |-> IF g = e THEN longer ELSE stream[g]]
<1>2. /\ engine \in [Sides -> EngineType] /\ engine' = [engine EXCEPT ![e] = s2]
      /\ sent' = [sent EXCEPT ![e] = Append(@, sdu)] /\ n <= Len(Script[e])
  BY SMTT(30) DEF IInv, Send
<1>3. f \in Sides /\ f # e /\ Other(f) = e
  BY Sidedness
<1>4. /\ Direction(s, engine[f], sent[e], stream[e], acked[e], taken[e], acked[f], taken[f])
      /\ Direction(engine[f], s, sent[f], stream[f], acked[f], taken[f], acked[e], taken[e])
      /\ acked[e] \in Nat /\ taken[e] \in Nat /\ acked[f] \in Nat /\ taken[f] \in Nat
      /\ acked[f] <= taken[f]
      /\ Sends(s, stream[e], acked[e]) /\ Streams(stream[e], sent[e])
      /\ s.expected_tx_seq = taken[f] % Modulus
      /\ Takes(engine[f], stream[e], taken[e], sent[e])
  BY <1>1, BothSides, ZenonT(40)
<1>5. sdu \in SduType /\ sdu.number = Len(sent[e]) + 1
  <2>1. Len(sent[e]) \in Nat
    BY <1>4, LenProperties, Zenon DEF Streams
  <2>2. Script[e] \in Seq(Nat \ {0})
    BY ScriptAssumption, SMTT(30)
  <2>3. n \in 1..Len(Script[e])
    BY <1>2, <2>1, <2>2, LenProperties
  <2>4. Script[e][n] \in Nat \ {0} /\ n \in Nat \ {0}
    BY <2>1, <2>2, <2>3, ElementOfSeq, SMTT(30)
  <2> QED BY <2>4, ZenonT(40) DEF SduType
<1> HIDE DEF f, s, sdu
<1>6. Outputs(s, s2, longer, acked[e], taken[f])
  BY <1>4, <1>5, SendsSdu, ZenonT(40)
<1>7. Takes(engine[f], longer, taken[e], Append(sent[e], sdu))
  <2>1. engine[f] \in EngineType
    BY <1>2, <1>3, SMTT(30)
  <2> QED BY <1>4, <1>5, <2>1, TakesLonger, Zenon
<1>8. Streams(longer, Append(sent[e], sdu)) /\ \A i \in 1..Len(stream[e]) : longer[i] = stream[e][i]
  BY <1>4, <1>5, LongerStream, ZenonT(40)
<1> HIDE DEF s2, longer
<1>9. Direction(s2, engine[f], Append(sent[e], sdu), longer, acked[e], taken[e], acked[f], taken[f])
  BY <1>4, <1>6, <1>7, <1>8, DirectionSends, SMTT(30)
<1>10. /\ s2 \in EngineType /\ s2.expected_tx_seq = s.expected_tx_seq
       /\ s2.received = s.received /\ s2.input_sdu = s.input_sdu
  BY <1>6, Zenon DEF Outputs, Sends
<1>11. Direction(engine[f], s2, sent[f], stream[f], acked[f], taken[f], acked[e], taken[e])
  BY <1>4, <1>10, DirectionReceiver, ZenonT(40)
<1>12. engine' \in [Sides -> EngineType] /\ engine'[e] = s2 /\ engine'[f] = engine[f]
  BY <1>2, <1>3, <1>10
<1>13. stream2[e] = longer /\ stream2[f] = stream[f]
  BY <1>3
<1> HIDE DEF stream2
<1>. PICK streams : streams = stream2
  OBVIOUS
<1>14. Positions(streams, acked, taken)'
  <2> DEFINE en == engine'
             se == [g \in Sides |-> IF g = e THEN Append(sent[e], sdu) ELSE sent[g]]
  <2>1. se[e] = Append(sent[e], sdu) /\ se[f] = sent[f] /\ \A g \in Sides : sent'[g] = se[g]
    <3>1. \A g \in Sides : g \in DOMAIN sent
      BY SMTT(30) DEF IInv
    <3> QED BY <1>2, <1>3, <3>1
  <2> HIDE DEF en, se
  <2>2. /\ Direction(en[e], en[f], se[e], streams[e], acked[e], taken[e], acked[f], taken[f])
        /\ Direction(en[f], en[e], se[f], streams[f], acked[f], taken[f], acked[e], taken[e])
    BY <1>9, <1>11, <1>12, <1>13, <2>1, Zenon DEF en
  <2>3. \A g \in Sides :
          Direction(en[g], en[Other(g)], se[g], streams[g], acked[g], taken[g],
                    acked[Other(g)], taken[Other(g)])
    BY <2>2, BothDirections, ZenonT(40) DEF f
  <2>4. \A g \in Sides :
          Direction(engine'[g], engine'[Other(g)], sent'[g], streams[g], acked[g], taken[g],
                    acked[Other(g)], taken[Other(g)])
    BY <2>1, <2>3, ZenonT(40) DEF en
  <2>5. acked \in [Sides -> Nat] /\ taken \in [Sides -> Nat]
    BY <1>1 DEF Positions
  <2> QED BY <2>4, <2>5 DEF Positions
<1>15. Quiet
  BY <1>2, <1>10 DEF Quiet, s
<1>16. sent' \in [Sides -> Seq(SduType)]
  <2>1. sent \in [Sides -> Seq(SduType)] /\ Append(sent[e], sdu) \in Seq(SduType)
    BY <1>5, AppendProperties DEF IInv
  <2> QED BY <1>2, <2>1, SMTT(30)
<1> QED BY <1>12, <1>14, <1>15, <1>16, SMTT(30) DEF IInv

LEMMA StepReceive ==
  ASSUME IInv, NEW e \in Sides, Receive(e)
  PROVE  /\ IInv' /\ sent' = sent /\ Grows(engine[e], engine'[e])
         /\ engine'[Other(e)].received = engine[Other(e)].received
<1>1. PICK stream, acked, taken : Positions(stream, acked, taken)
  BY DEF IInv
<1> DEFINE f == Other(e)
           s == engine[e]
           t == engine[f]
           m == Head(t.outbound)
           s2 == receive_frame(s, m)
           t2 == [t EXCEPT !.outbound = Tail(@)]
           top == acked[f] + Len(t.tx_window)
<1>2. f \in Sides /\ f # e /\ Other(f) = e
  BY Sidedness
<1>3. /\ engine \in [Sides -> EngineType] /\ sent \in [Sides -> Seq(SduType)] /\ sent' = sent
      /\ engine' = [engine EXCEPT ![e] = receive_frame(@, m), ![f].outbound = Tail(@)]
      /\ s.error = "none" /\ t.outbound # <<>>
  BY DEF IInv, Receive, Ready
<1>4. /\ engine'[e] = s2 /\ engine'[f] = t2
      /\ \A g \in Sides : g = e \/ g = f
      /\ engine' = [g \in Sides |-> IF g = e THEN s2 ELSE t2]
  <2>1. \A g \in Sides : g = e \/ g = f
    BY Sidedness
  <2> HIDE DEF f
  <2>2. /\ engine'[e] = receive_frame(engine[e], m)
        /\ engine'[f] = [engine[f] EXCEPT !.outbound = Tail(@)]
    BY <1>2, <1>3
  <2>3. engine' = [g \in Sides |-> engine'[g]]
    BY <1>3, Zenon
  <2>4. engine' = [g \in Sides |-> IF g = e THEN s2 ELSE t2]
    BY <1>2, <2>1, <2>2, <2>3
  <2> QED BY <2>1, <2>2, <2>4
<1>5. /\ Direction(s, t, sent[e], stream[e], acked[e], taken[e], acked[f], taken[f])
      /\ Direction(t, s, sent[f], stream[f], acked[f], taken[f], acked[e], taken[e])
      /\ acked[e] \in Nat /\ taken[e] \in Nat /\ acked[f] \in Nat /\ taken[f] \in Nat
      /\ acked[e] <= taken[e] /\ acked[f] <= taken[f]
      /\ Sends(s, stream[e], acked[e])
      /\ Streams(stream[f], sent[f])
      /\ Takes(t, stream[e], taken[e], sent[e])
      /\ Takes(s, stream[f], taken[f], sent[f])
  BY <1>1, BothSides, Zenon
<1>6. /\ s \in EngineType /\ t \in EngineType /\ t.outbound \in Seq(MessageType)
      /\ Len(t.tx_window) \in Nat /\ Len(s.tx_window) \in Nat /\ Len(t.pending) \in Nat
      /\ m \in MessageType /\ Tail(t.outbound) \in Seq(MessageType)
  <2>1. s \in EngineType /\ t \in EngineType
    BY <1>2, <1>3
  <2> HIDE DEF s, t
  <2>2. t.outbound \in Seq(MessageType)
    BY <2>1, SMTT(30) DEF EngineType
  <2> QED BY <1>3, <2>1, <2>2, LenProperties, HeadTailProperties DEF EngineType
<1> HIDE DEF f, s, t, m, s2
<1>7. /\ top \in Nat /\ taken[f] <= top /\ top <= taken[f] + Window /\ top <= Len(stream[f])
      /\ Carried(t.outbound, stream[f], top, taken[f], acked[e], taken[e])
      /\ taken[e] <= acked[e] + Len(s.tx_window)
  <2>1. /\ taken[f] <= top /\ Len(t.tx_window) <= Window /\ Len(stream[f]) = top + Len(t.pending)
        /\ Carried(t.outbound, stream[f], top, taken[f], acked[e], taken[e])
        /\ taken[e] <= acked[e] + Len(s.tx_window)
    BY <1>5, ZenonT(40) DEF Direction, Sends
  <2>2. top \in Nat /\ top <= acked[f] + Window
    BY <1>5, <1>6, <2>1, WindowFacts, SMTT(30)
  <2>3. top <= taken[f] + Window
    BY <1>5, <2>2, WindowFacts, SMTT(30)
  <2> HIDE DEF top
  <2>4. top <= Len(stream[f])
    BY <1>6, <2>1, <2>2, SMTT(30)
  <2> QED BY <2>1, <2>2, <2>3, <2>4, SMTT(30)
<1> HIDE DEF top
<1>8. PICK k \in acked[e]..taken[e] :
        /\ m.req_seq = k % Modulus
        /\ Carried(Tail(t.outbound), stream[f], top, taken[f], k, taken[e])
        /\ m.type = "I" =>
             \E p \in Nat :
                /\ p < top /\ taken[f] <= p + Window
                /\ m.tx_seq = p % Modulus
                /\ m.segment = stream[f][p + 1]
                /\ Carried(Tail(t.outbound), stream[f], top, p + 1, k, taken[e])
  BY <1>3, <1>5, <1>6, <1>7, CarriedHead, ZenonT(40) DEF m
<1>9. PICK p \in Nat :
        m.type = "I" =>
            /\ p < top /\ taken[f] <= p + Window
            /\ m.tx_seq = p % Modulus
            /\ m.segment = stream[f][p + 1]
            /\ Carried(Tail(t.outbound), stream[f], top, p + 1, k, taken[e])
  BY <1>8
<1>10. k \in Nat /\ acked[e] <= k /\ k <= taken[e] /\ k <= acked[e] + Len(s.tx_window)
  BY <1>5, <1>6, <1>7, SMTT(30)
<1>11. m.type = "I" => p < taken[f] + Window /\ p < Len(stream[f])
  <2>1. Len(stream[f]) \in Nat
    BY <1>5, LenProperties, Zenon DEF Streams
  <2> QED BY <1>5, <1>7, <1>9, <2>1, WindowFacts, SMTT(30)
<1>12. PICK taken2 \in Nat :
        /\ Handles(s, s2, stream[e], acked[e] + Len(s.tx_window), k, stream[f], taken2, sent[f])
        /\ taken2 = taken[f] \/ (m.type = "I" /\ p = taken[f] /\ taken2 = p + 1)
  <2>1. Reads(m, p, stream[f], taken[f])
    BY <1>9, <1>11, ZenonT(40) DEF Reads
  <2>2. m.req_seq = k % Modulus
    BY <1>8, ZenonT(40)
  <2> QED BY <1>3, <1>5, <1>6, <1>10, <2>1, <2>2, ReceivesFrame, SMTT(30) DEF s2
<1>13. /\ taken[f] <= taken2 /\ taken2 <= top
       /\ Carried(Tail(t.outbound), stream[f], top, taken2, k, taken[e])
  BY <1>5, <1>7, <1>8, <1>9, <1>12, SMTT(30)
<1>14. s2 \in EngineType /\ Takes(s2, stream[f], taken2, sent[f]) /\ Grows(s, s2)
  BY <1>12 DEF Handles, Sends
<1>15. Direction(t2, s2, sent[f], stream[f], acked[f], taken2, k, taken[e])
  BY <1>3, <1>5, <1>13, <1>14, DirectionTail, ZenonT(40) DEF top
<1>16. Direction(s2, t, sent[e], stream[e], k, taken[e], acked[f], taken2)
  BY <1>5, <1>10, <1>12, <1>13, DirectionHandles, ZenonT(40)
<1>17. /\ t2 \in EngineType /\ t2.expected_tx_seq = t.expected_tx_seq
       /\ t2.received = t.received /\ t2.input_sdu = t.input_sdu
  BY <1>6, ZenonT(40) DEF EngineType
<1> HIDE DEF t2
<1>18. Direction(s2, t2, sent[e], stream[e], k, taken[e], acked[f], taken2)
  BY <1>16, <1>17, DirectionReceiver
<1> DEFINE acked2 == [acked EXCEPT ![e] = k]
           taken3 == [taken EXCEPT ![f] = taken2]
<1>19. /\ acked2 \in [Sides -> Nat] /\ taken3 \in [Sides -> Nat]
       /\ acked2[e] = k /\ acked2[f] = acked[f] /\ taken3[e] = taken[e] /\ taken3[f] = taken2
  <2>1. acked \in [Sides -> Nat] /\ taken \in [Sides -> Nat]
    BY <1>1, SMTT(30) DEF Positions
  <2> QED BY <1>2, <1>10, <2>1
<1> HIDE DEF acked2, taken3
<1>. PICK a2, t3 : a2 = acked2 /\ t3 = taken3
  OBVIOUS
<1>20. Positions(stream, a2, t3)'
  <2> DEFINE en == engine'
  <2>1. /\ Direction(en[e], en[f], sent[e], stream[e], a2[e], t3[e], a2[f], t3[f])
        /\ Direction(en[f], en[e], sent[f], stream[f], a2[f], t3[f], a2[e], t3[e])
    BY <1>4, <1>15, <1>18, <1>19, ZenonT(40)
  <2> HIDE DEF en
  <2>2. \A g \in Sides :
          Direction(en[g], en[Other(g)], sent[g], stream[g], a2[g], t3[g], a2[Other(g)], t3[Other(g)])
    BY <2>1, BothDirections, ZenonT(40) DEF f
  <2>3. \A g \in Sides :
          Direction(engine'[g], engine'[Other(g)], sent'[g], stream[g], a2[g], t3[g],
                    a2[Other(g)], t3[Other(g)])
    BY <1>3, <2>2, Zenon DEF en
  <2> QED BY <1>19, <2>3, SMTT(30) DEF Positions
<1>21. engine' \in [Sides -> EngineType] /\ sent' \in [Sides -> Seq(SduType)]
  BY <1>3, <1>4, <1>14, <1>17, Zenon
<1> QED BY <1>3, <1>4, <1>14, <1>17, <1>20, <1>21, Zenon DEF IInv, s, t, f

LEMMA StepInvariant == IInv /\ [Next]_vars => IInv'
<1> SUFFICES ASSUME IInv, [Next]_vars PROVE IInv'
  OBVIOUS
<1>1. CASE UNCHANGED vars
  <2>1. engine' = engine /\ sent' = sent
    BY <1>1 DEF vars
  <2>2. PICK stream, acked, taken : Positions(stream, acked, taken)
    BY SMTT(30) DEF IInv
  <2>3. Positions(stream, acked, taken)'
    BY <2>1, <2>2 DEF Positions
  <2> QED BY <2>1, <2>3 DEF IInv
<1>2. ASSUME NEW e \in Sides, Send(e) PROVE IInv'
  BY <1>2, StepSend, SMTT(30)
<1>3. ASSUME NEW e \in Sides, Receive(e) PROVE IInv'
  BY <1>3, StepReceive, SMTT(30)
<1>4. ASSUME NEW e \in Sides, Lose(e) PROVE IInv'
  BY <1>4, StepLose
<1>5. ASSUME NEW e \in Sides, Tick(e) PROVE IInv'
  BY <1>5, StepTick
<1>6. ASSUME NEW e \in Sides, SetReceiverBusy(e) PROVE IInv'
  BY <1>6, StepSetReceiverBusy
<1> QED BY <1>1, <1>2, <1>3, <1>4, <1>5, <1>6, SMTT(30) DEF Next

LEMMA Invariance == Spec => []IInv
<1>1. Spec => Init /\ [][Next]_vars
  BY DEF Spec
<1> QED BY <1>1, InitInvariant, StepInvariant, PTL

\* Two engines over links that lose but do not reorder never find each other's
\* frames invalid (the InvalidPacket returns of acknowledge and
\* accept_information are not taken), for every modulus and window below it.
THEOREM FramesAreValid == Spec => []NoInvalidPacket
<1>1. IInv => NoInvalidPacket
  <2> SUFFICES ASSUME IInv, NEW e \in Sides PROVE engine[e].error # "InvalidPacket"
    BY DEF NoInvalidPacket
  <2>1. engine[e] \in EngineType
    BY SMTT(30) DEF IInv
  <2> QED BY <2>1 DEF EngineType
<1> QED BY <1>1, Invariance, PTL

-----------------------------------------------------------------------------
(* The engines implement the stream of SDUs *)

\* What has been delivered from a side is a beginning of what the side has sent.
Beginnings ==
    \A e \in Sides :
        /\ Len(engine[Other(e)].received) <= Len(sent[e])
        /\ Delivered[e] = [i \in 1..Len(engine[Other(e)].received) |-> sent[e][i]]

LEMMA DeliveredPrefix ==
  ASSUME IInv, NEW e \in Sides
  PROVE  /\ Len(engine[Other(e)].received) \in Nat
         /\ Len(engine[Other(e)].received) <= Len(sent[e])
         /\ Delivered[e] = [i \in 1..Len(engine[Other(e)].received) |-> sent[e][i]]
<1> DEFINE t == engine[Other(e)]
           n == Len(t.received)
<1>1. PICK stream, acked, taken : Positions(stream, acked, taken)
  BY SMTT(30) DEF IInv
<1>2. Streams(stream[e], sent[e]) /\ Takes(t, stream[e], taken[e], sent[e])
  BY <1>1, BothSides, ZenonT(40)
<1>3. t \in EngineType /\ n \in Nat /\ Len(sent[e]) \in Nat
  BY <1>2, Sidedness, LenProperties, Zenon DEF IInv, EngineType, Streams
<1> HIDE DEF t
<1>4. n <= Len(sent[e])
  <2>1. CASE taken[e] = 0
    BY <1>2, <1>3, <2>1, SMTT(30) DEF Takes
  <2>2. CASE taken[e] > 0
    <3>1. taken[e] \in 1..Len(stream[e])
      BY <1>2, <2>2, SMTT(30) DEF Takes
    <3>2. stream[e][taken[e]].sdu.number \in 1..Len(sent[e])
      BY <1>2, <3>1, SMTT(30) DEF Streams
    <3>3. \/ n = stream[e][taken[e]].sdu.number
          \/ n = stream[e][taken[e]].sdu.number - 1
      BY <1>2, <2>2, SMTT(30) DEF Takes
    <3> QED BY <1>3, <3>2, <3>3, SMTT(30)
  <2>3. taken[e] = 0 \/ taken[e] > 0
    BY <1>2, SMTT(30) DEF Takes
  <2> QED BY <2>1, <2>2, <2>3, SMTT(30)
<1>5. \A i \in 1..n : Sdu(t.received[i]) = sent[e][i]
  <2> SUFFICES ASSUME NEW i \in 1..n PROVE Sdu(t.received[i]) = sent[e][i]
    OBVIOUS
  <2> DEFINE sdu == sent[e][i]
  <2>1. i \in 1..Len(sent[e]) /\ sent[e] \in Seq(SduType)
    BY <1>2, <1>3, <1>4 DEF Streams
  <2>2. sdu \in SduType
    BY <2>1, ElementOfSeq
  <2>3. t.received[i] = Segments(sdu)
    BY <1>2 DEF Takes
  <2> HIDE DEF sdu
  <2>4. 1 \in 1..sdu.of
    BY <2>2 DEF SduType
  <2>5. Segments(sdu)[1].sdu = sdu
    BY <2>4 DEF Segments, Segment
  <2> QED BY <2>3, <2>5 DEF Sdu, sdu
<1>6. Delivered[e] = [i \in 1..n |-> Sdu(t.received[i])]
  BY DEF Delivered, t
<1> HIDE DEF n
<1>7. Delivered[e] = [i \in 1..n |-> sent[e][i]]
  BY <1>5, <1>6
<1> QED BY <1>3, <1>4, <1>7 DEF n, t

LEMMA DeliveredBeginnings == IInv => Beginnings
  BY DeliveredPrefix DEF Beginnings

LEMMA QuietDelivers ==
  ASSUME Quiet
  PROVE  Delivered' = Delivered
<1>1. \A e \in Sides : engine'[Other(e)].received = engine[Other(e)].received
  BY Sidedness DEF Quiet
<1> QED BY <1>1 DEF Delivered

LEMMA InitRefinement == Init => Stream!Init
<1> SUFFICES ASSUME Init PROVE Stream!Init
  OBVIOUS
<1>1. \A e \in Sides : engine[Other(e)].received = <<>>
  BY Sidedness, SMTT(30) DEF Init, New
<1>2. Delivered = [e \in Sides |-> <<>>]
  <2>1. \A e \in Sides : Delivered[e] = <<>>
    BY <1>1 DEF Delivered
  <2> QED BY <2>1, SMTT(30) DEF Delivered
<1> QED BY <1>2, SMTT(30) DEF Init, Stream!Init

LEMMA StepRefinement ==
  ASSUME IInv, IInv', [Next]_vars
  PROVE  [Stream!Next]_<<sent, Delivered>>
<1>1. CASE UNCHANGED vars
  <2>1. Quiet /\ sent' = sent
    BY <1>1 DEF vars, Quiet
  <2> QED BY <2>1, QuietDelivers
<1>2. ASSUME NEW e \in Sides, Lose(e) \/ Tick(e) \/ SetReceiverBusy(e)
      PROVE  Delivered' = Delivered /\ sent' = sent
  <2>1. Quiet
    BY <1>2, StepLose, StepTick, StepSetReceiverBusy
  <2> QED BY <1>2, <2>1, QuietDelivers DEF Lose, Tick, SetReceiverBusy
<1>3. ASSUME NEW e \in Sides, Send(e)
      PROVE  Stream!Next
  <2> DEFINE n == Len(sent[e]) + 1
             sdu == [number |-> n, of |-> Script[e][n]]
  <2>1. Delivered' = Delivered
    BY <1>3, StepSend, QuietDelivers, SMTT(30)
  <2>2. sent' = [sent EXCEPT ![e] = Append(@, sdu)] /\ n <= Len(Script[e])
    BY <1>3, SMTT(30) DEF Send
  <2>3. sdu \in Sdus
    <3>1. sent[e] \in Seq(SduType) /\ Script[e] \in Seq(Nat \ {0})
      BY ScriptAssumption, SMTT(30) DEF IInv
    <3>2. n \in 1..Len(Script[e])
      BY <2>2, <3>1, LenProperties
    <3> HIDE DEF n
    <3> QED BY <3>2 DEF Sdus
  <2> HIDE DEF sdu
  <2>4. Stream!Send(e, sdu)
    BY <2>1, <2>2, SMTT(30) DEF Stream!Send
  <2> QED BY <2>3, <2>4 DEF Stream!Next
<1>4. ASSUME NEW e \in Sides, Receive(e)
      PROVE  Stream!Next \/ (Delivered' = Delivered /\ sent' = sent)
  <2> DEFINE f == Other(e)
             r == engine[e].received
             n == Len(r)
  <2>1. f \in Sides /\ f # e /\ Other(f) = e /\ \A g \in Sides : g = e \/ g = f
    BY Sidedness
  <2>2. sent' = sent /\ Grows(engine[e], engine'[e]) /\ engine'[f].received = engine[f].received
    BY <1>4, StepReceive
  <2>3. CASE engine'[e].received = r
    <3>1. Quiet
      BY <2>1, <2>2, <2>3 DEF Quiet
    <3> QED BY <2>2, <3>1, QuietDelivers, SMTT(30)
  <2>4. CASE \E x : engine'[e].received = Append(r, x)
    <3>1. PICK x : engine'[e].received = Append(r, x)
      BY <2>4
    <3>2. r \in Seq(Seq(SegmentType)) /\ engine'[e].received \in Seq(Seq(SegmentType))
      BY DEF IInv, EngineType
    <3>3. n \in Nat /\ Len(engine'[e].received) = n + 1
      BY <3>1, <3>2, LenProperties, SMTT(30)
    <3>4. /\ Len(engine'[e].received) <= Len(sent'[f])
          /\ Delivered'[f] = [i \in 1..Len(engine'[e].received) |-> sent'[f][i]]
      <4>1. Beginnings'
        BY DeliveredBeginnings, PTL
      <4> QED BY <2>1, <4>1 DEF Beginnings
    <3>5. Delivered[f] = [i \in 1..n |-> sent[f][i]]
      BY <2>1, DeliveredPrefix
    <3>6. Len(sent[f]) \in Nat /\ sent[f] \in Seq(SduType)
      BY <2>1, LenProperties, SMTT(30) DEF IInv
    <3> HIDE DEF n
    <3>7. \A i \in 1..(n + 1) : sent[f][i] \in SduType
      <4> SUFFICES ASSUME NEW i \in 1..(n + 1) PROVE i \in 1..Len(sent[f])
        BY <3>6, ElementOfSeq
      <4> QED BY <2>2, <3>3, <3>4, <3>6, SMTT(30)
    <3>8. /\ Delivered[f] \in Seq(SduType) /\ Len(Delivered[f]) = n
      <4>1. Delivered[f] \in [1..n -> SduType]
        BY <3>3, <3>5, <3>7
      <4> QED BY <3>3, <4>1, FunctionIsSeq, SMTT(30)
    <3>9. Delivered'[f] = Append(Delivered[f], sent[f][n + 1])
      <4> DEFINE q == Append(Delivered[f], sent[f][n + 1])
      <4>1. /\ q \in Seq(SduType) /\ Len(q) = n + 1
            /\ \A i \in 1..n : q[i] = sent[f][i]
            /\ q[n + 1] = sent[f][n + 1]
        BY <3>3, <3>5, <3>7, <3>8, AppendProperties, SMTT(30)
      <4>2. /\ Delivered'[f] \in [1..(n + 1) -> SduType]
            /\ \A i \in 1..(n + 1) : Delivered'[f][i] = sent[f][i]
        BY <2>2, <3>3, <3>4, <3>7, SMTT(30)
      <4>3. Delivered'[f] \in Seq(SduType) /\ Len(Delivered'[f]) = n + 1
        BY <3>3, <4>2, FunctionIsSeq
      <4> HIDE DEF q
      <4>4. \A i \in 1..(n + 1) : i \in 1..n \/ i = n + 1
        BY <3>3, SMTT(30)
      <4>5. Delivered'[f] = q
        BY <4>1, <4>2, <4>3, <4>4, SeqEqual, SMTT(30)
      <4> QED BY <4>5, SMTT(30) DEF q
    <3>10. \A g \in Sides : g # f => Delivered'[g] = Delivered[g]
      <4>1. Delivered'[e] = Delivered[e]
        BY <2>2 DEF Delivered
      <4> QED BY <2>1, <4>1, SMTT(30)
    <3>11. Delivered' = [Delivered EXCEPT ![f] = Append(@, sent[f][Len(@) + 1])]
      <4>1. Delivered = [g \in Sides |-> Delivered[g]] /\ Delivered' = [g \in Sides |-> Delivered'[g]]
        BY SMTT(30) DEF Delivered
      <4> QED BY <2>1, <3>8, <3>9, <3>10, <4>1, SMTT(30)
    <3>12. Len(Delivered[f]) < Len(sent[f])
      BY <2>2, <3>3, <3>4, <3>6, <3>8, SMTT(30)
    <3>13. Stream!Deliver(f)
      BY <2>2, <3>11, <3>12 DEF Stream!Deliver
    <3> QED BY <2>1, <3>13 DEF Stream!Next
  <2> QED BY <2>2, <2>3, <2>4, Zenon DEF Grows
<1> QED BY <1>1, <1>2, <1>3, <1>4 DEF Next

\* Every behaviour of the two engines, with whatever their links lose, is one of
\* a reliable stream of SDUs in each direction: what received holds on one side
\* is always a beginning of what send_sdu was given on the other.
THEOREM StreamRefinement == Spec => ImplementsStream
<1>1. Spec => Init /\ [][Next]_vars
  BY DEF Spec
<1>2. IInv /\ IInv' /\ [Next]_vars => [Stream!Next]_<<sent, Delivered>>
  BY StepRefinement
<1> QED BY <1>1, <1>2, InitRefinement, Invariance, PTL DEF ImplementsStream, Stream!Spec

=============================================================================
