------------------------------ MODULE SduStream ------------------------------
(***************************************************************************)
(* What an enhanced-retransmission channel promises to each of its two      *)
(* sides: the SDUs the other side sent, whole, in order and each once.      *)
(***************************************************************************)
EXTENDS Naturals, Sequences

CONSTANTS Sides, Sdus

VARIABLES sent,      \* the SDUs each side has sent
          delivered  \* the SDUs that have arrived from each side

Init ==
    /\ sent = [e \in Sides |-> <<>>]
    /\ delivered = [e \in Sides |-> <<>>]

Send(e, sdu) ==
    /\ sent' = [sent EXCEPT ![e] = Append(@, sdu)]
    /\ UNCHANGED delivered

Deliver(e) ==
    /\ Len(delivered[e]) < Len(sent[e])
    /\ delivered' = [delivered EXCEPT ![e] = Append(@, sent[e][Len(@) + 1])]
    /\ UNCHANGED sent

Next == \E e \in Sides : Deliver(e) \/ \E sdu \in Sdus : Send(e, sdu)

Spec == Init /\ [][Next]_<<sent, delivered>>

=============================================================================
