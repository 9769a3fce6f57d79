------------------------------- MODULE MCErtm -------------------------------
(* An instance of Ertm in which sequence numbers wrap around: side a sends  *)
(* more frames than the modulus, with the largest window it allows.         *)
EXTENDS Ertm

AFewSdus == [a |-> <<3, 2>>, b |-> <<1>>]

=============================================================================
