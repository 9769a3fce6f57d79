------------------------------- MODULE MCL2cap -------------------------------
(* An instance of L2cap: a basic server with a small MTU, an ERTM server and *)
(* clients for either mode. Connections are refused when the CIDs run out.  *)
EXTENDS L2cap, TLC

Hid == 17
Dynamic == 4097

Absent == 25

Ports == {Hid, Dynamic, Absent}
Basic(mtu) == [mtu |-> mtu, mode |-> "basic"]
TwoServers == Hid :> Basic(3) @@ Dynamic :> [mtu |-> 3, mode |-> "ertm"]
Requests == [a |-> {<<Hid, Basic(2)>>, <<Dynamic, [mtu |-> 3, mode |-> "ertm with fcs"]>>},
             b |-> {<<Hid, Basic(3)>>, <<Dynamic, Basic(3)>>, <<Absent, Basic(3)>>}]

\* An option nobody knows, an MTU below the minimum, the basic mode spelt out.
Try(options) == [how |-> "answers", first |-> options]
Unknown == Try(<<Option(MtuOption, LE16(3)), Option(9, <<>>)>>)
TooSmall == Try(<<Hinted(9, <<7>>), Option(MtuOption, LE16(1))>>)
BasicMode == Try(<<Option(RetransmissionOption, [i \in 1..9 |-> 0])>>)
With(how) == [how |-> how, first |-> <<>>]

OtherStacks == {Unknown, TooSmall, BasicMode, With("pending"), With("rejects"), With("bundles")}

=============================================================================
