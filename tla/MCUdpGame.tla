----------------------------- MODULE MCUdpGame -----------------------------
(* UdpGame on small instances: clients at one host or at two.              *)
EXTENDS UdpGame

CONSTANTS a1, p1, p2

At(address, port) == [address |-> address, port |-> port]

MCOneEndpoint == {At(a1, p1)}
MCTwoEndpoints == {At(a1, p1), At(a1, p2)}

=============================================================================
