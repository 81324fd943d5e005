------------------------------ MODULE MCObserver ------------------------------
(* A user, a peer whose id the SDK leaves out, and the pseudo-receiver that  *)
(* stands in while there are no peers; estimates on either side of zero.     *)
EXTENDS Observer

MCEstimates == {-1, 4}
MCPeerLists == {<< >>, <<"u1", "peer1">>}
=============================================================================
